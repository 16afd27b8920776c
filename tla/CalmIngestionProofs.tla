------------------------- MODULE CalmIngestionProofs -------------------------
(***************************************************************************)
(* Theorems about WalletIngestion without mishaps, when a wallet is        *)
(* created once: the two tasks then never meet on a wallet, though they    *)
(* take different locks, and so record an event once and account for it.   *)
(***************************************************************************)
EXTENDS WalletIngestionProofs

USE SolanaAssumption, NoWalletAssumption, BoundsAssumption, SwitchAssumption

Calm == RunsFitTTL /\ MaxSubmits <= 1 /\ ~Faults /\ ~Crashes

-----------------------------------------------------------------------------
(* The invariant: who may be at work on a wallet, by the wallet's status.  *)

\* A worker is at work on its wallet.
Busy(p) == pc[p] \in {"mark"} \cup Pipeline

\* Before its creation there is nothing of a wallet.
UncreatedOK(w) ==
  /\ submits[w] = 0 =>
       /\ txn[w] = "none" /\ status[w] = "absent"
       /\ \A m \in broker : m.wallet # w
       /\ Reconstructing(w) = {}
  /\ status[w] = "absent" => ~active[w]
  /\ status[w] # "absent" => txn[w] = "none"

\* A message is waiting, or a reconstruction is running, or neither.
MessageOK ==
  /\ \A m, n \in broker : m.wallet = n.wallet => m = n
  /\ \A m \in broker : Reconstructing(m.wallet) = {} /\ status[m.wallet] # "synced"

\* A wallet under reconstruction is not synced until the reconstruction ends.
ReconOK(p) ==
  job[p] = "recon" =>
    /\ pc[p] \notin {"except", "retry"}
    /\ pc[p] = "load" \/ Busy(p) => status[wal[p]] # "synced"
    /\ Busy(p) \/ pc[p] = "report" => status[wal[p]] # "absent"

\* The sync run visits synced wallets only.
SyncOK(p) ==
  /\ \A w \in todo[p] : job[p] = "sync" /\ status[w] = "synced"
  /\ job[p] = "sync" /\ pc[p] \in Pipeline => status[wal[p]] = "synced" /\ wal[p] \notin todo[p]

TurnsOK ==
  /\ \A w \in Wallet : UncreatedOK(w)
  /\ MessageOK
  /\ \A p \in Worker : ReconOK(p) /\ SyncOK(p)

-----------------------------------------------------------------------------
(* The invariant: what the ledger holds of a wallet, by its worker's place. *)

StoredUpTo(w, n) == \A b \in Block : <<w, b>> \in stored => b <= n

\* What the worker at w has found is new, and ends at what it will stamp.
FreshOK(p) ==
  LET w == wal[p]
  IN /\ pc[p] \in {"mark", "scan"} =>
          block[w] <= from[p] /\ \A b \in Block : from[p] <= b => block[w] < b
     /\ pc[p] \in {"mark", "scan", "store"} => StoredUpTo(w, block[w])
     /\ pc[p] = "store" => \A b \in found[p] : block[w] < b /\ b <= high[p]
     /\ pc[p] \in {"store", "read", "write", "finish"} => block[w] <= high[p]
     /\ pc[p] \in {"read", "write", "finish"} => StoredUpTo(w, high[p])
     /\ pc[p] = "write" => snap[p] = AllLots(p)
     /\ pc[p] = "finish" => \A b \in Block : <<w, b>> \in stored => <<w, b>> \in pos

\* Nobody is between the INSERT of w's lots and the stamp.
AtRest(w) == \A p \in Worker : pc[p] \in {"read", "write", "finish"} => wal[p] # w

BooksOK ==
  /\ \A w \in Wallet \ Solana :
       /\ AtRest(w) => StoredUpTo(w, block[w])
       /\ status[w] # "synced" => block[w] = 0
       /\ \A p \in Worker : w \in todo[p] => cps[p][w] = block[w]
  /\ \A p \in Worker : Busy(p) /\ wal[p] \notin Solana => FreshOK(p)
  /\ PositionsCoverCheckpoint
  /\ OneLotPerEvent

CalmInv == TurnsOK /\ BooksOK

-----------------------------------------------------------------------------
(* Who is at work.                                                         *)

\* Two workers are never at work on one wallet: two reconstructions share a
\* key, and so do two sync runs, and of a reconstruction and a sync run one
\* wants the wallet synced and the other does not.
LEMMA BusyExclusive ==
  ASSUME Typed, LockOK, TurnsOK, NEW p \in Worker, NEW q \in Worker,
         Busy(p), Busy(q), wal[p] = wal[q]
  PROVE  p = q
<1>1. ASSUME NEW r \in {p, q}
      PROVE  /\ job[r] \in {"recon", "sync"}
             /\ job[r] = "recon" => status[wal[r]] # "synced"
             /\ job[r] = "sync" => status[wal[r]] = "synced"
  <2>1. Busy(r) /\ r \in Worker
    OBVIOUS
  <2>2. job[r] \in {"recon", "sync"} /\ (job[r] = "sync" => pc[r] \in Pipeline)
    BY <2>1 DEF Typed, TypeOK, ControlOK, ReconPC, SyncPC, Pipeline, Busy
  <2> QED
    BY <2>1, <2>2 DEF TurnsOK, ReconOK, SyncOK
<1>2. CASE job[p] = "recon" /\ job[q] = "recon"
  BY <1>2 DEF LockOK, ReconLockOK
<1>3. CASE job[p] = "sync" /\ job[q] = "sync"
  BY <1>3 DEF LockOK, SyncLockOK
<1>4. ASSUME job[p] # job[q] PROVE FALSE
  BY <1>1, <1>4
<1> QED
  BY <1>1, <1>2, <1>3, <1>4

LEMMA TurnsInit == Init => TurnsOK
  BY DEF Init, TurnsOK, UncreatedOK, MessageOK, ReconOK, SyncOK, Reconstructing

\* Steps of one worker that leave rows, messages and tasks alone.
LEMMA TurnsFrame ==
  ASSUME Typed, TurnsOK, NEW p \in Worker,
         UNCHANGED <<active, status, api, broker, job>>,
         \A q \in Worker : q # p => pc'[q] = pc[q] /\ wal'[q] = wal[q] /\ todo'[q] = todo[q],
         job[p] = "recon" => wal'[p] = wal[p],
         ReconOK(p)', SyncOK(p)'
  PROVE  TurnsOK'
<1> USE DEF Typed, TypeOK, api
<1>1. \A w \in Wallet : Reconstructing(w)' = Reconstructing(w)
  BY DEF Reconstructing
<1>2. \A w \in Wallet : UncreatedOK(w)'
  BY <1>1 DEF TurnsOK, UncreatedOK
<1>3. MessageOK'
  <2>1. \A m \in broker : m.wallet \in Wallet
    BY DEF Message
  <2>2. ASSUME NEW m \in broker PROVE Reconstructing(m.wallet)' = {} /\ status'[m.wallet] # "synced"
    <3>1. m.wallet \in Wallet
      BY <2>1
    <3>2. Reconstructing(m.wallet) = {} /\ status[m.wallet] # "synced"
      BY DEF TurnsOK, MessageOK
    <3> QED
      BY <1>1, <3>1, <3>2
  <2> QED
    BY <2>2 DEF TurnsOK, MessageOK
<1>4. ASSUME NEW q \in Worker PROVE ReconOK(q)' /\ SyncOK(q)'
  <2>1. CASE q = p
    BY <2>1
  <2>2. CASE q # p
    BY <2>2 DEF TurnsOK, ReconOK, SyncOK, Busy
  <2> QED
    BY <2>1, <2>2
<1> QED
  BY <1>2, <1>3, <1>4 DEF TurnsOK

LEMMA OnlyOnce ==
  ASSUME MaxSubmits <= 1, NEW n \in Nat, n < MaxSubmits
  PROVE  n = 0
  OBVIOUS

\* Requests.
LEMMA TurnsRequest ==
  ASSUME Calm, Typed, TurnsOK, NEW w \in Wallet, Request(w)
  PROVE  TurnsOK'
<1> USE DEF Typed, TypeOK, locals, batch
<1>0. UncreatedOK(w) /\ MaxSubmits <= 1 /\ ~Faults /\ submits[w] \in Nat
  BY DEF TurnsOK, Calm
<1>1. CASE Submit(w)
  <2> DEFINE n == [wallet |-> w, id |-> submits[w], retries |-> 0]
  <2>1. /\ submits[w] = 0 /\ submits' = [submits EXCEPT ![w] = 1]
        /\ broker' = broker \cup {n} /\ txn' = [txn EXCEPT ![w] = "insert"]
        /\ UNCHANGED <<active, status, pc, job, wal, todo>>
    <3>0. submits[w] < MaxSubmits
      BY <1>1 DEF Submit
    <3>a. submits[w] = 0
      BY <1>0, <3>0, OnlyOnce
    <3>b. status[w] = "absent"
      BY <1>0, <3>a DEF UncreatedOK
    <3>1. submits[w] = 0 /\ status[w] = "absent" /\ submits[w] + 1 = 1
      BY <3>a, <3>b
    <3>2. submits' = [submits EXCEPT ![w] = 1] /\ txn' = [txn EXCEPT ![w] = "insert"]
      BY <1>1, <3>1 DEF Submit
    <3>3. broker' = broker \cup {n}
      BY <1>0, <1>1 DEF Submit
    <3> QED
      BY <1>1, <3>1, <3>2, <3>3 DEF Submit, row
  <2>2. /\ status[w] = "absent" /\ \A m \in broker : m.wallet # w
        /\ \A p \in Worker : ~(job[p] = "recon" /\ wal[p] = w)
    BY <1>0, <2>1 DEF UncreatedOK, Reconstructing
  <2>3. \A v \in Wallet : UncreatedOK(v)'
    BY <2>1, <2>2 DEF TurnsOK, UncreatedOK, Reconstructing
  <2>4. MessageOK'
    BY <2>1, <2>2 DEF TurnsOK, MessageOK, Reconstructing
  <2>5. \A p \in Worker : ReconOK(p)' /\ SyncOK(p)'
    BY <2>1 DEF TurnsOK, ReconOK, SyncOK, Busy
  <2> QED
    BY <2>3, <2>4, <2>5 DEF TurnsOK
<1>2. CASE Commit(w)
  <2>1. /\ txn[w] # "none" /\ status[w] = "absent" /\ submits[w] # 0
        /\ txn' = [txn EXCEPT ![w] = "none"]
        /\ active' = [active EXCEPT ![w] = TRUE]
        /\ status' = [status EXCEPT ![w] = "pending"]
        /\ UNCHANGED <<submits, broker, pc, job, wal, todo>>
    BY <1>0, <1>2 DEF Commit, UncreatedOK
  <2>3. \A v \in Wallet : UncreatedOK(v)'
    BY <2>1 DEF TurnsOK, UncreatedOK, Reconstructing
  <2>4. MessageOK'
    BY <2>1 DEF TurnsOK, MessageOK, Reconstructing, Message
  <2>5. \A p \in Worker : ReconOK(p)' /\ SyncOK(p)'
    BY <2>1 DEF TurnsOK, ReconOK, SyncOK, Busy, ControlOK
  <2> QED
    BY <2>3, <2>4, <2>5 DEF TurnsOK
<1>3. CASE Rollback(w)
  BY <1>0, <1>3 DEF Rollback
<1>4. ASSUME NEW a \in BOOLEAN, SetActive(w, a) PROVE TurnsOK'
  <2>1. /\ status[w] # "absent" /\ active' = [active EXCEPT ![w] = a]
        /\ UNCHANGED <<status, txn, submits, broker, pc, job, wal, todo>>
    BY <1>4 DEF SetActive, api
  <2> QED
    BY <2>1 DEF TurnsOK, UncreatedOK, MessageOK, Reconstructing, ReconOK, SyncOK, Busy
<1> QED
  BY <1>1, <1>2, <1>3, <1>4 DEF Request

\* Deliveries.
LEMMA TurnsDeliver ==
  ASSUME Typed, TurnsOK, NEW p \in Worker, Deliver(p)
  PROVE  TurnsOK'
<1> USE DEF Typed, TypeOK, row, api, batch
<1>0. PICK m \in broker : SkipLocked(p, m) \/ StartRecon(p, m)
  BY DEF Deliver
<1>1. m \in Message /\ m.wallet \in Wallet /\ Reconstructing(m.wallet) = {} /\ status[m.wallet] # "synced"
  BY DEF TurnsOK, MessageOK, Message
<1>2. CASE SkipLocked(p, m)
  BY <1>2 DEF SkipLocked, TurnsOK, UncreatedOK, MessageOK, Reconstructing, ReconOK, SyncOK, Busy, locals
<1>3. CASE StartRecon(p, m)
  <2>1. /\ pc[p] = "idle" /\ broker' = broker \ {m}
        /\ pc' = [pc EXCEPT ![p] = "load"] /\ job' = [job EXCEPT ![p] = "recon"]
        /\ wal' = [wal EXCEPT ![p] = m.wallet]
        /\ UNCHANGED <<active, status, txn, submits, todo>>
    BY <1>3 DEF StartRecon
  <2>2. job[p] = "none"
    BY <2>1 DEF ControlOK
  <2>3. submits[m.wallet] # 0
    BY <1>1 DEF TurnsOK, UncreatedOK
  <2>4. \A w \in Wallet : UncreatedOK(w)'
    BY <2>1, <2>2, <2>3 DEF TurnsOK, UncreatedOK, Reconstructing
  <2>5. MessageOK'
    BY <1>1, <2>1, <2>2 DEF TurnsOK, MessageOK, Reconstructing
  <2>6. \A q \in Worker : ReconOK(q)' /\ SyncOK(q)'
    BY <1>1, <2>1, <2>2 DEF TurnsOK, ReconOK, SyncOK, Busy, Pipeline
  <2> QED
    BY <2>4, <2>5, <2>6 DEF TurnsOK
<1> QED
  BY <1>0, <1>2, <1>3

\* The status changes as a reconstruction goes on.
LEMMA TurnsStatus ==
  ASSUME Typed, LockOK, TurnsOK, NEW p \in Worker, SetSyncing(p) \/ FinishRecon(p)
  PROVE  TurnsOK'
<1> USE DEF Typed, TypeOK, api
<1> DEFINE w == wal[p]
           s == IF SetSyncing(p) THEN "syncing" ELSE "synced"
<1>1. /\ job[p] = "recon" /\ w \in Wallet /\ Busy(p)
      /\ \A q \in Worker : q # p => ~(job[q] = "recon" /\ wal[q] = w)
  <2>1. pc[p] \in {"mark", "finish"} /\ (pc[p] = "finish" => job[p] = "recon")
    BY DEF SetSyncing, FinishRecon
  <2>2. job[p] = "recon"
    BY <2>1 DEF ControlOK, SyncPC, Pipeline
  <2> QED
    BY <2>1, <2>2 DEF ControlOK, LockOK, ReconLockOK, Busy, Pipeline
<1>2. /\ status[w] # "synced" /\ status[w] # "absent"
      /\ \A m \in broker : m.wallet # w
      /\ \A q \in Worker : w \notin todo[q] /\ (job[q] = "sync" /\ pc[q] \in Pipeline => wal[q] # w)
  BY <1>1 DEF TurnsOK, ReconOK, SyncOK, MessageOK, Reconstructing, Busy
<1>3. /\ status' = [status EXCEPT ![w] = s] /\ s # "absent" /\ (s = "synced" => pc'[p] = "report")
      /\ pc' = [pc EXCEPT ![p] = pc'[p]] /\ pc'[p] \in {"scan", "report"}
      /\ UNCHANGED <<active, txn, submits, broker, job, wal, todo>>
  BY DEF SetSyncing, FinishRecon, locals, batch
<1> HIDE DEF s
<1>4. \A v \in Wallet : UncreatedOK(v)'
  BY <1>1, <1>2, <1>3 DEF TurnsOK, UncreatedOK, Reconstructing
<1>5. MessageOK'
  BY <1>1, <1>2, <1>3 DEF TurnsOK, MessageOK, Reconstructing, Message
<1>6. \A q \in Worker : ReconOK(q)' /\ SyncOK(q)'
  BY <1>1, <1>2, <1>3 DEF TurnsOK, ReconOK, SyncOK, Busy, Pipeline, ControlOK
<1> QED
  BY <1>4, <1>5, <1>6 DEF TurnsOK

\* The other steps of a worker.
LEMMA TurnsAdvance ==
  ASSUME Calm, Typed, LockOK, TurnsOK, NEW p \in Worker,
         StartSync(p) \/ Advance(p)
  PROVE  TurnsOK'
<1> USE DEF Typed, TypeOK, row, api, locals, batch
<1>0. ReconOK(p) /\ SyncOK(p)
  BY DEF TurnsOK
<1>1. CASE StartSync(p)
  <2>1. /\ pc[p] = "idle" /\ job[p] = "none" /\ todo[p] = {}
        /\ pc' = [pc EXCEPT ![p] = "list"] /\ job' = [job EXCEPT ![p] = "sync"]
        /\ UNCHANGED <<active, status, txn, submits, broker, wal, todo>>
    BY <1>0, <1>1 DEF StartSync, ControlOK, SyncOK
  <2> QED
    BY <2>1 DEF TurnsOK, UncreatedOK, MessageOK, Reconstructing, ReconOK, SyncOK, Busy, Pipeline
<1>2. CASE LoadWallet(p)
  <2>1. /\ pc[p] = "load" /\ job[p] = "recon"
        /\ pc'[p] \in {"mark", "release"} /\ (pc'[p] = "mark" => active[wal[p]])
        /\ wal[p] \in Wallet /\ UNCHANGED <<active, status, api, broker, job, wal, todo>>
        /\ \A q \in Worker : q # p => pc'[q] = pc[q]
    <3>1. pc[p] = "load" /\ job[p] = "recon" /\ wal[p] \in Wallet
      BY <1>2 DEF LoadWallet, ControlOK, SyncPC, Pipeline
    <3>2. pc'[p] = IF active[wal[p]] THEN "mark" ELSE "release"
      BY <1>2 DEF LoadWallet
    <3> QED
      BY <1>2, <3>1, <3>2 DEF LoadWallet
  <2>2. ReconOK(p)' /\ SyncOK(p)'
    BY <1>0, <2>1 DEF ReconOK, SyncOK, Busy, Pipeline, TurnsOK, UncreatedOK
  <2> QED
    BY <2>1, <2>2, TurnsFrame
<1>3. CASE LoadSynced(p)
  <2>1. /\ pc[p] = "list" /\ job[p] = "sync" /\ pc'[p] = "next"
        /\ todo'[p] = {w \in Wallet : active[w] /\ status[w] = "synced"}
        /\ UNCHANGED <<active, status, api, broker, job, wal>>
        /\ \A q \in Worker : q # p => pc'[q] = pc[q] /\ todo'[q] = todo[q]
    BY <1>3 DEF LoadSynced, SyncedWallets, ControlOK, ReconPC, Pipeline
  <2>2. ReconOK(p)' /\ SyncOK(p)'
    BY <2>1 DEF ReconOK, SyncOK, Pipeline
  <2> QED
    BY <2>1, <2>2, TurnsFrame
<1>4. CASE SyncWallet(p)
  <2>1. PICK w \in todo[p] :
          /\ todo' = [todo EXCEPT ![p] = @ \ {w}]
          /\ wal' = [wal EXCEPT ![p] = w]
    BY <1>4 DEF SyncWallet
  <2>2. job[p] = "sync" /\ UNCHANGED <<active, status, api, broker, job>> /\ pc' = [pc EXCEPT ![p] = "scan"]
    BY <1>4 DEF SyncWallet, ControlOK, ReconPC, Pipeline
  <2>3. ReconOK(p)' /\ SyncOK(p)'
    BY <1>0, <2>1, <2>2 DEF ReconOK, SyncOK, Pipeline
  <2> QED
    BY <2>1, <2>2, <2>3, TurnsFrame
<1>5. CASE ScanEvm(p) \/ ScanSolana(p) \/ CreateLots(p) \/ ReadLots(p) \/ WritePositions(p)
  <2>1. /\ pc[p] \in Pipeline /\ pc'[p] \in Pipeline
        /\ UNCHANGED <<active, status, api, broker, job, wal, todo>>
        /\ \A q \in Worker : q # p => pc'[q] = pc[q]
    BY <1>5 DEF ScanEvm, ScanSolana, AfterScan, CreateLots, ReadLots, WritePositions, Pipeline
  <2>2. ReconOK(p)' /\ SyncOK(p)'
    BY <1>0, <2>1 DEF ReconOK, SyncOK, Busy, Pipeline
  <2> QED
    BY <2>1, <2>2, TurnsFrame
<1>6. CASE SyncDone(p) \/ FinishSync(p)
  <2>1. /\ pc'[p] \in {"next", "release"} /\ job[p] = "sync"
        /\ UNCHANGED <<active, status, api, broker, job, todo>>
        /\ \A q \in Worker : q # p => pc'[q] = pc[q] /\ wal'[q] = wal[q]
    BY <1>6 DEF SyncDone, FinishSync, ControlOK, ReconPC, Pipeline
  <2>2. ReconOK(p)' /\ SyncOK(p)'
    BY <1>0, <2>1 DEF ReconOK, SyncOK, Pipeline
  <2> QED
    BY <2>1, <2>2, TurnsFrame
<1>7. CASE ReportComplete(p)
  <2>1. /\ pc[p] = "report" /\ pc'[p] = "release"
        /\ UNCHANGED <<active, status, api, broker, job, wal, todo>>
        /\ \A q \in Worker : q # p => pc'[q] = pc[q]
    BY <1>7 DEF ReportComplete
  <2>2. ReconOK(p)' /\ SyncOK(p)'
    BY <1>0, <2>1 DEF ReconOK, SyncOK, Busy, Pipeline
  <2> QED
    BY <2>1, <2>2, TurnsFrame
<1>8. CASE MarkError(p) \/ RetryTask(p)
  BY <1>0, <1>8 DEF MarkError, RetryTask, ReconOK, ControlOK, SyncPC, Pipeline
<1>9. CASE ReleaseRecon(p) \/ ReleaseSync(p)
  <2>1. /\ pc[p] = "release" /\ pc' = [pc EXCEPT ![p] = "idle"] /\ job' = [job EXCEPT ![p] = "none"]
        /\ wal' = [wal EXCEPT ![p] = NoWallet] /\ todo' = [todo EXCEPT ![p] = {}]
        /\ UNCHANGED <<active, status, txn, submits, broker>>
    BY <1>9 DEF ReleaseRecon, ReleaseSync, Reset
  <2>2. \A w \in Wallet : Reconstructing(w)' \subseteq Reconstructing(w)
    BY <2>1 DEF Reconstructing
  <2>3. \A w \in Wallet : UncreatedOK(w)'
    BY <2>1, <2>2 DEF TurnsOK, UncreatedOK
  <2>4. MessageOK'
    <3>1. \A m \in broker : m.wallet \in Wallet
      BY DEF Message
    <3> QED
      BY <2>1, <2>2, <3>1 DEF TurnsOK, MessageOK
  <2>5. \A q \in Worker : ReconOK(q)' /\ SyncOK(q)'
    BY <2>1 DEF TurnsOK, ReconOK, SyncOK, Busy
  <2> QED
    BY <2>3, <2>4, <2>5 DEF TurnsOK
<1> QED
  BY <1>1, <1>2, <1>3, <1>4, <1>5, <1>6, <1>7, <1>8, <1>9, TurnsStatus DEF Advance

\* No step brings two tasks together.
LEMMA TurnsStep ==
  ASSUME Calm, Typed, LockOK, TurnsOK, [Next]_vars
  PROVE  TurnsOK'
<1>1. CASE Mine \/ Expire \/ UNCHANGED vars
  BY <1>1 DEF Mine, Expire, ExpireSync, ExpireRecon, vars, row, api, locals, batch,
              TurnsOK, UncreatedOK, MessageOK, Reconstructing, ReconOK, SyncOK, Busy
<1>2. ASSUME NEW p \in Worker, Mishap(p) PROVE FALSE
  BY <1>2 DEF Mishap, ReconRaises, HandlerRaises, SyncWalletRaises, SyncRaises, Crash, Redeliver, Calm
<1> QED
  BY <1>1, <1>2, TurnsRequest, TurnsDeliver, TurnsAdvance DEF Next

LEMMA LockOKAlways ==
  ASSUME RunsFitTTL
  PROVE  Spec => [](Typed /\ LockOK)
<1>1. Init => LockOK
  BY DEF Init, LockOK, ReconLockOK, SyncLockOK
<1>2. Typed /\ LockOK /\ [Next]_vars => LockOK'
  BY LockOKStep
<1> QED
  BY <1>1, <1>2, TypedAlways, PTL DEF Spec

\* Without mishaps, and with a wallet created once, no two tasks are in the
\* pipeline of one wallet at a time, although lock:reconstruction:<id> does
\* not exclude sync_new_events.
THEOREM TasksTakeTurns ==
  ASSUME Calm
  PROVE  Spec => []PipelineExclusive
<1>1. Typed /\ LockOK /\ TurnsOK /\ [Next]_vars => TurnsOK'
  BY TurnsStep
<1>2. Typed /\ LockOK /\ TurnsOK => PipelineExclusive
  BY BusyExclusive DEF PipelineExclusive, Busy
<1>3. Spec => [](Typed /\ LockOK)
  BY LockOKAlways DEF Calm
<1> QED
  BY <1>1, <1>2, <1>3, TurnsInit, PTL DEF Spec

-----------------------------------------------------------------------------
(* What the ledger holds.                                                  *)

LEMMA BooksInit == Init => BooksOK
  BY DEF Init, BooksOK, StoredUpTo, AtRest, Busy, Pipeline, PositionsCoverCheckpoint, OneLotPerEvent

\* A worker's books stay true under steps that leave it and its wallet alone.
LEMMA FreshStable ==
  ASSUME Typed, NEW q \in Worker, FreshOK(q),
         pc'[q] = pc[q], wal'[q] = wal[q], from'[q] = from[q], found'[q] = found[q],
         high'[q] = high[q], snap'[q] = snap[q],
         block'[wal[q]] = block[wal[q]],
         \A b \in Block : /\ <<wal[q], b>> \in stored' <=> <<wal[q], b>> \in stored
                          /\ <<wal[q], b>> \in pos' <=> <<wal[q], b>> \in pos
  PROVE  FreshOK(q)'
<1>1. \A n : StoredUpTo(wal[q], n)' <=> StoredUpTo(wal[q], n)
  BY DEF StoredUpTo
<1>2. AllLots(q)' = AllLots(q)
  BY DEF AllLots
<1>3. found[q] \subseteq Block
  BY DEF Typed, TypeOK
<1> QED
  BY <1>1, <1>2, <1>3 DEF FreshOK, StoredUpTo

\* Steps of a worker that write no ledger and no checkpoint.
LEMMA BooksFrame ==
  ASSUME Typed, BooksOK, NEW p \in Worker, UNCHANGED <<block, ledger>>,
         \A w \in Wallet : status[w] = "synced" => status'[w] = "synced",
         \A q \in Worker : q # p =>
           /\ pc'[q] = pc[q] /\ wal'[q] = wal[q] /\ from'[q] = from[q] /\ found'[q] = found[q]
           /\ high'[q] = high[q] /\ snap'[q] = snap[q] /\ todo'[q] = todo[q] /\ cps'[q] = cps[q],
         pc[p] \in {"read", "write", "finish"} =>
           pc'[p] \in {"read", "write", "finish"} /\ wal'[p] = wal[p],
         \A w \in Wallet \ Solana : w \in todo'[p] => cps'[p][w] = block[w],
         Busy(p)' /\ wal'[p] \notin Solana => FreshOK(p)'
  PROVE  BooksOK'
<1> USE DEF ledger
<1>1. ASSUME NEW w \in Wallet \ Solana
      PROVE  /\ (AtRest(w) => StoredUpTo(w, block[w]))'
             /\ (status[w] # "synced" => block[w] = 0)'
             /\ (\A q \in Worker : w \in todo[q] => cps[q][w] = block[w])'
  <2>1. AtRest(w)' => AtRest(w)
    BY DEF AtRest
  <2> QED
    BY <2>1 DEF BooksOK, StoredUpTo
<1>2. ASSUME NEW q \in Worker, Busy(q)', wal'[q] \notin Solana PROVE FreshOK(q)'
  <2>1. CASE q = p
    BY <1>2, <2>1
  <2>2. CASE q # p
    BY <1>2, <2>2, FreshStable DEF BooksOK, Busy
  <2> QED
    BY <2>1, <2>2
<1>3. (PositionsCoverCheckpoint /\ OneLotPerEvent)'
  BY DEF BooksOK, PositionsCoverCheckpoint, OneLotPerEvent
<1> QED
  BY <1>1, <1>2, <1>3 DEF BooksOK

\* Steps of nobody.
LEMMA BooksIdle ==
  ASSUME Typed, BooksOK, UNCHANGED <<block, ledger, pc, wal, from, found, high, snap, todo, cps>>,
         \A w \in Wallet : status[w] = "synced" => status'[w] = "synced"
  PROVE  BooksOK'
<1>1. \A q \in Worker : Busy(q)' /\ wal'[q] \notin Solana => FreshOK(q)'
  BY FreshStable DEF BooksOK, Busy, ledger
<1>2. \A w \in Wallet \ Solana :
        /\ (AtRest(w) => StoredUpTo(w, block[w]))'
        /\ (status[w] # "synced" => block[w] = 0)'
        /\ (\A q \in Worker : w \in todo[q] => cps[q][w] = block[w])'
  BY DEF BooksOK, AtRest, StoredUpTo, ledger
<1> QED
  BY <1>1, <1>2 DEF BooksOK, PositionsCoverCheckpoint, OneLotPerEvent, ledger

\* A wallet that waits for a reconstruction, or for the sync run's visit, has
\* nobody between the INSERT of its lots and its stamp.
LEMMA RestBefore ==
  ASSUME Typed, LockOK, TurnsOK, NEW p \in Worker, NEW w \in Wallet,
         (pc[p] = "load" /\ wal[p] = w) \/ (pc[p] = "next" /\ w \in todo[p])
  PROVE  AtRest(w)
<1> USE DEF Typed, TypeOK, ControlOK, ReconPC, SyncPC, Pipeline
<1> SUFFICES ASSUME NEW q \in Worker, pc[q] \in {"read", "write", "finish"}, wal[q] = w
             PROVE  FALSE
  BY DEF AtRest
<1>1. /\ job[q] \in {"recon", "sync"}
      /\ job[q] = "recon" => status[w] # "synced"
      /\ job[q] = "sync" => status[w] = "synced"
  BY DEF TurnsOK, ReconOK, SyncOK, Busy
<1>2. CASE pc[p] = "load" /\ wal[p] = w
  <2>1. job[p] = "recon"
    BY <1>2
  <2>2. status[w] # "synced"
    BY <1>2, <2>1 DEF TurnsOK, ReconOK
  <2> QED
    BY <1>1, <1>2, <2>1, <2>2 DEF LockOK, ReconLockOK
<1>3. CASE pc[p] = "next" /\ w \in todo[p]
  <2>1. job[p] = "sync" /\ status[w] = "synced"
    BY <1>3 DEF TurnsOK, SyncOK
  <2> QED
    BY <1>1, <1>3, <2>1 DEF LockOK, SyncLockOK
<1> QED
  BY <1>2, <1>3

\* A worker takes up a wallet.
LEMMA BooksTakeUp ==
  ASSUME Typed, LockOK, TurnsOK, BooksOK, NEW p \in Worker,
         LoadWallet(p) \/ SetSyncing(p) \/ LoadSynced(p) \/ SyncWallet(p)
  PROVE  BooksOK'
<1>0. ASSUME NEW v \in Wallet, pc[p] = "load", wal[p] = v PROVE AtRest(v)
  BY <1>0, RestBefore
<1> USE DEF Typed, TypeOK, row, ledger, locals, batch
<1>1. CASE LoadWallet(p)
  <2> DEFINE w == wal[p]
  <2>1. pc[p] = "load" /\ job[p] = "recon" /\ w \in Wallet /\ status[w] # "synced"
    BY <1>1 DEF LoadWallet, ControlOK, SyncPC, Pipeline, TurnsOK, ReconOK
  <2>2. pc'[p] = "mark" => from'[p] = block[w]
    BY <1>1 DEF LoadWallet
  <2>3. w \notin Solana => block[w] = 0 /\ StoredUpTo(w, block[w])
    BY <1>0, <2>1 DEF BooksOK
  <2>4. pc'[p] \in {"mark", "release"}
    BY <1>1 DEF LoadWallet
  <2>5. UNCHANGED <<block, status, stored, wal>>
    BY <1>1 DEF LoadWallet
  <2>6. Busy(p)' /\ wal'[p] \notin Solana => FreshOK(p)'
    BY <2>2, <2>3, <2>4, <2>5 DEF Busy, Pipeline, FreshOK, StoredUpTo, Block
  <2>7. \A v \in Wallet \ Solana : v \in todo'[p] => cps'[p][v] = block[v]
    BY <1>1 DEF LoadWallet, BooksOK
  <2> QED
    BY <1>1, <2>1, <2>6, <2>7, BooksFrame DEF LoadWallet
<1>2. CASE SetSyncing(p)
  <2>1. /\ pc[p] = "mark" /\ pc'[p] = "scan" /\ job[p] = "recon" /\ wal[p] \in Wallet
        /\ status[wal[p]] # "synced" /\ UNCHANGED <<block, stored, pos, wal, from>>
    BY <1>2 DEF SetSyncing, ControlOK, SyncPC, Pipeline, TurnsOK, ReconOK, Busy
  <2>2. Busy(p)' /\ wal'[p] \notin Solana => FreshOK(p)'
    BY <2>1 DEF BooksOK, Busy, FreshOK, StoredUpTo
  <2>3. \A v \in Wallet \ Solana : v \in todo'[p] => cps'[p][v] = block[v]
    BY <1>2 DEF SetSyncing, BooksOK
  <2>4. \A v \in Wallet : status[v] = "synced" => status'[v] = "synced"
    BY <1>2, <2>1 DEF SetSyncing
  <2> QED
    BY <1>2, <2>1, <2>2, <2>3, <2>4, BooksFrame DEF SetSyncing
<1>3. CASE LoadSynced(p)
  <2>1. pc[p] = "list" /\ pc'[p] = "next" /\ cps'[p] = block
    BY <1>3 DEF LoadSynced
  <2> QED
    BY <1>3, <2>1, BooksFrame DEF LoadSynced, Busy, Pipeline
<1>4. CASE SyncWallet(p)
  <2>1. PICK w \in todo[p] :
          /\ todo' = [todo EXCEPT ![p] = @ \ {w}]
          /\ wal' = [wal EXCEPT ![p] = w]
          /\ from' = [from EXCEPT ![p] = SyncFrom(p, w)]
    BY <1>4 DEF SyncWallet
  <2>2. /\ pc[p] = "next" /\ pc'[p] = "scan" /\ w \in Wallet /\ wal'[p] = w
        /\ todo'[p] \subseteq todo[p]
        /\ UNCHANGED <<block, status, stored, again, pos, cps>>
    BY <1>4, <2>1 DEF SyncWallet
  <2>3. w \notin Solana => from'[p] = block[w] + 1 /\ StoredUpTo(w, block[w])
    BY <2>1, <2>2, RestBefore DEF SyncFrom, BooksOK
  <2>4. Busy(p)' /\ wal'[p] \notin Solana => FreshOK(p)'
    BY <2>2, <2>3 DEF FreshOK, StoredUpTo, Block
  <2>5. \A v \in Wallet \ Solana : v \in todo'[p] => cps'[p][v] = block[v]
    BY <2>2 DEF BooksOK
  <2>6. \A q \in Worker : q # p =>
          /\ pc'[q] = pc[q] /\ wal'[q] = wal[q] /\ from'[q] = from[q] /\ found'[q] = found[q]
          /\ high'[q] = high[q] /\ snap'[q] = snap[q] /\ todo'[q] = todo[q] /\ cps'[q] = cps[q]
    BY <1>4, <2>1 DEF SyncWallet
  <2> QED
    BY <2>2, <2>4, <2>5, <2>6, BooksFrame
<1> QED
  BY <1>1, <1>2, <1>3, <1>4

\* A scan, and the read of the lots.
LEMMA BooksScan ==
  ASSUME Typed, BooksOK, NEW p \in Worker, ScanEvm(p) \/ ScanSolana(p) \/ ReadLots(p)
  PROVE  BooksOK'
<1> USE DEF Typed, TypeOK, row, ledger, locals, batch
<1>0. /\ \A v \in Wallet \ Solana : v \in todo'[p] => cps'[p][v] = block[v]
      /\ UNCHANGED <<block, status, stored, again, pos, wal, from>>
      /\ pc[p] \in {"scan", "read"}
      /\ pc[p] = "read" => pc'[p] = "write"
      /\ \A q \in Worker : q # p =>
           /\ pc'[q] = pc[q] /\ wal'[q] = wal[q] /\ from'[q] = from[q] /\ found'[q] = found[q]
           /\ high'[q] = high[q] /\ snap'[q] = snap[q] /\ todo'[q] = todo[q] /\ cps'[q] = cps[q]
  BY DEF ScanEvm, ScanSolana, ReadLots, BooksOK
<1>1. CASE ScanEvm(p)
  <2> DEFINE w == wal[p]
             B == Visible(w, from[p])
  <2>1. pc[p] = "scan" /\ w \notin Solana /\ w \in Wallet /\ found'[p] = B /\ pc'[p] = AfterScan(B)
    BY <1>1 DEF ScanEvm, ControlOK, Pipeline
  <2>2. Highest(high'[p], from[p], B)
    BY <1>1 DEF ScanEvm
  <2>3. FreshOK(p)
    BY <2>1 DEF BooksOK, Busy, Pipeline
  <2>4. /\ from[p] \in Nat /\ high'[p] \in Nat /\ block[w] \in Nat
        /\ B \subseteq Block /\ \A b \in B : from[p] <= b /\ b <= high'[p]
        /\ from[p] <= high'[p]
    <3>1. B \subseteq Block /\ \A b \in B : from[p] <= b
      BY DEF Visible
    <3>2. B \subseteq Nat
      BY <3>1 DEF Block
    <3> QED
      BY <2>1, <2>2, <3>1, <3>2 DEF Highest
  <2>5. block[w] <= high'[p]
    BY <2>1, <2>3, <2>4 DEF FreshOK
  <2>6. \A b \in Block : <<w, b>> \in stored => b <= block[w] /\ b <= high'[p] /\ <<w, b>> \in pos
    BY <2>1, <2>3, <2>4, <2>5 DEF FreshOK, StoredUpTo, BooksOK, PositionsCoverCheckpoint, Block
  <2>7. \A b \in B : block[w] < b /\ b <= high'[p]
    BY <2>1, <2>3, <2>4 DEF FreshOK
  <2>8. FreshOK(p)'
    BY <1>0, <2>1, <2>5, <2>6, <2>7 DEF FreshOK, StoredUpTo, AfterScan
  <2> QED
    BY <1>0, <2>8, BooksFrame
<1>2. CASE ScanSolana(p)
  <2>1. wal'[p] \in Solana
    BY <1>0, <1>2 DEF ScanSolana
  <2> QED
    BY <1>0, <2>1, BooksFrame
<1>3. CASE ReadLots(p)
  <2>1. pc[p] = "read" /\ pc'[p] = "write" /\ snap'[p] = AllLots(p) /\ high' = high
    BY <1>3 DEF ReadLots
  <2>2. wal'[p] \notin Solana => FreshOK(p)'
    BY <1>0, <2>1 DEF BooksOK, Busy, Pipeline, FreshOK, StoredUpTo, AllLots
  <2> QED
    BY <1>0, <2>2, BooksFrame
<1> QED
  BY <1>1, <1>2, <1>3

\* The INSERT of the lots.
LEMMA BooksCreateLots ==
  ASSUME Typed, LockOK, TurnsOK, BooksOK, NEW p \in Worker, CreateLots(p)
  PROVE  BooksOK'
<1> USE DEF Typed, TypeOK, row, locals, batch
<1> DEFINE w == wal[p]
           E == {w} \X found[p]
<1>1. /\ pc[p] = "store" /\ pc' = [pc EXCEPT ![p] = "read"] /\ w \in Wallet /\ Busy(p)
      /\ again' = again \cup (stored \cap E) /\ stored' = stored \cup E
      /\ UNCHANGED <<block, status, pos, wal, from, found, high, snap, todo, cps>>
      /\ found[p] \subseteq Block
  BY DEF CreateLots, ControlOK, Busy, Pipeline
<1>2. w \notin Solana =>
        /\ StoredUpTo(w, block[w]) /\ block[w] <= high[p] /\ block[w] \in Nat /\ high[p] \in Nat
        /\ \A b \in found[p] : block[w] < b /\ b <= high[p]
  BY <1>1 DEF BooksOK, FreshOK
<1>3. \A v \in Wallet, b \in Block : v # w => (<<v, b>> \in stored' <=> <<v, b>> \in stored)
  BY <1>1
<1>4. w \notin Solana =>
        \A b \in Block : <<w, b>> \in stored' => b <= block[w] \/ b \in found[p]
  BY <1>1, <1>2 DEF StoredUpTo
<1>5. ASSUME NEW q \in Worker, Busy(q)', wal'[q] \notin Solana PROVE FreshOK(q)'
  <2>1. CASE q = p
    <3>1. StoredUpTo(w, high[p])'
      BY <1>1, <1>2, <1>4, <1>5, <2>1 DEF StoredUpTo, Block
    <3> QED
      BY <1>1, <1>2, <1>5, <2>1, <3>1 DEF FreshOK
  <2>2. CASE q # p
    <3>1. Busy(q) /\ FreshOK(q) /\ wal[q] \in Wallet
      BY <1>1, <1>5, <2>2 DEF BooksOK, Busy, ControlOK, ReconPC, SyncPC, Pipeline
    <3>2. wal[q] # w
      BY <1>1, <2>2, <3>1, BusyExclusive
    <3> QED
      BY <1>1, <1>3, <2>2, <3>1, <3>2, FreshStable
  <2> QED
    BY <2>1, <2>2
<1>6. ASSUME NEW v \in Wallet \ Solana
      PROVE  /\ (AtRest(v) => StoredUpTo(v, block[v]))'
             /\ (status[v] # "synced" => block[v] = 0)'
             /\ (\A q \in Worker : v \in todo[q] => cps[q][v] = block[v])'
  <2>1. AtRest(v)' => v # w /\ AtRest(v)
    BY <1>1 DEF AtRest
  <2>2. AtRest(v)' => StoredUpTo(v, block[v])'
    BY <1>1, <1>3, <2>1 DEF BooksOK, StoredUpTo
  <2> QED
    BY <1>1, <2>2 DEF BooksOK
<1>7. PositionsCoverCheckpoint'
  <2> SUFFICES ASSUME NEW v \in Wallet \ Solana, NEW b \in Block,
                      <<v, b>> \in stored', b <= block[v]
               PROVE  <<v, b>> \in pos
    BY <1>1 DEF PositionsCoverCheckpoint
  <2>1. <<v, b>> \in stored
    BY <1>1, <1>2, <1>3 DEF Block
  <2> QED
    BY <2>1 DEF BooksOK, PositionsCoverCheckpoint
<1>8. OneLotPerEvent'
  <2>1. w \notin Solana => stored \cap E = {}
    BY <1>1, <1>2 DEF StoredUpTo, Block
  <2> QED
    BY <1>1, <2>1 DEF BooksOK, OneLotPerEvent
<1> QED
  BY <1>5, <1>6, <1>7, <1>8 DEF BooksOK

\* The upsert of the positions.
LEMMA BooksWritePositions ==
  ASSUME Typed, LockOK, TurnsOK, BooksOK, NEW p \in Worker, WritePositions(p)
  PROVE  BooksOK'
<1> USE DEF Typed, TypeOK, row, locals, batch
<1> DEFINE w == wal[p]
<1>1. /\ pc[p] = "write" /\ pc' = [pc EXCEPT ![p] = "finish"] /\ w \in Wallet /\ Busy(p)
      /\ pos' = (pos \ ({w} \X Block)) \cup ({w} \X snap[p])
      /\ UNCHANGED <<block, status, stored, again, wal, from, found, high, snap, todo, cps>>
  BY DEF WritePositions, ControlOK, Busy, Pipeline
<1>2. w \notin Solana =>
        /\ block[w] <= high[p] /\ StoredUpTo(w, high[p])
        /\ \A b \in Block : <<w, b>> \in stored => <<w, b>> \in pos'
  BY <1>1 DEF BooksOK, FreshOK, AllLots
<1>3. \A v \in Wallet, b \in Block : v # w => (<<v, b>> \in pos' <=> <<v, b>> \in pos)
  BY <1>1
<1>4. ASSUME NEW q \in Worker, Busy(q)', wal'[q] \notin Solana PROVE FreshOK(q)'
  <2>1. CASE q = p
    BY <1>1, <1>2, <1>4, <2>1 DEF FreshOK, StoredUpTo
  <2>2. CASE q # p
    <3>1. Busy(q) /\ FreshOK(q) /\ wal[q] \in Wallet
      BY <1>1, <1>4, <2>2 DEF BooksOK, Busy, ControlOK, ReconPC, SyncPC, Pipeline
    <3>2. wal[q] # w
      BY <1>1, <2>2, <3>1, BusyExclusive
    <3> QED
      BY <1>1, <1>3, <2>2, <3>1, <3>2, FreshStable
  <2> QED
    BY <2>1, <2>2
<1>5. ASSUME NEW v \in Wallet \ Solana
      PROVE  /\ (AtRest(v) => StoredUpTo(v, block[v]))'
             /\ (status[v] # "synced" => block[v] = 0)'
             /\ (\A q \in Worker : v \in todo[q] => cps[q][v] = block[v])'
  BY <1>1 DEF BooksOK, StoredUpTo, AtRest
<1>6. (PositionsCoverCheckpoint /\ OneLotPerEvent)'
  BY <1>1, <1>2, <1>3 DEF BooksOK, PositionsCoverCheckpoint, OneLotPerEvent
<1> QED
  BY <1>4, <1>5, <1>6 DEF BooksOK

\* The stamp moves the checkpoint on, to a block all lots are below.
LEMMA Stamped ==
  ASSUME Typed, BooksOK, NEW p \in Worker, FinishRecon(p) \/ FinishSync(p)
  PROVE  /\ wal[p] \in Wallet /\ pc[p] = "finish"
         /\ \A v \in Wallet : v # wal[p] \/ v \in Solana => block'[v] = block[v]
         /\ wal[p] \notin Solana =>
              /\ block'[wal[p]] = high[p] /\ block[wal[p]] <= high[p]
              /\ StoredUpTo(wal[p], high[p])
              /\ \A b \in Block : <<wal[p], b>> \in stored => <<wal[p], b>> \in pos
<1> USE DEF Typed, TypeOK
<1>1. pc[p] = "finish" /\ wal[p] \in Wallet /\ StampBlock(p)
  BY DEF FinishRecon, FinishSync, ControlOK, Pipeline
<1>2. wal[p] \notin Solana => FreshOK(p)
  BY <1>1 DEF BooksOK, Busy, Pipeline
<1> QED
  BY <1>1, <1>2 DEF StampBlock, FreshOK

\* What holds after the stamp: whoever else has the wallet on its list or at work
\* would have had to wait for this worker.
LEMMA BooksFinish ==
  ASSUME Typed, LockOK, TurnsOK, BooksOK, NEW p \in Worker, FinishRecon(p) \/ FinishSync(p)
  PROVE  BooksOK'
<1> USE DEF Typed, TypeOK, ledger, batch
<1> DEFINE w == wal[p]
<1>1. /\ pc'[p] \in {"report", "next"} /\ Busy(p) /\ pc[p] = "finish" /\ w \in Wallet
      /\ job[p] \in {"recon", "sync"} /\ job' = job
      /\ UNCHANGED <<stored, again, pos, todo, cps>>
      /\ \A q \in Worker : q # p =>
           /\ pc'[q] = pc[q] /\ wal'[q] = wal[q] /\ from'[q] = from[q] /\ found'[q] = found[q]
           /\ high'[q] = high[q] /\ snap'[q] = snap[q]
  <2>1. pc[p] = "finish" /\ w \in Wallet
    BY Stamped
  <2>2. CASE FinishRecon(p)
    BY <2>1, <2>2 DEF FinishRecon, Forget, Busy, Pipeline
  <2>3. CASE FinishSync(p)
    BY <2>1, <2>3 DEF FinishSync, Forget, Busy, Pipeline
  <2> QED
    BY <2>2, <2>3
<1>2. /\ \A v \in Wallet : status[v] = "synced" => status'[v] = "synced"
      /\ status'[w] = "synced"
  <2>1. CASE FinishRecon(p)
    BY <1>1, <2>1 DEF FinishRecon
  <2>2. CASE FinishSync(p)
    BY <1>1, <2>2 DEF FinishSync, TurnsOK, SyncOK, Pipeline
  <2> QED
    BY <2>1, <2>2
<1>3. ASSUME NEW q \in Worker, w \in todo[q] PROVE FALSE
  <2>1. job[q] = "sync" /\ status[w] = "synced"
    BY <1>3 DEF TurnsOK, SyncOK
  <2>2. job[p] = "sync"
    BY <1>1, <2>1 DEF TurnsOK, ReconOK
  <2>3. q = p
    BY <2>1, <2>2 DEF LockOK, SyncLockOK
  <2> QED
    BY <1>1, <1>3, <2>2, <2>3 DEF TurnsOK, SyncOK, Pipeline
<1>4. ASSUME NEW q \in Worker, Busy(q)', wal'[q] \notin Solana PROVE FreshOK(q)'
  <2>1. q # p /\ Busy(q) /\ FreshOK(q) /\ wal[q] \in Wallet
    BY <1>1, <1>4 DEF BooksOK, Busy, ControlOK, ReconPC, SyncPC, Pipeline
  <2>2. wal[q] # w
    BY <1>1, <2>1, BusyExclusive
  <2> QED
    BY <1>1, <2>1, <2>2, Stamped, FreshStable
<1>5. ASSUME NEW v \in Wallet \ Solana
      PROVE  /\ (AtRest(v) => StoredUpTo(v, block[v]))'
             /\ (status[v] # "synced" => block[v] = 0)'
             /\ (\A q \in Worker : v \in todo[q] => cps[q][v] = block[v])'
  <2>1. CASE v = w
    BY <1>1, <1>2, <1>3, <2>1, Stamped DEF StoredUpTo
  <2>2. CASE v # w
    <3>1. AtRest(v)' => AtRest(v)
      BY <1>1, <2>2 DEF AtRest
    <3> QED
      BY <1>1, <1>2, <2>2, <3>1, Stamped DEF BooksOK, StoredUpTo
  <2> QED
    BY <2>1, <2>2
<1>6. (PositionsCoverCheckpoint /\ OneLotPerEvent)'
  BY <1>1, Stamped DEF BooksOK, PositionsCoverCheckpoint, OneLotPerEvent
<1> QED
  BY <1>4, <1>5, <1>6 DEF BooksOK

\* No step leaves a lot twice, or a stamp without its positions.
LEMMA BooksStep ==
  ASSUME Calm, Typed, LockOK, TurnsOK, BooksOK, [Next]_vars
  PROVE  BooksOK'
<1> USE DEF Typed, TypeOK, row, locals, batch
<1>1. CASE Mine \/ Expire \/ UNCHANGED vars
  BY <1>1, BooksIdle DEF Mine, Expire, ExpireSync, ExpireRecon, vars
<1>2. ASSUME NEW w \in Wallet, Request(w) PROVE BooksOK'
  <2>1. CASE Commit(w)
    <3>1. status[w] = "absent" /\ status' = [status EXCEPT ![w] = "pending"]
      BY <2>1 DEF Commit, TurnsOK, UncreatedOK
    <3> QED
      BY <2>1, <3>1, BooksIdle DEF Commit
  <2>2. CASE Submit(w) \/ Rollback(w) \/ SetActive(w, FALSE) \/ SetActive(w, TRUE)
    BY <2>2, BooksIdle DEF Submit, Rollback, SetActive
  <2> QED
    BY <1>2, <2>1, <2>2 DEF Request
<1>3. ASSUME NEW p \in Worker, Deliver(p) \/ StartSync(p) PROVE BooksOK'
  <2>1. CASE \E m \in broker : SkipLocked(p, m)
    BY <2>1, BooksIdle DEF SkipLocked
  <2>2. CASE (\E m \in broker : StartRecon(p, m)) \/ StartSync(p)
    <3>1. pc[p] = "idle" /\ pc'[p] \in {"load", "list"}
      BY <2>2 DEF StartRecon, StartSync
    <3>2. \A v \in Wallet \ Solana : v \in todo'[p] => cps'[p][v] = block[v]
      BY <2>2 DEF StartRecon, StartSync, BooksOK
    <3>3. /\ UNCHANGED <<block, status, ledger>>
          /\ \A q \in Worker : q # p =>
               /\ pc'[q] = pc[q] /\ wal'[q] = wal[q] /\ from'[q] = from[q] /\ found'[q] = found[q]
               /\ high'[q] = high[q] /\ snap'[q] = snap[q] /\ todo'[q] = todo[q] /\ cps'[q] = cps[q]
      BY <2>2 DEF StartRecon, StartSync
    <3>4. ~Busy(p)'
      BY <3>1 DEF Busy, Pipeline
    <3> QED
      BY <3>1, <3>2, <3>3, <3>4, BooksFrame
  <2> QED
    BY <1>3, <2>1, <2>2 DEF Deliver
<1>4. ASSUME NEW p \in Worker, Advance(p) PROVE BooksOK'
  <2>1. CASE SyncDone(p) \/ ReportComplete(p)
    <3>1. pc[p] \in {"next", "report"} /\ pc'[p] = "release" /\ ~Busy(p)'
      BY <2>1 DEF SyncDone, ReportComplete, Busy, Pipeline
    <3>2. /\ UNCHANGED <<block, status, ledger>>
          /\ \A v \in Wallet \ Solana : v \in todo'[p] => cps'[p][v] = block[v]
          /\ \A q \in Worker : q # p =>
               /\ pc'[q] = pc[q] /\ wal'[q] = wal[q] /\ from'[q] = from[q] /\ found'[q] = found[q]
               /\ high'[q] = high[q] /\ snap'[q] = snap[q] /\ todo'[q] = todo[q] /\ cps'[q] = cps[q]
      BY <2>1 DEF SyncDone, ReportComplete, BooksOK
    <3> QED
      BY <3>1, <3>2, BooksFrame
  <2>2. CASE MarkError(p) \/ RetryTask(p)
    BY <2>2 DEF MarkError, RetryTask, TurnsOK, ReconOK, ControlOK, SyncPC, Pipeline
  <2>3. CASE ReleaseRecon(p) \/ ReleaseSync(p)
    <3>1. pc[p] = "release" /\ pc'[p] = "idle" /\ ~Busy(p)' /\ todo'[p] = {}
      BY <2>3 DEF ReleaseRecon, ReleaseSync, Reset, Busy, Pipeline
    <3>2. /\ UNCHANGED <<block, status, ledger>>
          /\ \A q \in Worker : q # p =>
               /\ pc'[q] = pc[q] /\ wal'[q] = wal[q] /\ from'[q] = from[q] /\ found'[q] = found[q]
               /\ high'[q] = high[q] /\ snap'[q] = snap[q] /\ todo'[q] = todo[q] /\ cps'[q] = cps[q]
      BY <2>3 DEF ReleaseRecon, ReleaseSync, Reset, Forget
    <3> QED
      BY <3>1, <3>2, BooksFrame
  <2> QED
    BY <1>4, <2>1, <2>2, <2>3, BooksTakeUp, BooksScan, BooksCreateLots, BooksWritePositions,
       BooksFinish DEF Advance
<1>5. ASSUME NEW p \in Worker, Mishap(p) PROVE FALSE
  BY <1>5 DEF Mishap, ReconRaises, HandlerRaises, SyncWalletRaises, SyncRaises, Crash, Redeliver, Calm
<1> QED
  BY <1>1, <1>2, <1>3, <1>4, <1>5 DEF Next

\* The two invariants hold together: what a worker has found is new because no
\* other is at work on its wallet.
LEMMA CalmAlways ==
  ASSUME Calm
  PROVE  Spec => [](Typed /\ LockOK /\ TurnsOK /\ BooksOK)
<1>1. Typed /\ LockOK /\ TurnsOK /\ BooksOK /\ [Next]_vars => TurnsOK' /\ BooksOK'
  BY TurnsStep, BooksStep
<1>2. Spec => [](Typed /\ LockOK)
  BY LockOKAlways DEF Calm
<1> QED
  BY <1>1, <1>2, TurnsInit, BooksInit, PTL DEF Spec

\* Without mishaps, and with a wallet created once, create_lots never gives an
\* event of an EVM wallet two lots, though every lot has an id of its own and no
\* key of transaction_lots would refuse the second: each scan starts past the
\* last stamp.
THEOREM EventsGetOneLot ==
  ASSUME Calm
  PROVE  Spec => []OneLotPerEvent
<1>1. BooksOK => OneLotPerEvent
  BY DEF BooksOK
<1> QED
  BY <1>1, CalmAlways, PTL

\* Under the same assumptions the positions account for every lot up to the checkpoint, though
\* compute_positions reads and writes in two transactions.
THEOREM PositionsAccount ==
  ASSUME Calm
  PROVE  Spec => []PositionsCoverCheckpoint
<1>1. BooksOK => PositionsCoverCheckpoint
  BY DEF BooksOK
<1> QED
  BY <1>1, CalmAlways, PTL

\* Under the same assumptions no checkpoint moves back, though a stamp writes what its scan reached
\* and does not look at the row.
THEOREM CheckpointsAdvance ==
  ASSUME Calm
  PROVE  Spec => CheckpointNeverRegresses
<1>1. Typed /\ BooksOK /\ TurnsOK /\ LockOK /\ [Next]_vars =>
        [\A w \in Wallet : block'[w] >= block[w]]_block
  <2> SUFFICES ASSUME Typed, BooksOK, [Next]_vars, block' # block, NEW w \in Wallet
               PROVE  block'[w] >= block[w]
    OBVIOUS
  <2>1. PICK p \in Worker : FinishRecon(p) \/ FinishSync(p)
    BY DEF Next, Mine, Request, Submit, Commit, Rollback, SetActive, Deliver, SkipLocked, StartRecon,
           StartSync, Advance, LoadWallet, SetSyncing, LoadSynced, SyncWallet, SyncDone, ScanEvm,
           ScanSolana, CreateLots, ReadLots, WritePositions, ReportComplete, MarkError, RetryTask,
           ReleaseRecon, ReleaseSync, Mishap, ReconRaises, HandlerRaises, SyncWalletRaises, SyncRaises, Crash,
           Redeliver, Expire, ExpireSync, ExpireRecon, row, vars
  <2>2. block[w] \in Nat
    BY DEF Typed, TypeOK
  <2> QED
    BY <2>1, <2>2, Stamped
<1> QED
  BY <1>1, CalmAlways, PTL DEF Spec, CheckpointNeverRegresses
=============================================================================
