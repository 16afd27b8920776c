----------------------------- MODULE SolanaScan -----------------------------
(***************************************************************************)
(* scan_solana_events: all signatures of a wallet, walked backwards from   *)
(* the newest with the `before` cursor while new ones are finalized, then  *)
(* one transaction fetched per signature, and what moved in it.            *)
(***************************************************************************)
EXTENDS Integers, Sequences, SequencesExt

CONSTANTS
  Action,    \* what a transaction may have moved: "deposit", "withdraw"
  MaxTxs,    \* bound: transactions of the wallet
  MaxPages,  \* max_pages of get_all_signatures_for_address
  Limit      \* signatures of a full page

ASSUME SolBoundsAssumption == MaxTxs \in Nat /\ MaxPages \in Nat \ {0} /\ Limit \in Nat \ {0}

VARIABLES
  history,  \* the wallet's finalized transactions, oldest first
  solPc,    \* where the scan is
  pages,    \* pages read
  sigs,     \* all_sigs: indices into history, newest first
  fetched,  \* the signature to fetch
  events,   \* [tx, action], tx an index into history
  began,    \* how many transactions there were at the first page
  missed    \* a transaction could not be fetched

solScan == <<solPc, pages, sigs, fetched, events, began, missed>>
solVars == <<history, solScan>>

\* "failed": the transaction is listed, with its error.  "none": no balance of
\* the wallet changed, or the time is not known.
Tx == [second : 1 .. MaxTxs, result : Action \cup {"failed", "none"}]

Moves(i) == history[i].result \in Action

SolInit ==
  /\ history = <<>>
  /\ solPc = "idle" /\ pages = 0 /\ sigs = <<>> /\ fetched = 1
  /\ events = <<>> /\ began = 0 /\ missed = FALSE

\* Several transactions may be of one second.
Finalize(tx) ==
  /\ Len(history) < MaxTxs
  /\ IF history = <<>> THEN tx.second = 1 ELSE tx.second - Last(history).second \in {0, 1}
  /\ history' = Append(history, tx)
  /\ UNCHANGED solScan

StartSolana ==
  /\ solPc = "idle"
  /\ solPc' = "signatures"
  /\ UNCHANGED <<history, pages, sigs, fetched, events, began, missed>>

\* Mutant: the cursor is never set.
BeforeNothing == Len(history) + 1

\* The signature the page ends before: the last one read, if any.
Before == IF sigs = <<>> THEN Len(history) + 1 ELSE Last(sigs)

\* The newest signatures older than Before, newest first.
Page ==
  LET n == IF Before - 1 < Limit THEN Before - 1 ELSE Limit
  IN [i \in 1 .. n |-> Before - i]

\* Mutant: a full page is taken for the last one.
HasMoreThanFull(page) == Len(page) > Limit

HasMore(page) == Len(page) = Limit

\* Mutant: one page more than max_pages.
MoreToReadLate(page) == HasMore(page) /\ pages < MaxPages

MoreToRead(page) == HasMore(page) /\ pages + 1 < MaxPages

GetSignatures ==
  /\ solPc = "signatures"
  /\ sigs' = sigs \o Page
  /\ pages' = pages + 1
  /\ began' = IF pages = 0 THEN Len(history) ELSE began
  /\ solPc' = IF MoreToRead(Page) THEN "signatures" ELSE "transactions"
  /\ UNCHANGED <<history, fetched, events, missed>>

\* An HTTP or RPC error of getSignaturesForAddress is not caught.
SolRaises ==
  /\ solPc = "signatures"
  /\ solPc' = "raised"
  /\ UNCHANGED <<history, pages, sigs, fetched, events, began, missed>>

\* get_transaction may raise or know nothing: the signature is passed over.
GetTransaction ==
  /\ solPc = "transactions" /\ fetched <= Len(sigs)
  /\ fetched' = fetched + 1
  /\ \/ /\ Moves(sigs[fetched])
        /\ events' = Append(events, [tx |-> sigs[fetched], action |-> history[sigs[fetched]].result])
        /\ UNCHANGED missed
     \/ /\ history[sigs[fetched]].result # "failed"
        /\ missed' = TRUE
        /\ UNCHANGED events
     \/ /\ ~Moves(sigs[fetched])
        /\ UNCHANGED <<events, missed>>
  /\ UNCHANGED <<history, solPc, pages, sigs, began>>

\* Mutant: the order they were read in.
AsRead(s) == s

\* A stable sort: what is of one second stays newest first.
ByTime(s) ==
  LET Earlier(i, j) ==
        LET a == history[s[i].tx].second  b == history[s[j].tx].second
        IN a < b \/ (a = b /\ i < j)
      order == CHOOSE o \in SetToSeqs(DOMAIN s) :
                 \A i, j \in DOMAIN o : i < j => Earlier(o[i], o[j])
  IN [i \in DOMAIN s |-> s[order[i]]]

Finish ==
  /\ solPc = "transactions" /\ fetched > Len(sigs)
  /\ events' = ByTime(events)
  /\ solPc' = "done"
  /\ UNCHANGED <<history, pages, sigs, fetched, began, missed>>

SolStep == GetSignatures \/ SolRaises \/ GetTransaction \/ Finish

SolNext == StartSolana \/ SolStep \/ \E tx \in Tx : Finalize(tx)

SolSpec == SolInit /\ [][SolNext]_solVars
-----------------------------------------------------------------------------
(* Properties.                                                             *)

\* Type invariant.
SolTypeOK ==
  /\ history \in Seq(Tx) /\ Len(history) <= MaxTxs
  /\ solPc \in {"idle", "signatures", "transactions", "done", "raised"}
  /\ pages \in 0 .. MaxPages
  /\ sigs \in Seq(DOMAIN history)
  /\ fetched \in 1 .. Len(sigs) + 1
  /\ events \in Seq([tx : DOMAIN history, action : Action])
  /\ began \in 0 .. Len(history)
  /\ missed \in BOOLEAN

\* Whatever is finalized between two pages, the signatures read are those of
\* the history as it was at the first page, newest first, each once, with none
\* left out.
SignaturesUnbroken == sigs = [i \in DOMAIN sigs |-> began + 1 - i]

\* A scan that was neither capped at max_pages full pages nor failed to fetch
\* a transaction returns every movement there was when it began.
MovementsAreFound ==
  solPc = "done" /\ ~missed /\ Len(sigs) < MaxPages * Limit =>
    \A i \in 1 .. began :
      Moves(i) => \E e \in DOMAIN events : events[e].tx = i

\* The events of a wallet with no two transactions in one second come in the
\* order of the chain, although they were read against it.
EventsInChainOrder ==
  solPc = "done" /\ (\A i, j \in DOMAIN history : history[i].second = history[j].second => i = j) =>
    \A i, j \in DOMAIN events : i < j => events[i].tx < events[j].tx
=============================================================================
