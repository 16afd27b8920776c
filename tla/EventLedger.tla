---------------------------- MODULE EventLedger ----------------------------
(***************************************************************************)
(* What event ingestion promises, with no task, lock or message in sight:  *)
(* a ledger of recorded events that only grows, holds nothing the chain    *)
(* does not, and per wallet a checkpoint that is only ever moved to a      *)
(* settled block up to which the ledger is complete.  A checkpoint may be  *)
(* moved back, and an event may be recorded any number of times.           *)
(***************************************************************************)
EXTENDS Integers

CONSTANTS Wallet, Block

VARIABLES height, events, stored, block

vars == <<height, events, stored, block>>

Init == height = 1 /\ events = {} /\ stored = {} /\ block = [w \in Wallet |-> 0]

\* A block with events of some wallets becomes visible.
Extend(S) ==
  /\ height \in Block
  /\ events' = events \cup (S \X {height})
  /\ height' = height + 1
  /\ UNCHANGED <<stored, block>>

\* Some of the wallet's events are recorded.
Record(w, B) ==
  /\ {w} \X B \subseteq events
  /\ stored' = stored \cup ({w} \X B)
  /\ UNCHANGED <<height, events, block>>

\* Nothing is missing up to block n, and nothing can still appear there.
Settled(w, n) ==
  /\ n < height
  /\ \A b \in Block : <<w, b>> \in events /\ b <= n => <<w, b>> \in stored

Stamp(w, n) ==
  /\ Settled(w, n)
  /\ block' = [block EXCEPT ![w] = n]
  /\ UNCHANGED <<height, events, stored>>

Next ==
  \/ \E S \in SUBSET Wallet : Extend(S)
  \/ \E w \in Wallet, B \in SUBSET Block : Record(w, B)
  \/ \E w \in Wallet, n \in Block \cup {0} : Stamp(w, n)

Spec == Init /\ [][Next]_vars
=============================================================================
