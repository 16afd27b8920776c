------------------------------ MODULE BeatTask ------------------------------
(***************************************************************************)
(* The frame that refresh_prices and refresh_vault_metrics share: a run    *)
(* sets a Redis key with NX and a TTL, does its work, and deletes the key  *)
(* in a finally clause, whoever set it.  Beat sends the tasks for ever, so *)
(* a retry and a redelivered message (acks_late) are starts like any other, *)
(* and a run that finds the key taken changes nothing.                     *)
(***************************************************************************)
EXTENDS Naturals, FiniteSets

CONSTANTS
  Worker,      \* slots of the Celery workers
  RunsFitTTL   \* TRUE: the key does not expire under a run that holds it

ASSUME RunsFitTTLIsBoolean == RunsFitTTL \in BOOLEAN

VARIABLES
  key,         \* the task's Redis key is set
  pc,          \* where each worker is in its run
  quiet        \* TRUE: from now on no step raises and no worker dies

beat == <<key, pc, quiet>>

BeatInit == key = FALSE /\ pc = [w \in Worker |-> "idle"] /\ quiet = FALSE

Goto(w, place) == pc' = [pc EXCEPT ![w] = place]

\* Faulty: SET without NX.
KeyFreeAlways == TRUE

KeyFree == ~key
Start(w) ==
  /\ pc[w] = "idle" /\ KeyFree
  /\ key' = TRUE
  /\ Goto(w, "load")
  /\ UNCHANGED quiet

\* A step raises: the handler asks for a retry, the finally clause is next.
Raise(w) ==
  /\ ~quiet /\ pc[w] \notin {"idle", "release"}
  /\ Goto(w, "release")
  /\ UNCHANGED <<key, quiet>>

Release(w) ==
  /\ pc[w] = "release"
  /\ key' = FALSE
  /\ Goto(w, "idle")
  /\ UNCHANGED quiet

\* The worker dies; no finally clause runs.
Crash(w) ==
  /\ ~quiet /\ pc[w] # "idle"
  /\ Goto(w, "idle")
  /\ UNCHANGED <<key, quiet>>

\* Faulty: SET without EX.
ExpiringNever == FALSE

Expiring == key /\ (RunsFitTTL => \A w \in Worker : pc[w] = "idle")
Expire == Expiring /\ key' = FALSE /\ UNCHANGED <<pc, quiet>>

Settle == ~quiet /\ quiet' = TRUE /\ UNCHANGED <<key, pc>>
-----------------------------------------------------------------------------
Running == {w \in Worker : pc[w] # "idle"}

\* The unconditional delete removes no other run's key.
OneRun == RunsFitTTL => /\ \A v, w \in Running : v = w
                        /\ Running # {} => key
=============================================================================
