---------------------------- MODULE AtomicScan ----------------------------
(***************************************************************************)
(* What a scan of an EVM chain promises its caller, with no pages and no   *)
(* cursor in sight: at one instant, all the wallet's events from the first *)
(* block asked for up to some block of the chain.                          *)
(***************************************************************************)
EXTENDS Integers, FiniteSetsExt

CONSTANT NoAnswer

VARIABLES
  height,  \* number of the last block
  moves,   \* the wallet's events: [block, index, action]
  first,   \* the block the caller wants events from
  answer   \* [events, highest], or NoAnswer

vars == <<height, moves, first, answer>>

Init == height = 0 /\ moves = {} /\ first = 0 /\ answer = NoAnswer

\* A block is appended: no event of an older block appears or disappears.
Extend ==
  /\ height' = height + 1
  /\ moves \subseteq moves'
  /\ \A e \in moves' \ moves : e.block = height + 1
  /\ UNCHANGED <<first, answer>>

Ask ==
  /\ answer = NoAnswer
  /\ first' \in Nat
  /\ UNCHANGED <<height, moves, answer>>

Window(end) == {e \in moves : first <= e.block /\ e.block <= end}

\* A set, for the list is sorted by (timestamp, log_index), which no two
\* events share.
Answer(end) ==
  /\ answer = NoAnswer
  /\ answer' = [events |-> Window(end), highest |-> Max({first} \cup {e.block : e \in Window(end)})]
  /\ UNCHANGED <<height, moves, first>>

Next == Extend \/ Ask \/ \E end \in 0 .. height : Answer(end)

Spec == Init /\ [][Next]_vars
=============================================================================
