------------------------------ MODULE EvmScan ------------------------------
(***************************************************************************)
(* scan_evm_events: the events of a wallet from a given block, read from   *)
(* HyperSync page by page while the chain grows and different instances of *)
(* the service, some behind others, answer.                                *)
(*                                                                         *)
(* A block stands for its timestamp, which grows with it.  Blocks are not  *)
(* taken back.                                                             *)
(***************************************************************************)
EXTENDS Integers, FiniteSetsExt

CONSTANTS
  Log,        \* what a log may be: [topic, sender, receiver]
  MaxHeight,  \* bound: number of the last block
  MaxLogs,    \* bound: logs of a block
  NoAnswer    \* the answer of a scan that has none yet

ASSUME LogAssumption == Log \subseteq [topic : STRING, sender : BOOLEAN, receiver : BOOLEAN]
ASSUME EvmBoundsAssumption == MaxHeight \in Nat /\ MaxLogs \in Nat

VARIABLES
  height,   \* number of the last block
  onChain,  \* the logs the query selects: [block, index, log]
  evmPc,    \* where the scan is
  first,    \* from_block
  to,       \* to_block
  query,    \* query.from_block
  logs,     \* all_logs
  again,    \* those of them read more than once
  answer,   \* [events, highest], or NoAnswer
  short     \* the last page was cut by an instance behind to_block

chain   == <<height, onChain>>
evmScan == <<evmPc, first, to, query, logs, again, answer, short>>
evmVars == <<chain, evmScan>>

EvmInit ==
  /\ height = 0 /\ onChain = {}
  /\ evmPc = "idle" /\ first = 0 /\ to = 0 /\ query = 0
  /\ logs = {} /\ again = {} /\ answer = NoAnswer /\ short = FALSE

Mine ==
  /\ height < MaxHeight
  /\ height' = height + 1
  /\ \E n \in 0 .. MaxLogs : \E ls \in [1 .. n -> Log] :
       onChain' = onChain \cup {[block |-> height + 1, index |-> i, log |-> ls[i]] : i \in 1 .. n}
  /\ UNCHANGED evmScan

\* A caller asks for the events after its checkpoint, which may be ahead of
\* the chain: a scan that finds nothing reports its first block.
StartEvm(f) ==
  /\ evmPc = "idle"
  /\ first' = f
  /\ evmPc' = "height"
  /\ UNCHANGED <<chain, to, query, logs, again, answer, short>>

\* get_chain_height, from any instance.
GetHeight ==
  /\ evmPc = "height"
  /\ to' \in 0 .. height
  /\ query' = first
  /\ evmPc' = "page"
  /\ UNCHANGED <<chain, first, logs, again, answer, short>>

\* HyperSync answers with the blocks from query up to next, exclusive, as far
\* as it has indexed them and the query goes.
NextBlocks(indexed) ==
  LET end == IF indexed < to - 1 THEN indexed ELSE to - 1
  IN IF query > end THEN {query} ELSE query + 1 .. end + 1

PageLogs(next) == {l \in onChain : query <= l.block /\ l.block < next}

\* Mutant: next_block taken for the last block of the page.
CursorSkips(next) == next + 1

\* Mutant: the last block of the page is asked for again.
CursorOverlaps(next) == next - 1

Cursor(next) == next

\* Mutant: to_block taken to be inclusive.
IsLastEarly(next, archive) == next >= to - 1 \/ next >= archive

\* Mutant: an instance that has no more to give is asked until it has.
IsLastInRange(next, archive) == next >= to

\* An archive height that is not told counts as 0.
IsLast(next, archive) == next >= to \/ next >= archive

GetPage(indexed, told, next) ==
  LET archive == IF told THEN indexed ELSE 0
  IN /\ evmPc = "page"
     /\ next \in NextBlocks(indexed)
     /\ logs' = logs \cup PageLogs(next)
     /\ again' = again \cup (logs \cap PageLogs(next))
     /\ IF IsLast(next, archive)
          THEN /\ evmPc' = "parse"
               /\ short' = (archive < to)
               /\ UNCHANGED query
          ELSE /\ query' = Cursor(next)
               /\ UNCHANGED <<evmPc, short>>
     /\ UNCHANGED <<chain, first, to, answer>>

\* _parse_evm_log: a transfer of the wallet to itself counts as outgoing only;
\* a log that names the wallet in another role is no event.
ActionOf(l) ==
  CASE l.topic # "transfer" -> l.topic
    [] l.topic = "transfer" /\ l.sender -> "transfer_out"
    [] l.topic = "transfer" /\ ~l.sender /\ l.receiver -> "transfer_in"
    [] OTHER -> "none"

EventsOf(L) ==
  {[block |-> l.block, index |-> l.index, action |-> ActionOf(l.log)] :
     l \in {k \in L : ActionOf(k.log) # "none"}}

\* The last block with an event, or the first block asked for.
Highest(E) == Max({first} \cup {e.block : e \in E})

ParseLogs ==
  /\ evmPc = "parse"
  /\ answer' = [events |-> EventsOf(logs), highest |-> Highest(EventsOf(logs))]
  /\ evmPc' = "done"
  /\ UNCHANGED <<chain, first, to, query, logs, again, short>>

\* A request fails, and the scan with it.
EvmRaises ==
  /\ evmPc \in {"height", "page"}
  /\ evmPc' = "raised"
  /\ UNCHANGED <<chain, first, to, query, logs, again, answer, short>>

EvmStep ==
  \/ GetHeight
  \/ \E indexed \in 0 .. height, told \in BOOLEAN, next \in 0 .. MaxHeight + 1 :
       GetPage(indexed, told, next)
  \/ ParseLogs
  \/ EvmRaises

EvmNext == Mine \/ EvmStep \/ \E f \in 0 .. MaxHeight + 1 : StartEvm(f)

EvmSpec == EvmInit /\ [][EvmNext]_evmVars
-----------------------------------------------------------------------------
(* Properties.                                                             *)

ChainLog == [block : 1 .. MaxHeight, index : 1 .. MaxLogs, log : Log]
Blocks   == 0 .. MaxHeight + 1

\* Type invariant.
EvmTypeOK ==
  /\ height \in 0 .. MaxHeight
  /\ onChain \subseteq ChainLog
  /\ evmPc \in {"idle", "height", "page", "parse", "done", "raised"}
  /\ first \in Blocks /\ to \in Blocks /\ query \in Blocks
  /\ logs \subseteq onChain /\ again \subseteq logs
  /\ short \in BOOLEAN

\* No page repeats a log of an earlier one: nothing after the scan would
\* notice, and the event would get two lots.
LogsReadOnce == again = {}

\* A scan that no lagging instance cut short has every event there was below
\* to_block when it began.
RangeIsCovered ==
  evmPc = "done" /\ ~short =>
    EventsOf({l \in onChain : first <= l.block /\ l.block < to}) \subseteq answer.events

\* The loop ends although nothing bounds its rounds: whichever instance answers
\* the next request, the page either is the last one or moves the query up, and
\* never past to_block, which does not grow with the chain.
PagesAdvance ==
  evmPc = "page" =>
    \A indexed \in 0 .. height, told \in BOOLEAN : \A next \in NextBlocks(indexed) :
      \/ IsLast(next, IF told THEN indexed ELSE 0)
      \/ query < Cursor(next) /\ Cursor(next) <= to

\* Whatever the pages, instances and new blocks, the scan answers as if it had
\* read the chain at one instant, without a gap below the highest block it
\* reports.  This is the scan that WalletIngestion takes in one step.
Atomic == INSTANCE AtomicScan WITH moves <- EventsOf(onChain)

ImplementsAtomicScan == Atomic!Spec
=============================================================================
