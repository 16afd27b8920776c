-------------------------- MODULE PositionTables --------------------------
(***************************************************************************)
(* compute_positions as the database sees it: one transaction reads the    *)
(* lots of a wallet's address and the ids of the wallet's positions, the   *)
(* FIFO accounting runs in memory, and a second transaction upserts the    *)
(* positions, the remaining amounts of the lots and the links from lots to *)
(* positions.  Several workers do so at a time, for different wallets of a *)
(* user and, where nothing prevents it, for the same one.                  *)
(*                                                                         *)
(* A wallet stands for its chain, which no other wallet of the address     *)
(* has, and there is one market per chain.  Lots are numbered in the order *)
(* of the chain: of their blocks and, within one, of their log indices.    *)
(***************************************************************************)
EXTENDS Integers, Sequences, SequencesExt, FifoLots

CONSTANTS
  Wallet,         \* the wallets of one user, one per chain
  Worker,         \* tasks that may call compute_positions
  NoWallet,       \* the wallet of an idle one
  NoId,           \* the id of a position that is not there; a NULL link
  Amount,         \* amounts of a lot
  MaxLots,        \* bound: rows of transaction_lots
  MaxRuns,        \* bound: calls of compute_positions
  Address,        \* addresses the wallets may have; one may be on many chains
  Overlap,        \* two calls for one wallet may overlap
  SameBlock       \* a block may hold two lots of a wallet

ASSUME NamesAssumption == NoWallet \notin Wallet /\ Amount \subseteq Nat
ASSUME BoundsAssumption == MaxLots \in Nat /\ MaxRuns \in Nat
ASSUME SwitchAssumption == {Overlap, SameBlock} \subseteq BOOLEAN
\* A call's ids are pairs, which the absent id is not.
ASSUME NoIdAssumption == NoId \notin (1 .. MaxRuns) \X Wallet

VARIABLES
  address,    \* the wallets' addresses, fixed
  table,      \* transaction_lots: [owner, block, action, amount], never changed
  remaining,  \* their remaining_amount
  link,       \* their position_id
  position,   \* positions, by wallet and chain: [id, amount, rows]
  runs,       \* calls of compute_positions so far
  busy,       \* the wallet a worker computes
  snap,       \* the lots it read, by chain, in the order of the query
  acc         \* the ids of its accumulators, by chain

lots   == <<table, remaining, link>>
worker == <<busy, snap, acc>>
vars   == <<address, lots, position, runs, worker>>

Lot == [owner : Wallet, block : Nat, action : {"in", "out"}, amount : Amount]
Id  == (1 .. MaxRuns) \X Wallet

\* rows, the number of the chain's lots accounted for, is for the properties.
NoPosition == [id |-> NoId, amount |-> 0, rows |-> 0]

LotsOf(c) == {i \in DOMAIN table : table[i].owner = c}

Init ==
  /\ address \in [Wallet -> Address]
  /\ table = <<>> /\ remaining = <<>> /\ link = <<>>
  /\ position = [k \in Wallet \X Wallet |-> NoPosition]
  /\ runs = 0
  /\ busy = [p \in Worker |-> NoWallet]
  /\ snap = [p \in Worker |-> [c \in Wallet |-> <<>>]]
  /\ acc = [p \in Worker |-> [c \in Wallet |-> NoId]]

\* create_lots: lots of a new block of the chain, in one transaction.
InsertLots(c, batch) ==
  /\ Len(table) + Len(batch) <= MaxLots
  /\ table' = table \o batch
  /\ remaining' = remaining \o [i \in DOMAIN batch |-> batch[i].amount]
  /\ link' = link \o [i \in DOMAIN batch |-> NoId]
  /\ UNCHANGED <<address, position, runs, worker>>

Batch(c) ==
  LET one == [owner : {c}, block : {Len(table) + 1}, action : {"in", "out"}, amount : Amount]
  IN {<<l>> : l \in one} \cup (IF SameBlock THEN {<<l, k>> : l \in one, k \in one} ELSE {})

\* The query selects by address, whatever the wallet's chain.
Visible(w, c) == IF address[c] = address[w] THEN LotsOf(c) ELSE {}

\* Mutant: the order of the rows is left to the database.
InAnyOrder(S) == SetToSeqs(S)

\* ORDER BY timestamp, block: lots of one block come in any order.
InQueryOrder(S) ==
  {s \in SetToSeqs(S) : \A i, j \in DOMAIN s : i < j => table[s[i]].block <= table[s[j]].block}

\* Mutant: no look-up of the existing ids.
FreshId(w, c) == <<runs + 1, c>>

\* The id of an existing position is used again.
AccumulatorId(w, c) ==
  IF position[<<w, c>>] = NoPosition THEN <<runs + 1, c>> ELSE position[<<w, c>>].id

\* A call follows an insertion of lots of its wallet, so some are there.  The
\* SELECT of the lots and that of the wallet's own positions are one step: only
\* another call for the same wallet could write between them.
ReadTables(p, w) ==
  /\ busy[p] = NoWallet /\ runs < MaxRuns
  /\ Overlap \/ \A q \in Worker : busy[q] # w
  /\ LotsOf(w) # {}
  /\ busy' = [busy EXCEPT ![p] = w]
  /\ \E s \in [Wallet -> UNION {InQueryOrder(Visible(w, c)) : c \in Wallet}] :
       /\ \A c \in Wallet : s[c] \in InQueryOrder(Visible(w, c))
       /\ snap' = [snap EXCEPT ![p] = s]
  /\ acc' = [acc EXCEPT ![p] = [c \in Wallet |-> AccumulatorId(w, c)]]
  /\ runs' = runs + 1
  /\ UNCHANGED <<address, lots, position>>

\* What FIFO leaves of the lots of chain c, in the order they were read.
Left(p, c) == Replay([i \in DOMAIN snap[p][c] |-> table[snap[p][c][i]]])

\* Lots of withdrawals are not counted: nothing is left of them in Left.
CurrentAmount(p, c) == SumOf(Left(p, c), DOMAIN Left(p, c))

\* The upsert keeps the id of a row that is there.
Upserted(p, w, c) ==
  [id     |-> IF position[<<w, c>>] = NoPosition THEN acc[p][c] ELSE position[<<w, c>>].id,
   amount |-> CurrentAmount(p, c),
   rows   |-> Len(snap[p][c])]

\* Mutant: fully consumed lots are left alone.
IsUpdatedUnlessEmpty(amount, left) == left # amount /\ left > 0

\* A lot that was not drawn on is not updated.
IsUpdated(amount, left) == left # amount

\* Where worker p has lot i, if it has read it.
Places(p, i) == {n \in DOMAIN snap[p][table[i].owner] : snap[p][table[i].owner][n] = i}

RemainingAfter(p, i) ==
  IF \E n \in Places(p, i) :
       table[i].action = "in" /\ IsUpdated(table[i].amount, Left(p, table[i].owner)[n])
    THEN Left(p, table[i].owner)[CHOOSE n \in Places(p, i) : TRUE]
    ELSE remaining[i]

Rest(p) ==
  /\ busy' = [busy EXCEPT ![p] = NoWallet]
  /\ snap' = [snap EXCEPT ![p] = [c \in Wallet |-> <<>>]]
  /\ acc' = [acc EXCEPT ![p] = [c \in Wallet |-> NoId]]

\* The second transaction: every group with a lot is written.
WriteTables(p, w) ==
  /\ busy[p] = w
  /\ position' = [k \in Wallet \X Wallet |->
                    IF k[1] = w /\ snap[p][k[2]] # <<>> THEN Upserted(p, w, k[2]) ELSE position[k]]
  /\ remaining' = [i \in DOMAIN table |-> RemainingAfter(p, i)]
  /\ link' = [i \in DOMAIN table |-> IF Places(p, i) # {} THEN acc[p][table[i].owner] ELSE link[i]]
  /\ Rest(p)
  /\ UNCHANGED <<address, table, runs>>

\* The second transaction fails and is rolled back.
AbortWrite(p) ==
  /\ busy[p] # NoWallet
  /\ Rest(p)
  /\ UNCHANGED <<address, lots, position, runs>>

Next ==
  \/ \E c \in Wallet : \E batch \in Batch(c) : InsertLots(c, batch)
  \/ \E p \in Worker : AbortWrite(p) \/ \E w \in Wallet : ReadTables(p, w) \/ WriteTables(p, w)

Spec == Init /\ [][Next]_vars
-----------------------------------------------------------------------------
(* Properties.                                                             *)

\* Type invariant.
TypeOK ==
  /\ address \in [Wallet -> Address]
  /\ table \in Seq(Lot) /\ remaining \in Seq(Nat) /\ link \in Seq(Id \cup {NoId})
  /\ Len(remaining) = Len(table) /\ Len(link) = Len(table)
  /\ position \in [Wallet \X Wallet -> [id : Id \cup {NoId}, amount : Nat, rows : 0 .. MaxLots]]
  /\ runs \in 0 .. MaxRuns
  /\ busy \in [Worker -> Wallet \cup {NoWallet}]
  /\ snap \in [Worker -> [Wallet -> Seq(1 .. MaxLots)]]
  /\ acc \in [Worker -> [Wallet -> Id \cup {NoId}]]

\* No lot is an orphan: position_id names a row of positions.
LinksResolve ==
  \A i \in DOMAIN link : link[i] # NoId => \E k \in Wallet \X Wallet : position[k].id = link[i]

\* The wallet's address is on no other chain.
OnOneChain(w) == \A c \in Wallet : address[c] = address[w] => c = w

\* A lot is linked to the position of the wallet it belongs to.
LinkedToOwner ==
  \A i \in DOMAIN link :
    link[i] # NoId /\ OnOneChain(table[i].owner)
      => link[i] = position[<<table[i].owner, table[i].owner>>].id

\* The first n lots of a chain, in the order of the chain.
FirstLots(c, n) ==
  LET inOrder == CHOOSE s \in SetToSeqs(LotsOf(c)) :
                   \A i, j \in DOMAIN s : i < j => s[i] < s[j]
  IN SubSeq(inOrder, 1, n)

\* What FIFO leaves of them.
LeftOfFirst(c, n) ==
  LET s == FirstLots(c, n) IN Replay([i \in DOMAIN s |-> table[s[i]]])

\* A stored position has the amount FIFO gives for the lots it accounts for,
\* taken in the order of the chain.
AmountIsChronological ==
  \A w, c \in Wallet :
    LET left == LeftOfFirst(c, position[<<w, c>>].rows)
    IN position[<<w, c>>].amount = SumOf(left, DOMAIN left)

\* The remaining amounts of the lots a position accounts for add up to it,
\* although only the lots a call drew on are ever updated.
LotsAgreeWithPosition ==
  \A w \in Wallet :
    LET p == position[<<w, w>>]
        s == FirstLots(w, p.rows)
    IN OnOneChain(w) => p.amount = SumOf([i \in DOMAIN s |-> IF table[s[i]].action = "in" THEN remaining[s[i]] ELSE 0],
                        DOMAIN s)
=============================================================================
