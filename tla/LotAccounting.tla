--------------------------- MODULE LotAccounting ---------------------------
(***************************************************************************)
(* The loop of compute_positions over the lots of one supply position: the *)
(* deposits and withdrawals of a (chain, protocol, market) group, taken in *)
(* the order of the query, feed a PositionAccumulator that consumes older  *)
(* deposits first (FIFO) and books the realised gain under FIFO and under  *)
(* weighted average cost (WAC).  The rows are arbitrary; one action takes  *)
(* a row, or is one round of the loop in process_withdrawal_fifo.          *)
(***************************************************************************)
EXTENDS Integers, Sequences, Functions

CONSTANTS
  Amount,   \* amounts of a lot
  Price,    \* prices of a lot
  NoPrice,  \* the price could not be found
  MaxRows,  \* bound: lots of the group
  Scale     \* wac counts in units of 1/Scale

ASSUME AmountAssumption == Amount \subseteq Nat
ASSUME PriceAssumption == Price \subseteq Nat /\ NoPrice \notin Price
ASSUME MaxRowsAssumption == MaxRows \in Nat /\ Scale \in Nat \ {0}
\* Every amount that may be open divides Scale, so that no average is rounded.
ASSUME ScaleAssumption ==
  \A n \in 1 .. MaxRows, a \in Amount : \A k \in 1 .. n * a : Scale % k = 0

VARIABLES
  rows,       \* acc.lots: [action, amount, price]
  remaining,  \* remaining_amount of each
  cursor,     \* the lot the FIFO loop is at, 0 outside the loop
  left,       \* what the loop has yet to withdraw
  fifo, wac   \* realised_pnl_fifo, realised_pnl_wac

vars == <<rows, remaining, cursor, left, fifo, wac>>

Row == [action : {"in", "out"}, amount : Amount, price : Price \cup {NoPrice}]

Init ==
  /\ rows = <<>> /\ remaining = <<>>
  /\ cursor = 0 /\ left = 0
  /\ fifo = 0 /\ wac = 0

Open == {i \in DOMAIN rows : rows[i].action = "in" /\ remaining[i] > 0}

\* Mutant: the rows of withdrawals count as open lots.
OpenPricedAll == {i \in DOMAIN rows : remaining[i] > 0 /\ rows[i].price # NoPrice}

OpenPriced == {i \in Open : rows[i].price # NoPrice}

OpenAmount == SumFunction([i \in OpenPriced |-> remaining[i]])
OpenCost   == SumFunction([i \in OpenPriced |-> remaining[i] * rows[i].price])

\* current_amount and cost_basis_fifo.
CurrentAmount == SumFunction([i \in Open |-> remaining[i]])
CostBasis     == OpenCost

TakeDeposit(r) ==
  /\ cursor = 0 /\ r.action = "in"
  /\ rows' = Append(rows, r)
  /\ remaining' = Append(remaining, r.amount)
  /\ UNCHANGED <<cursor, left, fifo, wac>>

\* process_withdrawal_wac: the gain over the average price of the open lots.
WacGain(r) ==
  IF OpenAmount = 0 \/ r.price = NoPrice
    THEN 0
    ELSE ((r.price * OpenAmount - OpenCost) * r.amount * Scale) \div OpenAmount

\* The withdrawal is itself appended to the lots, then WAC, then FIFO.
TakeWithdrawal(r) ==
  /\ cursor = 0 /\ r.action = "out"
  /\ rows' = Append(rows, r)
  /\ remaining' = Append(remaining, r.amount)
  /\ wac' = wac + WacGain(r)
  /\ cursor' = 1 /\ left' = r.amount
  /\ UNCHANGED fifo

\* Mutant: the newest lot first.
VisitNewest(c) == Len(rows) + 1 - c

\* The sort by timestamp leaves the query's order as it is.
Visit(c) == c

\* Mutant: the whole withdrawal is taken from every lot.
TakenWhole(l, r) == l

Taken(l, r) == IF l <= r THEN l ELSE r

\* Mutant: the gain of what is still to be withdrawn.
GainOfLeft(i, c) ==
  LET w == rows[Len(rows)].price
  IN IF w = NoPrice \/ rows[i].price = NoPrice THEN 0 ELSE (w - rows[i].price) * left

\* The gain of withdrawing c from lot i.
Gain(i, c) ==
  LET w == rows[Len(rows)].price
  IN IF w = NoPrice \/ rows[i].price = NoPrice THEN 0 ELSE (w - rows[i].price) * c

\* Mutant: left is not counted down.
LeftUncounted(c) == left

LeftAfter(c) == left - c

InLoop == cursor > 0 /\ cursor <= Len(rows) /\ left > 0

ConsumeLot ==
  /\ InLoop /\ Visit(cursor) \in Open
  /\ LET i == Visit(cursor)
         c == Taken(left, remaining[i])
     IN /\ remaining' = [remaining EXCEPT ![i] = @ - c]
        /\ fifo' = fifo + Gain(i, c)
        /\ left' = LeftAfter(c)
  /\ cursor' = cursor + 1
  /\ UNCHANGED <<rows, wac>>

\* A row that is not in open_lots.
PassLot ==
  /\ InLoop /\ Visit(cursor) \notin Open
  /\ cursor' = cursor + 1
  /\ UNCHANGED <<rows, remaining, left, fifo, wac>>

\* The loop ends; what no lot could cover is dropped.
EndWithdrawal ==
  /\ cursor > 0 /\ ~InLoop
  /\ cursor' = 0 /\ left' = 0
  /\ UNCHANGED <<rows, remaining, fifo, wac>>

Next ==
  \/ Len(rows) < MaxRows /\ \E r \in Row : TakeDeposit(r) \/ TakeWithdrawal(r)
  \/ ConsumeLot \/ PassLot \/ EndWithdrawal

Spec == Init /\ [][Next]_vars
-----------------------------------------------------------------------------
(* Properties.                                                             *)

\* Type invariant; no lot ever has less than nothing or more than it started
\* with left.
TypeOK ==
  /\ rows \in Seq(Row) /\ Len(rows) <= MaxRows
  /\ remaining \in Seq(Nat) /\ Len(remaining) = Len(rows)
  /\ \A i \in DOMAIN rows : remaining[i] <= rows[i].amount
  /\ cursor \in 0 .. Len(rows) + 1
  /\ left \in Nat
  /\ fifo \in Int /\ wac \in Int

\* A deposit is only drawn on once every older one is used up, also in the
\* middle of a withdrawal.
FifoOldestFirst ==
  \A i, j \in DOMAIN rows :
    i < j /\ rows[i].action = "in" /\ rows[j].action = "in" /\ remaining[j] < rows[j].amount
      => remaining[i] = 0

\* Between two rows the lots hold what the closed form of FIFO says.
F == INSTANCE FifoLots
RemainingIsReplay ==
  cursor = 0 =>
    \A i \in DOMAIN rows : rows[i].action = "in" => remaining[i] = F!Replay(rows)[i]

\* The net flow of the rows from k on.
Flow(k) ==
  SumFunction([i \in k .. Len(rows) |-> IF rows[i].action = "in" THEN rows[i].amount
                                                                  ELSE - rows[i].amount])

\* current_amount is the net flow since the position was last empty: an
\* overdraft (a deposit the scan never saw) is forgotten, not carried over.
CurrentIsFlow ==
  cursor = 0 =>
    /\ \A k \in 1 .. Len(rows) + 1 : CurrentAmount >= Flow(k)
    /\ \E k \in 1 .. Len(rows) + 1 : CurrentAmount = Flow(k)

\* No withdrawal took more than was there.
NeverOverdrawn ==
  \A n \in DOMAIN rows :
    SumFunction([i \in 1 .. n |-> IF rows[i].action = "in" THEN rows[i].amount
                                                           ELSE - rows[i].amount]) >= 0

AllPriced == \A i \in DOMAIN rows : rows[i].price # NoPrice

\* Money received for withdrawals, money paid for deposits.
Worth(a) == SumFunction([i \in {j \in DOMAIN rows : rows[j].action = a} |->
                           rows[i].amount * rows[i].price])

\* What came in, less what went out, is the realised gain less the cost of what
\* is still there: FIFO neither makes nor loses money.
FifoConservesPnl ==
  cursor = 0 /\ AllPriced /\ NeverOverdrawn =>
    fifo = Worth("out") - (Worth("in") - CostBasis)

\* When every deposit was bought at one price the two methods book one gain.
MethodsAgreeOnOnePrice ==
  /\ cursor = 0 /\ AllPriced /\ NeverOverdrawn
  /\ \A i, j \in DOMAIN rows :
       rows[i].action = "in" /\ rows[j].action = "in" => rows[i].price = rows[j].price
  => wac = fifo * Scale
=============================================================================
