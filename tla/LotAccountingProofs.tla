------------------------ MODULE LotAccountingProofs ------------------------
(***************************************************************************)
(* The accounting of one position group, for every set of amounts and      *)
(* prices and any number of lots: the FIFO order, what is held at a time,  *)
(* the gains under both methods, and the closed form of the loop.          *)
(*                                                                         *)
(* FifoInv is the order.  FlowInv relates what is held to the net flow of  *)
(* the rows, MoneyInv and AgreeInv the gains to it; in the loop each of    *)
(* them counts what is still to be withdrawn (left) as if it were gone.    *)
(* ReplayInv says which lots the loop has come to.                         *)
(***************************************************************************)
EXTENDS LotAccounting, DataLemmas

USE AmountAssumption, PriceAssumption

LotsOK ==
  /\ rows \in Seq(Row)
  /\ remaining \in Seq(Nat) /\ Len(remaining) = Len(rows)
  /\ \A i \in DOMAIN rows : remaining[i] <= rows[i].amount
  /\ cursor \in Nat /\ left \in Nat /\ fifo \in Int

\* While something is left to withdraw, every deposit passed is used up.
PassedUsedUp ==
  cursor > 0 /\ left > 0 =>
    \A i \in DOMAIN rows : i < cursor /\ rows[i].action = "in" => remaining[i] = 0

FifoInv == LotsOK /\ PassedUsedUp /\ FifoOldestFirst

\* A new row has all of its amount left: it disturbs no older one.
LEMMA FifoTake ==
  ASSUME FifoInv, NEW r \in Row, TakeDeposit(r) \/ TakeWithdrawal(r)
  PROVE  FifoInv'
  <1>1. rows \in Seq(Row) /\ remaining \in Seq(Nat) /\ r.amount \in Nat
    BY DEF FifoInv, LotsOK, Row
  <1>2. rows' = Append(rows, r) /\ remaining' = Append(remaining, r.amount)
    BY DEF TakeDeposit, TakeWithdrawal
  <1>3. /\ rows' \in Seq(Row) /\ remaining' \in Seq(Nat)
        /\ Len(rows') = Len(rows) + 1 /\ Len(remaining') = Len(remaining) + 1
        /\ \A i \in 1 .. Len(rows) : rows'[i] = rows[i] /\ remaining'[i] = remaining[i]
        /\ rows'[Len(rows) + 1] = r /\ remaining'[Len(rows) + 1] = r.amount
    BY <1>1, <1>2, AppendProperties DEF FifoInv, LotsOK
  <1>4. DOMAIN rows = 1 .. Len(rows) /\ DOMAIN rows' = 1 .. Len(rows) + 1 /\ Len(rows) \in Nat
    BY <1>1, <1>3
  <1>5. LotsOK'
    <2>1. ASSUME NEW i \in DOMAIN rows'  PROVE remaining'[i] <= rows'[i].amount
      <3>1. CASE i \in DOMAIN rows
        BY <1>3, <1>4, <3>1 DEF FifoInv, LotsOK
      <3>2. CASE i = Len(rows) + 1
        BY <1>1, <1>3, <3>2
      <3> QED
        BY <1>4, <3>1, <3>2
    <2>2. cursor' \in Nat /\ left' \in Nat /\ fifo' \in Int
      BY <1>1 DEF FifoInv, LotsOK, TakeDeposit, TakeWithdrawal
    <2>3. Len(remaining') = Len(rows')
      BY <1>3 DEF FifoInv, LotsOK
    <2> QED
      BY <1>3, <2>1, <2>2, <2>3 DEF LotsOK
  <1>6. PassedUsedUp'
    BY <1>1, <1>3, <1>4 DEF FifoInv, LotsOK, PassedUsedUp, TakeDeposit, TakeWithdrawal
  <1>7. FifoOldestFirst'
    <2> SUFFICES ASSUME NEW i \in DOMAIN rows', NEW j \in DOMAIN rows', i < j,
                        rows'[i].action = "in", rows'[j].action = "in",
                        remaining'[j] < rows'[j].amount
                 PROVE  remaining'[i] = 0
      BY DEF FifoOldestFirst
    <2>1. j # Len(rows) + 1
      BY <1>1, <1>3
    <2>2. i \in DOMAIN rows /\ j \in DOMAIN rows
      BY <1>4, <2>1
    <2> QED
      BY <1>3, <1>4, <2>2 DEF FifoInv, FifoOldestFirst
  <1> QED
    BY <1>5, <1>6, <1>7 DEF FifoInv

\* A round of the loop draws on a deposit only when the older ones are empty,
\* and leaves something to withdraw only when it empties that one too.
LEMMA FifoConsume ==
  ASSUME FifoInv, ConsumeLot
  PROVE  FifoInv'
  <1> DEFINE c == Taken(left, remaining[cursor])
  <1>1. /\ rows \in Seq(Row) /\ remaining \in Seq(Nat) /\ left \in Nat /\ left > 0
        /\ cursor \in DOMAIN rows /\ rows[cursor].action = "in" /\ remaining[cursor] > 0
        /\ DOMAIN remaining = DOMAIN rows /\ DOMAIN rows = 1 .. Len(rows)
    BY DEF FifoInv, LotsOK, ConsumeLot, InLoop, Visit, Open
  <1>1a. \A i \in DOMAIN rows :
          rows[i].amount \in Nat /\ (rows[i].price # NoPrice => rows[i].price \in Nat)
    <2> SUFFICES ASSUME NEW i \in DOMAIN rows
                 PROVE  rows[i].amount \in Nat /\ (rows[i].price # NoPrice => rows[i].price \in Nat)
      OBVIOUS
    <2>1. rows[i] \in Row
      BY <1>1
    <2> QED
      BY <2>1 DEF Row
  <1>2. /\ remaining' = [remaining EXCEPT ![cursor] = @ - c]
        /\ left' = left - c /\ cursor' = cursor + 1 /\ rows' = rows
    BY DEF ConsumeLot, Visit, LeftAfter
  <1>3. /\ c \in Nat /\ c <= left /\ c <= remaining[cursor]
        /\ c < left => c = remaining[cursor]
    BY <1>1 DEF Taken
  <1> HIDE DEF c
  <1>4. /\ remaining' \in Seq(Nat) /\ Len(remaining') = Len(remaining)
        /\ remaining'[cursor] = remaining[cursor] - c
        /\ \A i \in DOMAIN rows \ {cursor} : remaining'[i] = remaining[i]
    BY <1>1, <1>2, <1>3
  <1>5. fifo' \in Int
    <2>1. Gain(cursor, c) \in Int
      <3>1. Len(rows) \in DOMAIN rows
        BY <1>1
      <3> QED
        BY <1>1, <1>3, <1>1a, <3>1 DEF Gain
    <2> QED
      BY <2>1 DEF ConsumeLot, Visit, FifoInv, LotsOK, c
  <1>6. LotsOK'
    <2>1. \A i \in DOMAIN rows : remaining'[i] <= rows[i].amount
      <3> SUFFICES ASSUME NEW i \in DOMAIN rows  PROVE remaining'[i] <= rows[i].amount
        OBVIOUS
      <3>1. remaining[i] <= rows[i].amount /\ remaining[i] \in Nat /\ rows[i].amount \in Nat
        BY <1>1, <1>1a DEF FifoInv, LotsOK
      <3>2. CASE i = cursor
        BY <1>1, <1>3, <1>4, <3>1, <3>2
      <3>3. CASE i # cursor
        BY <1>4, <3>1, <3>3
      <3> QED
        BY <3>2, <3>3
    <2>2. cursor' \in Nat /\ left' \in Nat
      BY <1>1, <1>2, <1>3
    <2> QED
      BY <1>1, <1>2, <1>4, <1>5, <2>1, <2>2 DEF FifoInv, LotsOK
  <1>7. PassedUsedUp'
    BY <1>1, <1>2, <1>3, <1>4 DEF FifoInv, LotsOK, PassedUsedUp, ConsumeLot, InLoop
  <1>8. FifoOldestFirst'
    BY <1>1, <1>2, <1>3, <1>4
       DEF FifoInv, LotsOK, PassedUsedUp, FifoOldestFirst, ConsumeLot, InLoop, Row
  <1> QED
    BY <1>6, <1>7, <1>8 DEF FifoInv

\* Every step keeps the older deposits drawn on first.
LEMMA FifoStep == FifoInv /\ [Next]_vars => FifoInv'
  <1> SUFFICES ASSUME FifoInv, [Next]_vars  PROVE FifoInv'
    OBVIOUS
  <1>1. CASE \E r \in Row : TakeDeposit(r) \/ TakeWithdrawal(r)
    BY <1>1, FifoTake
  <1>2. CASE ConsumeLot
    BY <1>2, FifoConsume
  <1>3. CASE PassLot
    BY <1>3 DEF PassLot, InLoop, Visit, Open, FifoInv, LotsOK, PassedUsedUp, FifoOldestFirst, Row
  <1>4. CASE EndWithdrawal
    BY <1>4 DEF EndWithdrawal, FifoInv, LotsOK, PassedUsedUp, FifoOldestFirst
  <1>5. CASE UNCHANGED vars
    BY <1>5 DEF vars, FifoInv, LotsOK, PassedUsedUp, FifoOldestFirst
  <1> QED
    BY <1>1, <1>2, <1>3, <1>4, <1>5 DEF Next

LEMMA FifoInvHolds == Spec => []FifoInv
  <1>1. Init => FifoInv
    BY DEF Init, FifoInv, LotsOK, PassedUsedUp, FifoOldestFirst
  <1> QED
    BY <1>1, FifoStep, PTL DEF Spec

\* Whatever the lots and their prices, and also in the middle of a withdrawal,
\* a deposit is drawn on only once every older one is used up.
THEOREM FifoOrder == Spec => []FifoOldestFirst
  <1>1. FifoInv => FifoOldestFirst
    BY DEF FifoInv
  <1> QED
    BY <1>1, FifoInvHolds, PTL

-----------------------------------------------------------------------------
(* What is held, over all rows.                                            *)

HeldOf(rs, rem)     == [i \in DOMAIN rs |-> IF rs[i].action = "in" THEN rem[i] ELSE 0]
HeldCostOf(rs, rem) == [i \in DOMAIN rs |-> IF rs[i].action = "in" THEN rem[i] * rs[i].price ELSE 0]

Held     == SumOf(HeldOf(rows, remaining), 1 .. Len(rows))
HeldCost == SumOf(HeldCostOf(rows, remaining), 1 .. Len(rows))

LEMMA RowsType ==
  ASSUME LotsOK
  PROVE  /\ Len(rows) \in Nat /\ DOMAIN rows = 1 .. Len(rows) /\ DOMAIN remaining = 1 .. Len(rows)
         /\ IsFiniteSet(1 .. Len(rows))
         /\ \A i \in 1 .. Len(rows) :
              /\ rows[i] \in Row /\ rows[i].action \in {"in", "out"} /\ rows[i].amount \in Nat
              /\ rows[i].price # NoPrice => rows[i].price \in Price /\ rows[i].price \in Nat
              /\ remaining[i] \in Nat
  <1>1. Len(rows) \in Nat /\ DOMAIN rows = 1 .. Len(rows) /\ DOMAIN remaining = 1 .. Len(rows)
    BY DEF LotsOK
  <1>2. \A i \in 1 .. Len(rows) : rows[i] \in Row /\ remaining[i] \in Nat
    BY DEF LotsOK
  <1>3. \A r \in Row : /\ r.action \in {"in", "out"} /\ r.amount \in Nat
                       /\ r.price # NoPrice => r.price \in Price /\ r.price \in Nat
    BY DEF Row
  <1> QED
    BY <1>1, <1>2, <1>3, FS_Interval

\* The sums over the open lots are sums over all rows.
LEMMA OpenSums ==
  ASSUME LotsOK
  PROVE  /\ CurrentAmount = Held /\ Held \in Nat
         /\ OpenAmount \in Nat /\ OpenCost \in Int
         /\ AllPriced => OpenAmount = Held /\ OpenCost = HeldCost /\ HeldCost \in Int
  <1> DEFINE D == 1 .. Len(rows)
             h == HeldOf(rows, remaining)
             k == HeldCostOf(rows, remaining)
  <1>1. /\ DOMAIN rows = D /\ IsFiniteSet(D)
        /\ \A i \in D : /\ rows[i].action \in {"in", "out"} /\ remaining[i] \in Nat
                        /\ rows[i].price # NoPrice => rows[i].price \in Nat
    BY RowsType
  <1>2. Open \in SUBSET D /\ OpenPriced \in SUBSET D /\ OpenPriced \subseteq Open
    BY <1>1 DEF Open, OpenPriced
  <1>3. \A i \in D : h[i] = (IF rows[i].action = "in" THEN remaining[i] ELSE 0) /\ h[i] \in Nat
    BY <1>1 DEF HeldOf
  <1>4. /\ \A i \in Open : h[i] = remaining[i]
        /\ \A i \in D \ Open : h[i] = 0
    BY <1>1, <1>2, <1>3 DEF Open
  <1>5. CurrentAmount = Held
    <2> DEFINE f == [i \in Open |-> remaining[i]]
    <2>1. CurrentAmount = SumOf(f, Open)
      BY SumFunctionIsSumOf DEF CurrentAmount
    <2>2. \A i \in Open : f[i] = h[i] /\ h[i] \in Int
      BY <1>2, <1>3, <1>4
    <2> HIDE DEF f, D, h, k
    <2>3. SumOf(f, Open) = SumOf(h, D)
      BY <1>1, <1>2, <1>4, <2>2, SumExtend
    <2> QED
      BY <2>1, <2>3 DEF Held, D, h
  <1>6. Held \in Nat
    <2>1. \A i \in D : h[i] \in Int /\ h[i] >= 0
      BY <1>3
    <2> QED
      BY <1>1, <2>1, SumType DEF Held, h
  <1>7. IsFiniteSet(OpenPriced)
    BY <1>1, <1>2, FS_Subset
  <1>8. OpenAmount \in Nat
    <2> DEFINE f == [i \in OpenPriced |-> remaining[i]]
    <2>1. OpenAmount = SumOf(f, OpenPriced)
      BY SumFunctionIsSumOf DEF OpenAmount
    <2>2. \A i \in OpenPriced : f[i] \in Int /\ f[i] >= 0
      BY <1>1, <1>2
    <2> HIDE DEF f
    <2> QED
      BY <1>7, <2>1, <2>2, SumType
  <1>9. OpenCost \in Int
    <2> DEFINE f == [i \in OpenPriced |-> remaining[i] * rows[i].price]
    <2>1. OpenCost = SumOf(f, OpenPriced)
      BY SumFunctionIsSumOf DEF OpenCost
    <2>2. \A i \in OpenPriced : f[i] \in Int
      BY <1>1, <1>2 DEF OpenPriced
    <2> HIDE DEF f
    <2> QED
      BY <1>7, <2>1, <2>2, SumType
  <1>10. ASSUME AllPriced PROVE OpenAmount = Held /\ OpenCost = HeldCost /\ HeldCost \in Int
    <2>1. OpenPriced = Open
      BY <1>1, <1>2, <1>10 DEF AllPriced, OpenPriced
    <2>2. OpenAmount = CurrentAmount
      BY <2>1 DEF OpenAmount, CurrentAmount
    <2>3. OpenCost = HeldCost
      <3> DEFINE f == [i \in OpenPriced |-> remaining[i] * rows[i].price]
      <3>1. OpenCost = SumOf(f, Open)
        BY <2>1, SumFunctionIsSumOf DEF OpenCost
      <3>2. \A i \in D : /\ k[i] = IF rows[i].action = "in" THEN remaining[i] * rows[i].price ELSE 0
                         /\ rows[i].price \in Nat /\ remaining[i] \in Nat
        BY <1>1, <1>10 DEF HeldCostOf, AllPriced
      <3>3. \A i \in Open : f[i] = k[i] /\ k[i] \in Int
        BY <1>2, <2>1, <3>2 DEF Open
      <3>4. \A i \in D \ Open : k[i] = 0
        <4> SUFFICES ASSUME NEW i \in D \ Open, rows[i].action = "in" PROVE k[i] = 0
          BY <3>2
        <4>1. remaining[i] = 0
          BY <1>1 DEF Open
        <4> QED
          BY <3>2, <4>1
      <3> HIDE DEF f, D, h, k
      <3>5. SumOf(f, Open) = SumOf(k, D)
        BY <1>1, <1>2, <3>3, <3>4, SumExtend
      <3> QED
        BY <3>1, <3>5 DEF HeldCost, D, k
    <2> QED
      BY <1>5, <1>9, <2>2, <2>3
  <1> QED
    BY <1>5, <1>6, <1>8, <1>9, <1>10

\* A row is taken to the end of the lots, whole.
LEMMA TakeRow ==
  ASSUME FifoInv, NEW r \in Row, TakeDeposit(r) \/ TakeWithdrawal(r)
  PROVE  /\ LotsOK /\ LotsOK' /\ cursor = 0
         /\ rows' = Append(rows, r) /\ Len(rows') = Len(rows) + 1
         /\ rows'[Len(rows) + 1] = r /\ remaining'[Len(rows) + 1] = r.amount
         /\ \A i \in 1 .. Len(rows) : rows'[i] = rows[i] /\ remaining'[i] = remaining[i]
         /\ r.action \in {"in", "out"} /\ r.amount \in Nat
         /\ r.price # NoPrice => r.price \in Nat
  <1>1. LotsOK /\ LotsOK' /\ cursor = 0
    BY FifoTake DEF FifoInv, TakeDeposit, TakeWithdrawal
  <1>2. /\ rows' = Append(rows, r) /\ remaining' = Append(remaining, r.amount)
        /\ r.action \in {"in", "out"} /\ r.amount \in Nat
        /\ r.price # NoPrice => r.price \in Nat
    BY DEF TakeDeposit, TakeWithdrawal, Row
  <1>3. rows \in Seq(Row) /\ remaining \in Seq(Nat) /\ Len(remaining) = Len(rows)
    BY <1>1 DEF LotsOK
  <1> QED
    BY <1>1, <1>2, <1>3, AppendProperties

\* What a round of the loop takes from the lot it is at.
Drawn == Taken(left, remaining[cursor])

LEMMA ConsumeRound ==
  ASSUME FifoInv, ConsumeLot
  PROVE  /\ LotsOK /\ LotsOK' /\ rows' = rows /\ wac' = wac
         /\ cursor \in 1 .. Len(rows) /\ cursor' = cursor + 1
         /\ rows[cursor].action = "in" /\ left > 0 /\ remaining[cursor] > 0
         /\ Drawn \in Nat /\ Drawn <= left /\ Drawn <= remaining[cursor]
         /\ Drawn = left \/ Drawn = remaining[cursor]
         /\ left' = left - Drawn /\ fifo' = fifo + Gain(cursor, Drawn)
         /\ remaining'[cursor] = remaining[cursor] - Drawn
         /\ \A i \in 1 .. Len(rows) \ {cursor} : remaining'[i] = remaining[i]
  <1>1. LotsOK /\ LotsOK'
    BY FifoConsume DEF FifoInv
  <1>2. /\ rows \in Seq(Row) /\ remaining \in Seq(Nat) /\ left \in Nat /\ left > 0
        /\ cursor \in 1 .. Len(rows) /\ rows[cursor].action = "in" /\ remaining[cursor] > 0
        /\ DOMAIN remaining = 1 .. Len(rows)
    BY <1>1, RowsType DEF LotsOK, ConsumeLot, InLoop, Visit, Open
  <1>3. /\ remaining' = [remaining EXCEPT ![cursor] = @ - Drawn]
        /\ left' = left - Drawn /\ cursor' = cursor + 1 /\ rows' = rows /\ wac' = wac
        /\ fifo' = fifo + Gain(cursor, Drawn)
    BY DEF ConsumeLot, Visit, LeftAfter, Drawn
  <1>4. /\ Drawn \in Nat /\ Drawn <= left /\ Drawn <= remaining[cursor]
        /\ Drawn = left \/ Drawn = remaining[cursor]
    BY <1>2 DEF Taken, Drawn
  <1>5. /\ remaining'[cursor] = remaining[cursor] - Drawn
        /\ \A i \in 1 .. Len(rows) \ {cursor} : remaining'[i] = remaining[i]
    BY <1>2, <1>3, <1>4
  <1> QED
    BY <1>1, <1>2, <1>3, <1>4, <1>5

LEMMA HeldType ==
  ASSUME NEW rs \in Seq(Row), NEW rem \in Seq(Nat), Len(rem) = Len(rs)
  PROVE  \A i \in 1 .. Len(rs) :
           /\ HeldOf(rs, rem)[i] = IF rs[i].action = "in" THEN rem[i] ELSE 0
           /\ HeldOf(rs, rem)[i] \in Int
           /\ HeldCostOf(rs, rem)[i] = IF rs[i].action = "in" THEN rem[i] * rs[i].price ELSE 0
           /\ rs[i].price # NoPrice => HeldCostOf(rs, rem)[i] \in Int
  <1>1. \A i \in 1 .. Len(rs) : rem[i] \in Nat /\ (rs[i].price # NoPrice => rs[i].price \in Nat)
    <2>1. \A r \in Row : r.price # NoPrice => r.price \in Nat
      BY DEF Row
    <2> QED
      BY <2>1
  <1> QED
    BY <1>1 DEF HeldOf, HeldCostOf

\* A deposit adds to what is held, a withdrawal not before the loop.
LEMMA TakeHeld ==
  ASSUME FifoInv, NEW r \in Row, TakeDeposit(r) \/ TakeWithdrawal(r)
  PROVE  /\ Held' = Held + (IF r.action = "in" THEN r.amount ELSE 0)
         /\ AllPriced' => /\ AllPriced
                          /\ HeldCost' = HeldCost + (IF r.action = "in" THEN r.amount * r.price ELSE 0)
  <1> DEFINE n == Len(rows)
             f == HeldOf(rows, remaining)
             g == HeldOf(rows', remaining')
             c == HeldCostOf(rows, remaining)
             d == HeldCostOf(rows', remaining')
  <1>1. /\ LotsOK /\ LotsOK' /\ Len(rows') = n + 1 /\ n \in Nat
        /\ rows'[n + 1] = r /\ remaining'[n + 1] = r.amount
        /\ \A i \in 1 .. n : rows'[i] = rows[i] /\ remaining'[i] = remaining[i]
        /\ r.amount \in Nat /\ (r.price # NoPrice => r.price \in Nat)
    BY TakeRow, RowsType
  <1>2. \A i \in 1 .. n : /\ f[i] = (IF rows[i].action = "in" THEN remaining[i] ELSE 0)
                          /\ c[i] = IF rows[i].action = "in" THEN remaining[i] * rows[i].price ELSE 0
    BY <1>1, HeldType DEF LotsOK
  <1>3. \A i \in 1 .. n + 1 :
          /\ g[i] = (IF rows'[i].action = "in" THEN remaining'[i] ELSE 0)
          /\ g[i] \in Int
          /\ d[i] = (IF rows'[i].action = "in" THEN remaining'[i] * rows'[i].price ELSE 0)
          /\ rows'[i].price # NoPrice => d[i] \in Int
    BY <1>1, HeldType DEF LotsOK
  <1>4. 1 <= n + 1 /\ n + 1 \in 1 .. n + 1
    BY <1>1
  <1> HIDE DEF f, g, c, d
  <1>5. \A i \in 1 .. n : f[i] = g[i] /\ c[i] = d[i]
    BY <1>1, <1>2, <1>3
  <1> HIDE DEF n
  <1>6. Held' = Held + (IF r.action = "in" THEN r.amount ELSE 0)
    <2>1. SumOf(g, 1 .. n + 1) = SumOf(f, 1 .. n) + g[n + 1]
      <3>1. 1 \in Int /\ n \in Int /\ 1 <= n + 1
        BY <1>1
      <3>2. (\A i \in 1 .. n + 1 : g[i] \in Int) /\ (\A i \in 1 .. n : f[i] = g[i])
        BY <1>3, <1>5
      <3> QED
        BY <3>1, <3>2, SumAppend
    <2>2. g[n + 1] = IF r.action = "in" THEN r.amount ELSE 0
      BY <1>1, <1>3, <1>4
    <2>3. Held' = SumOf(g, 1 .. n + 1) /\ Held = SumOf(f, 1 .. n)
      BY <1>1 DEF Held, n, f, g
    <2> QED
      BY <2>1, <2>2, <2>3
  <1>7. ASSUME AllPriced'
        PROVE  AllPriced /\ HeldCost' = HeldCost + (IF r.action = "in" THEN r.amount * r.price ELSE 0)
    <2>1. AllPriced /\ \A i \in 1 .. n + 1 : rows'[i].price # NoPrice
      <3>1. DOMAIN rows = 1 .. n /\ DOMAIN rows' = 1 .. n + 1
        BY <1>1 DEF LotsOK, n
      <3> QED
        BY <1>1, <1>7, <3>1 DEF AllPriced
    <2>2. SumOf(d, 1 .. n + 1) = SumOf(c, 1 .. n) + d[n + 1]
      <3>1. 1 \in Int /\ n \in Int /\ 1 <= n + 1
        BY <1>1
      <3>2. (\A i \in 1 .. n + 1 : d[i] \in Int) /\ (\A i \in 1 .. n : c[i] = d[i])
        BY <1>3, <1>5, <2>1
      <3> QED
        BY <3>1, <3>2, SumAppend
    <2>3. d[n + 1] = IF r.action = "in" THEN r.amount * r.price ELSE 0
      BY <1>1, <1>3, <1>4
    <2>4. HeldCost' = SumOf(d, 1 .. n + 1) /\ HeldCost = SumOf(c, 1 .. n)
      BY <1>1 DEF HeldCost, n, c, d
    <2> QED
      BY <2>1, <2>2, <2>3, <2>4
  <1> QED
    BY <1>6, <1>7

\* A round of the loop takes from what is held.
LEMMA ConsumeHeld ==
  ASSUME FifoInv, ConsumeLot
  PROVE  /\ Held' = Held - Drawn
         /\ AllPriced => HeldCost' = HeldCost - Drawn * rows[cursor].price
  <1> DEFINE D == 1 .. Len(rows)
             f == HeldOf(rows, remaining)
             g == HeldOf(rows, remaining')
             c == HeldCostOf(rows, remaining)
             d == HeldCostOf(rows, remaining')
  <1>1. /\ LotsOK /\ LotsOK' /\ rows' = rows /\ cursor \in D /\ rows[cursor].action = "in"
        /\ Drawn \in Nat /\ remaining'[cursor] = remaining[cursor] - Drawn
        /\ \A i \in D \ {cursor} : remaining'[i] = remaining[i]
    BY ConsumeRound
  <1>2. \A i \in D : /\ f[i] = (IF rows[i].action = "in" THEN remaining[i] ELSE 0)
                     /\ f[i] \in Int
                     /\ c[i] = (IF rows[i].action = "in" THEN remaining[i] * rows[i].price ELSE 0)
                     /\ rows[i].price # NoPrice => c[i] \in Int
    BY <1>1, HeldType DEF LotsOK
  <1>3. \A i \in D : /\ g[i] = (IF rows[i].action = "in" THEN remaining'[i] ELSE 0)
                     /\ g[i] \in Int
                     /\ d[i] = (IF rows[i].action = "in" THEN remaining'[i] * rows[i].price ELSE 0)
                     /\ rows[i].price # NoPrice => d[i] \in Int
    BY <1>1, HeldType DEF LotsOK
  <1>4. IsFiniteSet(D) /\ remaining[cursor] \in Nat /\ (AllPriced => rows[cursor].price \in Nat)
    BY <1>1, RowsType DEF AllPriced
  <1> HIDE DEF f, g, c, d
  <1>5. \A i \in D \ {cursor} : f[i] = g[i] /\ c[i] = d[i]
    BY <1>1, <1>2, <1>3
  <1>5a. AllPriced => \A i \in D : rows[i].price # NoPrice
    BY <1>1, RowsType DEF AllPriced
  <1> HIDE DEF D
  <1>6. Held' = Held - Drawn
    <2>1. SumOf(g, D) = SumOf(f, D) + (g[cursor] - f[cursor])
      BY <1>1, <1>2, <1>3, <1>4, <1>5, SumChange
    <2>2. g[cursor] - f[cursor] = - Drawn
      BY <1>1, <1>2, <1>3, <1>4
    <2>3. SumOf(f, D) \in Int
      BY <1>2, <1>4, SumType
    <2>4. Held' = SumOf(g, D) /\ Held = SumOf(f, D)
      BY <1>1 DEF Held, D, f, g
    <2> QED
      BY <1>1, <2>1, <2>2, <2>3, <2>4
  <1>7. ASSUME AllPriced PROVE HeldCost' = HeldCost - Drawn * rows[cursor].price
    <2>1. SumOf(d, D) = SumOf(c, D) + (d[cursor] - c[cursor])
      <3>1. \A i \in D : c[i] \in Int /\ d[i] \in Int
        BY <1>2, <1>3, <1>5a, <1>7
      <3> QED
        BY <1>1, <1>4, <1>5, <3>1, SumChange
    <2> DEFINE p == rows[cursor].price
               m == remaining[cursor]
    <2>2. d[cursor] = (m - Drawn) * p /\ c[cursor] = m * p
      BY <1>1, <1>2, <1>3
    <2>3. p \in Nat /\ m \in Nat /\ Drawn \in Nat
      BY <1>1, <1>4, <1>7
    <2>4. SumOf(c, D) \in Int
      <3>1. \A i \in D : c[i] \in Int
        BY <1>2, <1>5a, <1>7
      <3> QED
        BY <1>4, <3>1, SumType
    <2>5. HeldCost' = SumOf(d, D) /\ HeldCost = SumOf(c, D)
      BY <1>1 DEF HeldCost, D, c, d
    <2> HIDE DEF p, m
    <2>6. (m - Drawn) * p - m * p = - (Drawn * p) /\ Drawn * p \in Int
      BY <2>3
    <2>7. SumOf(d, D) = SumOf(c, D) - Drawn * p
      BY <2>1, <2>2, <2>4, <2>6
    <2> QED
      BY <2>5, <2>7 DEF p
  <1> QED
    BY <1>6, <1>7

-----------------------------------------------------------------------------
(* Flows.                                                                  *)

Signed(r)    == IF r.action = "in" THEN r.amount ELSE - r.amount
SignedOf(rs) == [i \in DOMAIN rs |-> Signed(rs[i])]
FlowAt(rs, k) == SumOf(SignedOf(rs), k .. Len(rs))

LEMMA SignedType ==
  ASSUME NEW rs \in Seq(Row)
  PROVE  /\ Len(rs) \in Nat /\ DOMAIN rs = 1 .. Len(rs)
         /\ \A r \in Row : Signed(r) \in Int
         /\ \A i \in 1 .. Len(rs) : SignedOf(rs)[i] = Signed(rs[i]) /\ SignedOf(rs)[i] \in Int
  <1>1. DOMAIN rs = 1 .. Len(rs) /\ Len(rs) \in Nat /\ \A i \in 1 .. Len(rs) : rs[i] \in Row
    OBVIOUS
  <1>2. \A r \in Row : Signed(r) \in Int
    <2>1. \A r \in Row : r.amount \in Nat
      BY DEF Row
    <2> QED
      BY <2>1 DEF Signed
  <1> QED
    BY <1>1, <1>2 DEF SignedOf

LEMMA FlowIsSum ==
  ASSUME NEW rs \in Seq(Row), NEW k \in 1 .. Len(rs) + 1, NEW n \in 0 .. Len(rs)
  PROVE  SumFunction([i \in k .. n |-> IF rs[i].action = "in" THEN rs[i].amount ELSE - rs[i].amount])
           = SumOf(SignedOf(rs), k .. n)
  <1> DEFINE e == [i \in k .. n |-> IF rs[i].action = "in" THEN rs[i].amount ELSE - rs[i].amount]
  <1>1. k .. n \subseteq 1 .. Len(rs) /\ IsFiniteSet(k .. n)
    BY SignedType, FS_Interval
  <1>2. \A i \in k .. n : e[i] = Signed(rs[i])
    BY DEF Signed
  <1>3. \A i \in k .. n : e[i] = SignedOf(rs)[i] /\ SignedOf(rs)[i] \in Int
    BY <1>1, <1>2, SignedType
  <1>4. SumFunction(e) = SumOf(e, k .. n)
    BY SumFunctionIsSumOf
  <1> HIDE DEF e
  <1>5. SumOf(e, k .. n) = SumOf(SignedOf(rs), k .. n)
    BY <1>1, <1>3, SumSame
  <1>6. SumFunction(e) = SumOf(SignedOf(rs), k .. n)
    BY <1>4, <1>5
  <1> QED
    BY <1>6 DEF e

LEMMA FlowAtType ==
  ASSUME NEW rs \in Seq(Row), NEW k \in 1 .. Len(rs) + 1
  PROVE  FlowAt(rs, k) \in Int /\ (k = Len(rs) + 1 => FlowAt(rs, k) = 0)
  <1>1. IsFiniteSet(k .. Len(rs)) /\ \A i \in k .. Len(rs) : SignedOf(rs)[i] \in Int
    BY SignedType, FS_Interval
  <1>2. k = Len(rs) + 1 => k .. Len(rs) = {}
    BY SignedType
  <1> QED
    BY <1>1, <1>2, SumPick DEF FlowAt

LEMMA FlowAppend ==
  ASSUME NEW rs \in Seq(Row), NEW k \in 1 .. Len(rs) + 1, NEW r \in Row
  PROVE  FlowAt(Append(rs, r), k) = FlowAt(rs, k) + Signed(r)
  <1> DEFINE t == Append(rs, r)
             f == SignedOf(rs)
             g == SignedOf(t)
             n == Len(rs)
  <1>1. /\ t \in Seq(Row) /\ Len(t) = n + 1 /\ n \in Nat /\ t[n + 1] = r
        /\ \A i \in 1 .. n : t[i] = rs[i]
    OBVIOUS
  <1> HIDE DEF t
  <1>2. /\ \A i \in 1 .. n : f[i] = Signed(rs[i])
        /\ \A i \in 1 .. n + 1 : g[i] = Signed(t[i]) /\ g[i] \in Int
    BY <1>1, SignedType
  <1>3. FlowAt(t, k) = SumOf(g, k .. n + 1) /\ FlowAt(rs, k) = SumOf(f, k .. n)
    BY <1>1 DEF FlowAt
  <1> HIDE DEF f, g, n
  <1>4. k \in Nat /\ 1 <= k /\ k <= n + 1 /\ k \in Int /\ n \in Int
    BY <1>1 DEF n
  <1>5. (\A i \in k .. n + 1 : g[i] \in Int) /\ (\A i \in k .. n : f[i] = g[i])
    BY <1>1, <1>2, <1>4
  <1>6. SumOf(g, k .. n + 1) = SumOf(f, k .. n) + g[n + 1]
    BY <1>4, <1>5, SumAppend
  <1>7. g[n + 1] = Signed(r)
    BY <1>1, <1>2
  <1> QED
    BY <1>3, <1>6, <1>7 DEF t

LEMMA FlowIsFlowAt ==
  ASSUME LotsOK
  PROVE  \A k \in 1 .. Len(rows) + 1 : Flow(k) = FlowAt(rows, k) /\ Flow(k) \in Int
  <1> SUFFICES ASSUME NEW k \in 1 .. Len(rows) + 1
               PROVE  Flow(k) = FlowAt(rows, k) /\ Flow(k) \in Int
    OBVIOUS
  <1>1. rows \in Seq(Row) /\ Len(rows) \in 0 .. Len(rows)
    BY DEF LotsOK
  <1>2. Flow(k) = SumOf(SignedOf(rows), k .. Len(rows))
    BY <1>1, FlowIsSum DEF Flow
  <1>3. Flow(k) = FlowAt(rows, k)
    BY <1>2 DEF FlowAt
  <1> QED
    BY <1>1, <1>3, FlowAtType

\* Where the position may have been empty last: in a withdrawal, not after it.
Starts == 1 .. IF cursor = 0 THEN Len(rows) + 1 ELSE Len(rows)

\* What is held, but for what is still to be withdrawn, is the flow since then.
FlowInv ==
  /\ cursor = 0 => left = 0
  /\ cursor > 0 => rows # <<>> /\ rows[Len(rows)].action = "out"
  /\ \A k \in Starts : Held - left >= FlowAt(rows, k)
  /\ \E k \in Starts : Held - left = FlowAt(rows, k)

LEMMA FlowTakeDeposit ==
  ASSUME FifoInv, FlowInv, NEW r \in Row, TakeDeposit(r)
  PROVE  FlowInv'
  <1> DEFINE n == Len(rows)
  <1>1. /\ LotsOK /\ LotsOK' /\ cursor = 0 /\ rows' = Append(rows, r) /\ Len(rows') = n + 1
        /\ n \in Nat /\ rows \in Seq(Row) /\ rows' \in Seq(Row) /\ r.amount \in Nat
    BY TakeRow, RowsType DEF LotsOK
  <1>2. r.action = "in" /\ cursor' = 0 /\ left' = 0 /\ left = 0
    BY <1>1 DEF TakeDeposit, FlowInv
  <1>3. Held' = Held + r.amount /\ Held \in Nat
    BY <1>1, <1>2, TakeHeld, OpenSums
  <1>4. Starts = 1 .. n + 1 /\ Starts' = 1 .. n + 2
    BY <1>1, <1>2 DEF Starts
  <1>5. \A k \in 1 .. n + 1 : FlowAt(rows', k) = FlowAt(rows, k) + r.amount /\ FlowAt(rows, k) \in Int
    <2>1. Signed(r) = r.amount
      BY <1>2 DEF Signed
    <2> QED
      BY <1>1, <2>1, FlowAppend, FlowAtType
  <1>6. FlowAt(rows', n + 2) = 0
    <2>1. n + 2 \in 1 .. Len(rows') + 1 /\ n + 2 = Len(rows') + 1
      BY <1>1
    <2> QED
      BY <1>1, <2>1, FlowAtType
  <1> HIDE DEF n
  <1>7. \A k \in Starts' : Held' - left' >= FlowAt(rows', k)
    <2> SUFFICES ASSUME NEW k \in 1 .. n + 2 PROVE Held' - left' >= FlowAt(rows', k)
      BY <1>4
    <2>1. CASE k \in 1 .. n + 1
      <3>1. Held - left >= FlowAt(rows, k)
        BY <1>4, <2>1 DEF FlowInv
      <3> QED
        BY <1>1, <1>2, <1>3, <1>5, <2>1, <3>1
    <2>2. CASE k = n + 2
      BY <1>1, <1>2, <1>3, <1>6, <2>2
    <2> QED
      BY <1>1, <2>1, <2>2
  <1>8. \E k \in Starts' : Held' - left' = FlowAt(rows', k)
    <2>1. PICK k \in 1 .. n + 1 : Held - left = FlowAt(rows, k)
      BY <1>4 DEF FlowInv
    <2>2. Held' - left' = FlowAt(rows', k)
      BY <1>1, <1>2, <1>3, <1>5, <2>1
    <2> QED
      BY <1>1, <1>4, <2>2
  <1> QED
    BY <1>2, <1>7, <1>8 DEF FlowInv

LEMMA FlowTakeWithdrawal ==
  ASSUME FifoInv, FlowInv, NEW r \in Row, TakeWithdrawal(r)
  PROVE  FlowInv'
  <1> DEFINE n == Len(rows)
  <1>1. /\ LotsOK /\ LotsOK' /\ cursor = 0 /\ rows' = Append(rows, r) /\ Len(rows') = n + 1
        /\ n \in Nat /\ rows \in Seq(Row) /\ rows' \in Seq(Row) /\ r.amount \in Nat
        /\ rows'[n + 1] = r
    BY TakeRow, RowsType DEF LotsOK
  <1>2. r.action = "out" /\ cursor' = 1 /\ left' = r.amount /\ left = 0
    BY <1>1 DEF TakeWithdrawal, FlowInv
  <1>3. Held' = Held /\ Held \in Nat
    BY <1>1, <1>2, TakeHeld, OpenSums
  <1>4. Starts = 1 .. n + 1 /\ Starts' = 1 .. n + 1
    BY <1>1, <1>2 DEF Starts
  <1>5. \A k \in 1 .. n + 1 : FlowAt(rows', k) = FlowAt(rows, k) - r.amount /\ FlowAt(rows, k) \in Int
    <2>1. Signed(r) = - r.amount
      BY <1>2 DEF Signed
    <2>2. \A k \in 1 .. n + 1 : FlowAt(rows', k) = FlowAt(rows, k) + Signed(r) /\ FlowAt(rows, k) \in Int
      BY <1>1, FlowAppend, FlowAtType
    <2> QED
      BY <1>1, <2>1, <2>2
  <1> HIDE DEF n
  <1>6. \A k \in Starts' : Held' - left' >= FlowAt(rows', k)
    <2> SUFFICES ASSUME NEW k \in 1 .. n + 1 PROVE Held' - left' >= FlowAt(rows', k)
      BY <1>4
    <2>1. Held - left >= FlowAt(rows, k)
      BY <1>4 DEF FlowInv
    <2> QED
      BY <1>1, <1>2, <1>3, <1>5, <2>1
  <1>7. \E k \in Starts' : Held' - left' = FlowAt(rows', k)
    <2>1. PICK k \in 1 .. n + 1 : Held - left = FlowAt(rows, k)
      BY <1>4 DEF FlowInv
    <2>2. Held' - left' = FlowAt(rows', k)
      BY <1>1, <1>2, <1>3, <1>5, <2>1
    <2> QED
      BY <1>4, <2>2
  <1>8. rows' # <<>> /\ rows'[Len(rows')].action = "out"
    BY <1>1, <1>2
  <1> QED
    BY <1>2, <1>6, <1>7, <1>8 DEF FlowInv

LEMMA FlowConsume ==
  ASSUME FifoInv, FlowInv, ConsumeLot
  PROVE  FlowInv'
  <1>1. /\ LotsOK /\ rows' = rows /\ cursor \in 1 .. Len(rows) /\ cursor' = cursor + 1
        /\ Drawn \in Nat /\ left' = left - Drawn /\ Held' = Held - Drawn
    BY ConsumeRound, ConsumeHeld
  <1>2. Held \in Nat /\ left \in Nat /\ Len(rows) \in Nat
    BY <1>1, OpenSums DEF LotsOK
  <1>3. Held' - left' = Held - left
    BY <1>1, <1>2
  <1>4. Starts' = Starts /\ cursor > 0 /\ cursor' > 0 /\ cursor' # 0
    BY <1>1, <1>2 DEF Starts
  <1> QED
    BY <1>1, <1>3, <1>4 DEF FlowInv

\* The loop ends with something left to withdraw only when nothing is held.
LEMMA NothingHeld ==
  ASSUME FifoInv, EndWithdrawal, left > 0
  PROVE  Held = 0
  <1>1. LotsOK /\ cursor \in Nat /\ cursor > Len(rows) /\ Len(rows) \in Nat /\ cursor > 0
    BY RowsType DEF FifoInv, LotsOK, EndWithdrawal, InLoop
  <1>2. \A i \in 1 .. Len(rows) : rows[i].action = "in" => remaining[i] = 0
    BY <1>1, RowsType DEF FifoInv, PassedUsedUp
  <1>3. \A i \in 1 .. Len(rows) : HeldOf(rows, remaining)[i] = 0
    BY <1>1, <1>2, HeldType DEF LotsOK
  <1>4. IsFiniteSet(1 .. Len(rows))
    BY <1>1, RowsType
  <1> QED
    BY <1>3, <1>4, SumZero DEF Held

LEMMA FlowEnd ==
  ASSUME FifoInv, FlowInv, EndWithdrawal
  PROVE  FlowInv'
  <1> DEFINE n == Len(rows)
  <1>1. /\ LotsOK /\ rows' = rows /\ remaining' = remaining /\ cursor' = 0 /\ left' = 0 /\ cursor > 0
        /\ n \in Nat /\ rows \in Seq(Row) /\ left \in Nat /\ Held \in Nat
    BY RowsType, OpenSums DEF FifoInv, LotsOK, EndWithdrawal
  <1>2. Held' = Held
    BY <1>1 DEF Held
  <1>3. Starts = 1 .. n /\ Starts' = 1 .. n + 1
    BY <1>1 DEF Starts, FifoInv, LotsOK
  <1>4. /\ FlowAt(rows, n + 1) = 0
        /\ \A k \in 1 .. n + 1 : FlowAt(rows, k) \in Int
    <2>1. n + 1 \in 1 .. Len(rows) + 1
      BY <1>1
    <2> QED
      BY <1>1, <2>1, FlowAtType
  <1>5. /\ \A k \in 1 .. n : Held - left >= FlowAt(rows, k)
        /\ \E k \in 1 .. n : Held - left = FlowAt(rows, k)
    BY <1>3 DEF FlowInv
  <1>6. left > 0 => Held = 0
    BY NothingHeld
  <1> HIDE DEF n
  <1>7. \A k \in 1 .. n + 1 : Held >= FlowAt(rows, k)
    <2> SUFFICES ASSUME NEW k \in 1 .. n + 1 PROVE Held >= FlowAt(rows, k)
      OBVIOUS
    <2>1. CASE k = n + 1
      BY <1>1, <1>4, <2>1
    <2>2. CASE k \in 1 .. n
      BY <1>1, <1>4, <1>5, <2>2
    <2> QED
      BY <1>1, <2>1, <2>2
  <1>8. \E k \in 1 .. n + 1 : Held = FlowAt(rows, k)
    <2>1. CASE left > 0
      <3>1. Held = FlowAt(rows, n + 1) /\ n + 1 \in 1 .. n + 1
        BY <1>1, <1>4, <1>6, <2>1
      <3> QED
        BY <3>1
    <2>2. CASE left = 0
      BY <1>1, <1>5, <2>2
    <2> QED
      BY <1>1, <2>1, <2>2
  <1>9. Held' - left' = Held
    BY <1>1, <1>2
  <1> QED
    BY <1>1, <1>3, <1>7, <1>8, <1>9 DEF FlowInv

LEMMA FlowStep == FifoInv /\ FlowInv /\ [Next]_vars => FlowInv'
  <1> SUFFICES ASSUME FifoInv, FlowInv, [Next]_vars PROVE FlowInv'
    OBVIOUS
  <1>1. CASE \E r \in Row : TakeDeposit(r) \/ TakeWithdrawal(r)
    BY <1>1, FlowTakeDeposit, FlowTakeWithdrawal
  <1>2. CASE ConsumeLot
    BY <1>2, FlowConsume
  <1>3. CASE PassLot
    <2>1. /\ UNCHANGED <<rows, remaining, left>> /\ cursor \in Nat /\ cursor > 0 /\ cursor' = cursor + 1
      BY <1>3 DEF PassLot, InLoop, FifoInv, LotsOK
    <2>2. Starts' = Starts /\ Held' = Held /\ cursor' > 0 /\ cursor' # 0
      BY <2>1 DEF Starts, Held
    <2> QED
      BY <2>1, <2>2 DEF FlowInv
  <1>4. CASE EndWithdrawal
    BY <1>4, FlowEnd
  <1>5. CASE UNCHANGED vars
    BY <1>5 DEF vars, FlowInv, Starts, Held
  <1> QED
    BY <1>1, <1>2, <1>3, <1>4, <1>5 DEF Next

LEMMA FlowInvHolds == Spec => []FlowInv
  <1>1. Init => FlowInv
    <2> SUFFICES ASSUME Init PROVE FlowInv
      OBVIOUS
    <2>1. rows = <<>> /\ cursor = 0 /\ left = 0 /\ LotsOK
      BY DEF Init, LotsOK
    <2>2. <<>> \in Seq(Row) /\ Len(<<>>) = 0 /\ 1 \in 1 .. Len(<<>>) + 1 /\ 1 = Len(<<>>) + 1
      OBVIOUS
    <2>3. FlowAt(<<>>, 1) = 0
      BY <2>2, FlowAtType
    <2>4. Held = 0
      <3>1. \A i \in 1 .. Len(rows) : HeldOf(rows, remaining)[i] = 0
        BY <2>1, <2>2
      <3> QED
        BY <2>1, <3>1, RowsType, SumZero DEF Held
    <2>5. Starts = {1}
      BY <2>1, <2>2 DEF Starts
    <2> QED
      BY <2>1, <2>3, <2>4, <2>5 DEF FlowInv
  <1> QED
    BY <1>1, FifoInvHolds, FlowStep, PTL DEF Spec

\* Whatever the rows, what is held between two of them is their net flow since
\* the position was last empty; what no deposit covers is forgotten.
THEOREM CurrentIsNetFlow == Spec => []CurrentIsFlow
  <1>1. FifoInv /\ FlowInv => CurrentIsFlow
    <2> SUFFICES ASSUME FifoInv, FlowInv, cursor = 0
                 PROVE  /\ \A k \in 1 .. Len(rows) + 1 : CurrentAmount >= Flow(k)
                        /\ \E k \in 1 .. Len(rows) + 1 : CurrentAmount = Flow(k)
      BY DEF CurrentIsFlow
    <2>1. LotsOK /\ left = 0 /\ Held \in Nat /\ CurrentAmount = Held
      BY OpenSums DEF FifoInv, FlowInv
    <2>2. \A k \in 1 .. Len(rows) + 1 : Flow(k) = FlowAt(rows, k)
      BY <2>1, FlowIsFlowAt
    <2>3. Starts = 1 .. Len(rows) + 1 /\ Held - left = Held
      BY <2>1 DEF Starts
    <2> QED
      BY <2>1, <2>2, <2>3 DEF FlowInv
  <1> QED
    BY <1>1, FifoInvHolds, FlowInvHolds, PTL

-----------------------------------------------------------------------------
(* Types.                                                                  *)

LEMMA WacType ==
  ASSUME LotsOK, NEW r \in Row
  PROVE  WacGain(r) \in Int
  <1>1. OpenAmount \in Nat /\ OpenCost \in Int /\ Scale \in Nat /\ r.amount \in Nat
    BY OpenSums, MaxRowsAssumption DEF Row
  <1>2. CASE OpenAmount = 0 \/ r.price = NoPrice
    BY <1>2 DEF WacGain
  <1>3. CASE ~(OpenAmount = 0 \/ r.price = NoPrice)
    <2>1. r.price \in Nat /\ OpenAmount > 0
      <3>1. \A q \in Row : q.price # NoPrice => q.price \in Nat
        BY DEF Row
      <3>2. r.price \in Nat
        BY <1>3, <3>1
      <3>3. OpenAmount > 0
        BY <1>1, <1>3
      <3> QED
        BY <3>2, <3>3
    <2> DEFINE x == (r.price * OpenAmount - OpenCost) * r.amount * Scale
    <2>2. x \in Int
      BY <1>1, <2>1
    <2>3. WacGain(r) = x \div OpenAmount
      BY <1>3 DEF WacGain
    <2> HIDE DEF x
    <2> QED
      BY <1>1, <2>1, <2>2, <2>3
  <1> QED
    BY <1>2, <1>3

\* Every variable keeps its type; no lot has less than nothing or more than
\* its amount left.
THEOREM LotTypes == Spec => []TypeOK
  <1>1. Init => TypeOK
    BY MaxRowsAssumption DEF Init, TypeOK
  <1>2. FifoInv /\ FifoInv' /\ TypeOK /\ [Next]_vars => TypeOK'
    <2> SUFFICES ASSUME FifoInv, FifoInv', TypeOK, [Next]_vars PROVE TypeOK'
      OBVIOUS
    <2>1. /\ LotsOK' /\ LotsOK /\ Len(rows) \in Nat /\ Len(rows') \in Nat
          /\ cursor \in 0 .. Len(rows) + 1 /\ wac \in Int /\ Len(rows) <= MaxRows
      BY DEF FifoInv, LotsOK, TypeOK
    <2>2. cursor' \in 0 .. Len(rows') + 1 /\ wac' \in Int /\ Len(rows') <= MaxRows
      <3>1. ASSUME NEW r \in Row, Len(rows) < MaxRows, TakeDeposit(r) \/ TakeWithdrawal(r)
            PROVE  cursor' \in 0 .. Len(rows') + 1 /\ wac' \in Int /\ Len(rows') <= MaxRows
        <4>1. Len(rows') = Len(rows) + 1 /\ WacGain(r) \in Int
          BY <2>1, <3>1, TakeRow, WacType
        <4>2. cursor' \in {0, 1} /\ wac' \in {wac, wac + WacGain(r)}
          BY <3>1 DEF TakeDeposit, TakeWithdrawal
        <4> QED
          BY <2>1, <3>1, <4>1, <4>2, MaxRowsAssumption
      <3>2. CASE ConsumeLot
        BY <2>1, <3>2 DEF ConsumeLot, InLoop
      <3>3. CASE PassLot
        BY <2>1, <3>3 DEF PassLot, InLoop
      <3>4. CASE EndWithdrawal
        BY <2>1, <3>4 DEF EndWithdrawal
      <3>5. CASE UNCHANGED vars
        BY <2>1, <3>5 DEF vars
      <3> QED
        BY <3>1, <3>2, <3>3, <3>4, <3>5 DEF Next
    <2> QED
      BY <2>1, <2>2 DEF LotsOK, TypeOK
  <1> QED
    BY <1>1, <1>2, FifoInvHolds, PTL DEF Spec

-----------------------------------------------------------------------------
(* Gains.                                                                  *)

WorthOf(rs, a) ==
  [i \in DOMAIN rs |-> IF rs[i].action = a THEN rs[i].amount * rs[i].price ELSE 0]

Priced(rs) == \A i \in 1 .. Len(rs) : rs[i].price # NoPrice

LEMMA WorthOfType ==
  ASSUME NEW rs \in Seq(Row), Priced(rs), NEW a
  PROVE  /\ Len(rs) \in Nat /\ DOMAIN rs = 1 .. Len(rs)
         /\ \A i \in 1 .. Len(rs) :
              /\ rs[i].amount \in Nat /\ rs[i].price \in Nat
              /\ WorthOf(rs, a)[i] = IF rs[i].action = a THEN rs[i].amount * rs[i].price ELSE 0
              /\ WorthOf(rs, a)[i] \in Int
  <1>1. DOMAIN rs = 1 .. Len(rs) /\ Len(rs) \in Nat /\ \A i \in 1 .. Len(rs) : rs[i] \in Row
    OBVIOUS
  <1>2. \A r \in Row : r.amount \in Nat /\ (r.price # NoPrice => r.price \in Nat)
    BY DEF Row
  <1>3. \A i \in 1 .. Len(rs) : rs[i].amount \in Nat /\ rs[i].price \in Nat
    BY <1>1, <1>2 DEF Priced
  <1> QED
    BY <1>1, <1>3 DEF WorthOf

\* What Worth sums, over all rows.
LEMMA WorthIsSum ==
  ASSUME NEW rs \in Seq(Row), Priced(rs), NEW a
  PROVE  /\ SumFunction([i \in {j \in DOMAIN rs : rs[j].action = a} |-> rs[i].amount * rs[i].price])
              = SumOf(WorthOf(rs, a), 1 .. Len(rs))
         /\ SumOf(WorthOf(rs, a), 1 .. Len(rs)) \in Int
  <1> DEFINE T == {j \in DOMAIN rs : rs[j].action = a}
             e == [i \in T |-> rs[i].amount * rs[i].price]
             g == WorthOf(rs, a)
             D == 1 .. Len(rs)
  <1>1. /\ T \in SUBSET D /\ IsFiniteSet(D)
        /\ \A i \in T : e[i] = g[i] /\ g[i] \in Int
        /\ \A i \in D \ T : g[i] = 0
        /\ \A i \in D : g[i] \in Int
    <2>1. /\ Len(rs) \in Nat /\ DOMAIN rs = 1 .. Len(rs)
          /\ \A i \in 1 .. Len(rs) :
              /\ g[i] = IF rs[i].action = a THEN rs[i].amount * rs[i].price ELSE 0
              /\ g[i] \in Int
      BY WorthOfType
    <2>2. T \in SUBSET D
      BY <2>1
    <2>3. IsFiniteSet(D)
      BY <2>1, FS_Interval
    <2> HIDE DEF g
    <2>4. \A i \in T : e[i] = g[i] /\ g[i] \in Int
      BY <2>1
    <2>5. \A i \in D \ T : g[i] = 0
      BY <2>1
    <2> QED
      BY <2>1, <2>2, <2>3, <2>4, <2>5
  <1>2. SumFunction(e) = SumOf(e, T)
    BY SumFunctionIsSumOf
  <1> HIDE DEF T, e, g, D
  <1>3. SumOf(e, T) = SumOf(g, D)
    BY <1>1, SumExtend
  <1>4. SumOf(g, D) \in Int
    BY <1>1, SumType
  <1>5. SumFunction(e) = SumOf(g, D)
    BY <1>2, <1>3
  <1> QED
    BY <1>4, <1>5 DEF T, e, g, D

LEMMA WorthAppend ==
  ASSUME NEW rs \in Seq(Row), NEW r \in Row, Priced(Append(rs, r)), NEW a
  PROVE  /\ Priced(rs) /\ r.price \in Nat
         /\ SumOf(WorthOf(Append(rs, r), a), 1 .. Len(rs) + 1)
              = SumOf(WorthOf(rs, a), 1 .. Len(rs)) + (IF r.action = a THEN r.amount * r.price ELSE 0)
  <1> DEFINE t == Append(rs, r)
             f == WorthOf(rs, a)
             g == WorthOf(t, a)
             n == Len(rs)
  <1>1. /\ t \in Seq(Row) /\ Len(t) = n + 1 /\ n \in Nat /\ t[n + 1] = r
        /\ \A i \in 1 .. n : t[i] = rs[i]
    OBVIOUS
  <1> HIDE DEF t
  <1>2. Priced(t)
    BY DEF t
  <1>3. Priced(rs)
    BY <1>1, <1>2 DEF Priced
  <1>4. \A i \in 1 .. n : f[i] = IF rs[i].action = a THEN rs[i].amount * rs[i].price ELSE 0
    BY <1>3, WorthOfType
  <1>5. \A i \in 1 .. n + 1 : /\ g[i] = (IF t[i].action = a THEN t[i].amount * t[i].price ELSE 0)
                              /\ g[i] \in Int /\ t[i].price \in Nat
    BY <1>1, <1>2, WorthOfType
  <1> HIDE DEF f, g, n
  <1>6. 1 \in Int /\ n \in Int /\ 1 <= n + 1 /\ n + 1 \in 1 .. n + 1
    BY <1>1
  <1>7. (\A i \in 1 .. n + 1 : g[i] \in Int) /\ (\A i \in 1 .. n : f[i] = g[i])
    BY <1>1, <1>4, <1>5
  <1>8. SumOf(g, 1 .. n + 1) = SumOf(f, 1 .. n) + g[n + 1]
    BY <1>6, <1>7, SumAppend
  <1>9. g[n + 1] = (IF r.action = a THEN r.amount * r.price ELSE 0) /\ r.price \in Nat
    BY <1>1, <1>5, <1>6
  <1> QED
    BY <1>3, <1>8, <1>9 DEF t, f, g, n

\* The net flow up to every row is not negative.
Covered(rs) ==
  \A n \in 1 .. Len(rs) : SumOf(SignedOf(rs), 1 .. n) >= 0

LEMMA CoveredPrefix ==
  ASSUME NEW rs \in Seq(Row), NEW r \in Row, Covered(Append(rs, r))
  PROVE  Covered(rs) /\ FlowAt(Append(rs, r), 1) >= 0
  <1> DEFINE t == Append(rs, r)
             f == SignedOf(rs)
             g == SignedOf(t)
  <1>1. /\ t \in Seq(Row) /\ Len(t) = Len(rs) + 1 /\ Len(rs) \in Nat
        /\ \A i \in 1 .. Len(rs) : t[i] = rs[i]
    OBVIOUS
  <1> HIDE DEF t
  <1>2. /\ \A i \in 1 .. Len(rs) : f[i] = Signed(rs[i])
        /\ \A i \in 1 .. Len(t) : g[i] = Signed(t[i]) /\ g[i] \in Int
    BY <1>1, SignedType
  <1>3. \A n \in 1 .. Len(t) : SumOf(g, 1 .. n) >= 0
    BY DEF Covered, t
  <1> HIDE DEF f, g
  <1>4. ASSUME NEW n \in 1 .. Len(rs) PROVE SumOf(f, 1 .. n) >= 0
    <2>1. IsFiniteSet(1 .. n)
      BY <1>1, FS_Interval
    <2>1a. \A i \in 1 .. n : f[i] = g[i] /\ g[i] \in Int
      BY <1>1, <1>2
    <2>2. SumOf(f, 1 .. n) = SumOf(g, 1 .. n) /\ n \in 1 .. Len(t)
      BY <1>1, <2>1, <2>1a, SumSame
    <2> QED
      BY <1>3, <2>2
  <1>5. SumOf(g, 1 .. Len(t)) >= 0
    BY <1>1, <1>3
  <1> QED
    BY <1>4, <1>5 DEF Covered, FlowAt, f, g, t

\* The rows of which the gains are known.
Sound(rs) == Priced(rs) /\ Covered(rs)

LEMMA CoveredIsSum ==
  ASSUME NEW rs \in Seq(Row)
  PROVE  (\A n \in DOMAIN rs :
            SumFunction([i \in 1 .. n |-> IF rs[i].action = "in" THEN rs[i].amount ELSE - rs[i].amount]) >= 0)
         <=> Covered(rs)
  <1>1. DOMAIN rs = 1 .. Len(rs) /\ Len(rs) \in Nat
    OBVIOUS
  <1>2. \A n \in 1 .. Len(rs) :
          SumFunction([i \in 1 .. n |-> IF rs[i].action = "in" THEN rs[i].amount ELSE - rs[i].amount])
            = SumOf(SignedOf(rs), 1 .. n)
    <2> SUFFICES ASSUME NEW n \in 1 .. Len(rs)
                 PROVE  SumFunction([i \in 1 .. n |-> IF rs[i].action = "in" THEN rs[i].amount ELSE - rs[i].amount])
                          = SumOf(SignedOf(rs), 1 .. n)
      OBVIOUS
    <2>1. 1 \in 1 .. Len(rs) + 1 /\ n \in 0 .. Len(rs)
      BY <1>1
    <2> QED
      BY <2>1, FlowIsSum
  <1> QED
    BY <1>1, <1>2 DEF Covered

WorthSum(rs, a) == SumOf(WorthOf(rs, a), 1 .. Len(rs))

\* The definitions of the module, in those terms, before and after a step.
LEMMA SoundRows ==
  ASSUME LotsOK, LotsOK'
  PROVE  /\ AllPriced /\ NeverOverdrawn <=> Sound(rows)
         /\ (AllPriced /\ NeverOverdrawn)' <=> Sound(rows')
         /\ Sound(rows) => \A a : Worth(a) = WorthSum(rows, a) /\ Worth(a) \in Int
         /\ Sound(rows') => \A a : Worth(a)' = WorthSum(rows', a) /\ Worth(a)' \in Int
  <1>1. /\ rows \in Seq(Row) /\ DOMAIN rows = 1 .. Len(rows)
        /\ rows' \in Seq(Row) /\ DOMAIN rows' = 1 .. Len(rows')
    BY DEF LotsOK
  <1>2. (NeverOverdrawn <=> Covered(rows)) /\ (AllPriced <=> Priced(rows))
    BY <1>1, CoveredIsSum DEF NeverOverdrawn, AllPriced, Priced
  <1>3. (NeverOverdrawn' <=> Covered(rows')) /\ (AllPriced' <=> Priced(rows'))
    BY <1>1, CoveredIsSum DEF NeverOverdrawn, AllPriced, Priced
  <1>4. ASSUME Sound(rows), NEW a PROVE Worth(a) = WorthSum(rows, a) /\ Worth(a) \in Int
    BY <1>1, <1>4, WorthIsSum DEF Worth, WorthSum, Sound
  <1>5. ASSUME Sound(rows'), NEW a PROVE Worth(a)' = WorthSum(rows', a) /\ Worth(a)' \in Int
    BY <1>1, <1>5, WorthIsSum DEF Worth, WorthSum, Sound
  <1> QED
    BY <1>2, <1>3, <1>4, <1>5 DEF Sound

\* What a row adds to the money.
LEMMA TakeWorth ==
  ASSUME FifoInv, NEW r \in Row, TakeDeposit(r) \/ TakeWithdrawal(r), Sound(rows')
  PROVE  /\ Sound(rows) /\ r.price \in Nat /\ r.price # NoPrice /\ r.amount \in Nat
         /\ FlowAt(rows', 1) >= 0
         /\ \A a : /\ Worth(a) \in Int
                   /\ Worth(a)' = Worth(a) + (IF r.action = a THEN r.amount * r.price ELSE 0)
         /\ HeldCost \in Int
         /\ HeldCost' = HeldCost + (IF r.action = "in" THEN r.amount * r.price ELSE 0)
  <1>1. /\ LotsOK /\ LotsOK' /\ rows' = Append(rows, r) /\ Len(rows') = Len(rows) + 1
        /\ rows \in Seq(Row) /\ r.amount \in Nat /\ Len(rows) \in Nat
        /\ rows'[Len(rows) + 1] = r
    BY TakeRow, RowsType DEF LotsOK
  <1>2. Priced(rows) /\ r.price \in Nat /\ Covered(rows) /\ FlowAt(rows', 1) >= 0
    BY <1>1, WorthAppend, CoveredPrefix DEF Sound
  <1>3. r.price # NoPrice
    BY <1>1 DEF Sound, Priced
  <1>4. Sound(rows)
    BY <1>2 DEF Sound
  <1>5. \A a : WorthSum(rows', a) = WorthSum(rows, a) + (IF r.action = a THEN r.amount * r.price ELSE 0)
    BY <1>1, WorthAppend DEF Sound, WorthSum
  <1>6. \A a : /\ Worth(a) \in Int
               /\ Worth(a)' = Worth(a) + (IF r.action = a THEN r.amount * r.price ELSE 0)
    BY <1>1, <1>4, <1>5, SoundRows
  <1>7. AllPriced /\ AllPriced'
    BY <1>1, <1>4, SoundRows
  <1> QED
    BY <1>1, <1>2, <1>3, <1>4, <1>6, <1>7, TakeHeld, OpenSums

\* What is still to be withdrawn, at the gain over p.
Pending(p) == IF cursor = 0 THEN 0 ELSE left * (rows[Len(rows)].price - p)

MoneyInv ==
  Sound(rows) => fifo = Worth("out") - Pending(0) - (Worth("in") - HeldCost)

LEMMA MoneyTake ==
  ASSUME FifoInv, FlowInv, MoneyInv, NEW r \in Row, TakeDeposit(r) \/ TakeWithdrawal(r)
  PROVE  MoneyInv'
  <1> SUFFICES ASSUME Sound(rows')
               PROVE  fifo' = Worth("out")' - Pending(0)' - (Worth("in")' - HeldCost')
    BY DEF MoneyInv
  <1> DEFINE x == r.amount * r.price
  <1>1. /\ Sound(rows) /\ r.price \in Nat /\ r.amount \in Nat /\ HeldCost \in Int
        /\ Worth("in") \in Int /\ Worth("out") \in Int
        /\ Worth("in")'  = Worth("in")  + (IF r.action = "in" THEN x ELSE 0)
        /\ Worth("out")' = Worth("out") + (IF r.action = "out" THEN x ELSE 0)
        /\ HeldCost' = HeldCost + (IF r.action = "in" THEN x ELSE 0)
    BY TakeWorth
  <1>2. x \in Int
    BY <1>1
  <1>3. fifo \in Int /\ cursor = 0 /\ rows'[Len(rows')] = r
    BY TakeRow DEF LotsOK
  <1>4. fifo = Worth("out") - (Worth("in") - HeldCost)
    BY <1>1, <1>3 DEF MoneyInv, Pending
  <1>5. CASE TakeDeposit(r)
    <2>1. fifo' = fifo /\ Pending(0)' = 0 /\ r.action = "in"
      BY <1>3, <1>5 DEF TakeDeposit, Pending
    <2> HIDE DEF x
    <2> QED
      BY <1>1, <1>2, <1>4, <2>1
  <1>6. CASE TakeWithdrawal(r)
    <2>1. fifo' = fifo /\ Pending(0)' = r.amount * (r.price - 0) /\ r.action = "out"
      BY <1>3, <1>6 DEF TakeWithdrawal, Pending
    <2>2. Pending(0)' = x
      BY <1>1, <2>1
    <2> HIDE DEF x
    <2> QED
      BY <1>1, <1>2, <1>4, <2>1, <2>2
  <1> QED
    BY <1>5, <1>6

\* What a round of the loop books, with all prices known.
LEMMA ConsumeWorth ==
  ASSUME FifoInv, FlowInv, ConsumeLot, Sound(rows)
  PROVE  /\ rows[Len(rows)].price \in Nat /\ rows[cursor].price \in Nat
         /\ fifo \in Int /\ left \in Nat /\ Drawn \in Nat /\ left' = left - Drawn
         /\ cursor > 0 /\ cursor' > 0 /\ rows' = rows /\ wac' = wac
         /\ cursor \in 1 .. Len(rows) /\ rows[cursor].action = "in"
         /\ fifo' = fifo + (rows[Len(rows)].price - rows[cursor].price) * Drawn
  <1>1. /\ LotsOK /\ rows' = rows /\ wac' = wac /\ cursor \in 1 .. Len(rows) /\ cursor' = cursor + 1
        /\ Drawn \in Nat /\ left' = left - Drawn /\ fifo' = fifo + Gain(cursor, Drawn)
        /\ rows[cursor].action = "in"
    BY ConsumeRound
  <1>2. Len(rows) \in 1 .. Len(rows) /\ left \in Nat /\ fifo \in Int
    BY <1>1, RowsType DEF LotsOK
  <1>3. \A i \in 1 .. Len(rows) : rows[i].price # NoPrice /\ rows[i].price \in Nat
    BY <1>1, RowsType DEF Sound, Priced
  <1>4. Gain(cursor, Drawn) = (rows[Len(rows)].price - rows[cursor].price) * Drawn
    BY <1>1, <1>2, <1>3 DEF Gain
  <1> QED
    BY <1>1, <1>2, <1>3, <1>4

LEMMA MoneyConsume ==
  ASSUME FifoInv, FlowInv, MoneyInv, ConsumeLot
  PROVE  MoneyInv'
  <1>1. LotsOK /\ LotsOK' /\ rows' = rows
    BY ConsumeRound
  <1> SUFFICES ASSUME Sound(rows)
               PROVE  fifo' = Worth("out")' - Pending(0)' - (Worth("in")' - HeldCost')
    BY <1>1 DEF MoneyInv
  <1> DEFINE w == rows[Len(rows)].price
             q == rows[cursor].price
             c == Drawn
  <1>2. /\ w \in Nat /\ q \in Nat /\ c \in Nat /\ left \in Nat /\ left' = left - c
        /\ cursor # 0 /\ cursor' # 0 /\ fifo' = fifo + (w - q) * c
    BY ConsumeWorth
  <1>3. /\ AllPriced /\ Worth("in") \in Int /\ Worth("out") \in Int /\ HeldCost \in Int
        /\ HeldCost' = HeldCost - c * q
    BY <1>1, SoundRows, OpenSums, ConsumeHeld
  <1>4. Worth("in")' = Worth("in") /\ Worth("out")' = Worth("out")
    BY <1>1 DEF Worth
  <1>5. Pending(0) = left * (w - 0) /\ Pending(0)' = (left - c) * (w - 0)
    BY <1>1, <1>2 DEF Pending
  <1>6. fifo = Worth("out") - Pending(0) - (Worth("in") - HeldCost)
    BY DEF MoneyInv
  <1> HIDE DEF w, q, c
  <1>7. /\ left * (w - 0) = left * w /\ left * w \in Int /\ c * q \in Int /\ w * c \in Int
        /\ (left - c) * (w - 0) = left * w - w * c
        /\ (w - q) * c = w * c - c * q
    BY <1>2
  <1> QED
    BY <1>2, <1>3, <1>4, <1>5, <1>6, <1>7

\* With nothing overdrawn the loop ends with nothing left to withdraw.
LEMMA NothingLeft ==
  ASSUME FifoInv, FlowInv, EndWithdrawal, Sound(rows)
  PROVE  left = 0
  <1>1. LotsOK /\ left \in Nat /\ cursor > 0 /\ rows # <<>> /\ rows \in Seq(Row)
    BY DEF FifoInv, LotsOK, FlowInv, EndWithdrawal
  <1>2. Len(rows) \in 1 .. Len(rows) /\ 1 \in Starts
    BY <1>1 DEF Starts
  <1>3. FlowAt(rows, 1) >= 0 /\ FlowAt(rows, 1) \in Int
    BY <1>1, <1>2, FlowAtType DEF Sound, Covered, FlowAt
  <1>4. Held - left >= FlowAt(rows, 1)
    BY <1>2 DEF FlowInv
  <1>5. left > 0 => Held = 0
    BY NothingHeld
  <1> QED
    BY <1>1, <1>3, <1>4, <1>5

LEMMA MoneyStep == FifoInv /\ FlowInv /\ MoneyInv /\ [Next]_vars => MoneyInv'
  <1> SUFFICES ASSUME FifoInv, FlowInv, MoneyInv, [Next]_vars PROVE MoneyInv'
    OBVIOUS
  <1>1. CASE \E r \in Row : TakeDeposit(r) \/ TakeWithdrawal(r)
    BY <1>1, MoneyTake
  <1>2. CASE ConsumeLot
    BY <1>2, MoneyConsume
  <1>3. CASE PassLot
    <2>1. /\ UNCHANGED <<rows, remaining, left, fifo>> /\ cursor # 0 /\ cursor' # 0
      BY <1>3 DEF PassLot, InLoop, FifoInv, LotsOK
    <2> QED
      BY <2>1 DEF MoneyInv, Worth, Pending, HeldCost
  <1>4. CASE EndWithdrawal
    <2>1. UNCHANGED <<rows, remaining, fifo>> /\ cursor # 0 /\ cursor' = 0
      BY <1>4 DEF EndWithdrawal
    <2> SUFFICES ASSUME Sound(rows)
                 PROVE  fifo' = Worth("out")' - Pending(0)' - (Worth("in")' - HeldCost')
      BY <2>1 DEF MoneyInv
    <2>2. left = 0
      BY <1>4, NothingLeft
    <2>3. Pending(0) = 0 * (rows[Len(rows)].price - 0) /\ rows[Len(rows)].price \in Nat
      <3>1. LotsOK /\ Len(rows) \in 1 .. Len(rows)
        BY <2>1 DEF FifoInv, LotsOK, FlowInv
      <3>2. rows[Len(rows)].price \in Nat
        BY <3>1, RowsType DEF Sound, Priced
      <3> QED
        BY <2>1, <2>2, <3>2 DEF Pending
    <2>4. Pending(0) = 0 /\ Pending(0)' = 0
      BY <2>1, <2>3 DEF Pending
    <2> QED
      BY <2>1, <2>4 DEF MoneyInv, Worth, HeldCost
  <1>5. CASE UNCHANGED vars
    BY <1>5 DEF vars, MoneyInv, Worth, Pending, HeldCost
  <1> QED
    BY <1>1, <1>2, <1>3, <1>4, <1>5 DEF Next

\* FIFO neither makes nor loses money: whatever the prices, what withdrawals
\* brought in is what their deposits cost and the realised gain.
THEOREM FifoConserves == Spec => []FifoConservesPnl
  <1>1. FifoInv /\ Init => MoneyInv
    <2> SUFFICES ASSUME FifoInv, Init PROVE MoneyInv
      OBVIOUS
    <2>1. LotsOK /\ rows = <<>> /\ cursor = 0 /\ fifo = 0 /\ Len(rows) = 0 /\ 1 .. 0 = {}
      BY DEF Init, FifoInv
    <2>2. IsFiniteSet({}) /\ \A f : SumOf(f, {}) = 0
      <3>1. IsFiniteSet({})
        BY FS_EmptySet
      <3>2. ASSUME NEW f PROVE SumOf(f, {}) = 0
        BY <3>1, SumZero
      <3> QED
        BY <3>1, <3>2
    <2>3. Sound(rows) /\ HeldCost = 0 /\ Pending(0) = 0 /\ \A a : WorthSum(rows, a) = 0
      BY <2>1, <2>2 DEF Sound, Priced, Covered, HeldCost, Pending, WorthSum
    <2>4. \A a : Worth(a) = 0
      <3>1. rows \in Seq(Row)
        BY <2>1 DEF LotsOK
      <3>2. \A a : Worth(a) = WorthSum(rows, a)
        BY <2>3, <3>1, WorthIsSum DEF Worth, WorthSum, Sound
      <3> QED
        BY <2>3, <3>2
    <2> QED
      BY <2>1, <2>3, <2>4 DEF MoneyInv
  <1>2. FifoInv /\ FifoInv' /\ MoneyInv => FifoConservesPnl
    <2> SUFFICES ASSUME FifoInv, FifoInv', MoneyInv, cursor = 0, AllPriced, NeverOverdrawn
                 PROVE  fifo = Worth("out") - (Worth("in") - CostBasis)
      BY DEF FifoConservesPnl
    <2>1. LotsOK /\ LotsOK' /\ fifo \in Int
      BY DEF FifoInv, LotsOK
    <2>2. Sound(rows) /\ Worth("in") \in Int /\ Worth("out") \in Int
      BY <2>1, SoundRows
    <2>3. CostBasis = HeldCost /\ HeldCost \in Int
      BY <2>1, OpenSums DEF CostBasis
    <2>4. fifo = Worth("out") - 0 - (Worth("in") - HeldCost)
      BY <2>2 DEF MoneyInv, Pending
    <2> QED
      BY <2>2, <2>3, <2>4
  <1> QED
    BY <1>1, <1>2, FifoInvHolds, FlowInvHolds, MoneyStep, PTL DEF Spec

-----------------------------------------------------------------------------
(* One price.                                                              *)

LEMMA ExactDivision ==
  ASSUME NEW x \in Int, NEW h \in Nat, h > 0
  PROVE  (x * h) \div h = x
  <1> DEFINE q == (x * h) \div h
  <1>1. x * h \in Int /\ q \in Int /\ h * q <= x * h /\ x * h < h * q + h
    BY Z3
  <1> HIDE DEF q
  <1>2. q = x
    <2>1. CASE q < x
      <3>1. q + 1 <= x
        BY <1>1, <2>1
      <3>2. h * (q + 1) <= h * x
        BY <1>1, <3>1
      <3>3. h * (q + 1) = h * q + h /\ h * x = x * h
        BY <1>1
      <3> QED
        BY <1>1, <3>2, <3>3
    <2>2. CASE q > x
      <3>1. h * (x + 1) <= h * q
        BY <1>1, <2>2
      <3>2. h * (x + 1) = x * h + h
        BY <1>1
      <3> QED
        BY <1>1, <3>1, <3>2
    <2> QED
      BY <1>1, <2>1, <2>2
  <1> QED
    BY <1>2 DEF q

\* Every deposit of rs was bought at p.
BoughtAt(rs, p) == \A i \in 1 .. Len(rs) : rs[i].action = "in" => rs[i].price = p

AgreeInv ==
  Sound(rows) => \A p \in Nat : BoughtAt(rows, p) => wac = (fifo + Pending(p)) * Scale

\* What is held cost p apiece.
LEMMA CostAtOnePrice ==
  ASSUME LotsOK, Sound(rows), NEW p \in Nat, BoughtAt(rows, p)
  PROVE  HeldCost = p * Held
  <1> DEFINE D == 1 .. Len(rows)
             h == HeldOf(rows, remaining)
             k == HeldCostOf(rows, remaining)
  <1>1. IsFiniteSet(D) /\ \A i \in D : remaining[i] \in Nat
    BY RowsType
  <1>2. \A i \in D : /\ h[i] = (IF rows[i].action = "in" THEN remaining[i] ELSE 0) /\ h[i] \in Int
                     /\ k[i] = (IF rows[i].action = "in" THEN remaining[i] * rows[i].price ELSE 0)
    BY HeldType DEF LotsOK
  <1> HIDE DEF h, k
  <1>3. \A i \in D : k[i] = p * h[i]
    <2> SUFFICES ASSUME NEW i \in D PROVE k[i] = p * h[i]
      OBVIOUS
    <2>1. CASE rows[i].action = "in"
      BY <1>1, <1>2, <2>1 DEF BoughtAt
    <2>2. CASE rows[i].action # "in"
      BY <1>2, <2>2
    <2> QED
      BY <2>1, <2>2
  <1>4. SumOf(k, D) = p * SumOf(h, D)
    <2> HIDE DEF D
    <2>1. p \in Int
      OBVIOUS
    <2>2. IsFiniteSet(D)
      BY <1>1
    <2>3. IsMultiple(k, h, p, D)
      BY <1>2, <1>3 DEF IsMultiple
    <2> QED
      BY <2>1, <2>2, <2>3, SumScale
  <1> QED
    BY <1>4 DEF Held, HeldCost, D, h, k

LEMMA AgreeTake ==
  ASSUME FifoInv, FlowInv, AgreeInv, NEW r \in Row, TakeDeposit(r) \/ TakeWithdrawal(r),
         wac \in Int
  PROVE  AgreeInv'
  <1> SUFFICES ASSUME Sound(rows'), NEW p \in Nat, BoughtAt(rows', p)
               PROVE  wac' = (fifo' + Pending(p)') * Scale
    BY DEF AgreeInv
  <1> DEFINE n == Len(rows)
  <1>1. /\ LotsOK /\ cursor = 0 /\ rows' = Append(rows, r) /\ Len(rows') = n + 1 /\ n \in Nat
        /\ rows'[n + 1] = r /\ (\A i \in 1 .. n : rows'[i] = rows[i]) /\ rows \in Seq(Row)
    BY TakeRow, RowsType DEF LotsOK
  <1>2. /\ Sound(rows) /\ r.price \in Nat /\ r.price # NoPrice /\ r.amount \in Nat
        /\ FlowAt(rows', 1) >= 0
    BY TakeWorth
  <1>3. BoughtAt(rows, p)
    BY <1>1 DEF BoughtAt
  <1>4. wac = fifo * Scale /\ fifo \in Int /\ Scale \in Nat
    <2>1. wac = (fifo + 0) * Scale
      BY <1>1, <1>2, <1>3 DEF AgreeInv, Pending
    <2> QED
      BY <1>1, <2>1, MaxRowsAssumption DEF LotsOK
  <1>5. CASE TakeDeposit(r)
    <2>1. wac' = wac /\ fifo' = fifo /\ Pending(p)' = 0
      BY <1>1, <1>5 DEF TakeDeposit, Pending
    <2> QED
      BY <1>4, <2>1
  <1>6. CASE TakeWithdrawal(r)
    <2>1. /\ wac' = wac + WacGain(r) /\ fifo' = fifo /\ r.action = "out"
          /\ Pending(p)' = r.amount * (r.price - p)
      BY <1>1, <1>6 DEF TakeWithdrawal, Pending
    <2>2. OpenAmount = Held /\ Held \in Nat /\ OpenCost = p * Held
      <3>1. AllPriced
        BY <1>1, <1>2 DEF AllPriced, Sound, Priced, LotsOK
      <3> QED
        BY <1>1, <1>2, <1>3, <3>1, OpenSums, CostAtOnePrice
    <2>3. WacGain(r) = r.amount * (r.price - p) * Scale
      <3>1. CASE Held = 0
        <4>1. 1 \in 1 .. n + 1 /\ 1 \in Starts
          BY <1>1 DEF Starts
        <4>2. FlowAt(rows', 1) = FlowAt(rows, 1) + Signed(r) /\ FlowAt(rows, 1) \in Int
          BY <1>1, <4>1, FlowAppend, FlowAtType
        <4>3. Signed(r) = - r.amount
          BY <2>1 DEF Signed
        <4>4. Held - 0 >= FlowAt(rows, 1)
          BY <1>1, <4>1 DEF FlowInv
        <4>5. r.amount = 0
          BY <1>2, <3>1, <4>2, <4>3, <4>4
        <4>6. WacGain(r) = 0
          BY <2>2, <3>1 DEF WacGain
        <4> QED
          BY <1>2, <1>4, <4>5, <4>6
      <3>2. CASE Held # 0
        <4> DEFINE x == r.amount * (r.price - p) * Scale
        <4>1. WacGain(r) = ((r.price * Held - p * Held) * r.amount * Scale) \div Held
          BY <1>2, <2>2, <3>2 DEF WacGain
        <4>2. x \in Int /\ (r.price * Held - p * Held) * r.amount * Scale = x * Held
          <5> DEFINE u == r.price
                     a == r.amount
          <5>1. u \in Int /\ a \in Int /\ p \in Int /\ Scale \in Int /\ Held \in Int
            BY <1>2, <1>4, <2>2
          <5> HIDE DEF u, a
          <5>2. u * Held - p * Held = (u - p) * Held
            BY <5>1
          <5>3. ((u - p) * Held) * a * Scale = (a * (u - p) * Scale) * Held
            BY <5>1
          <5>4. (u * Held - p * Held) * a * Scale = (a * (u - p) * Scale) * Held
            BY <5>2, <5>3
          <5>5. a * (u - p) * Scale \in Int
            BY <5>1
          <5> QED
            BY <5>4, <5>5 DEF u, a
        <4> HIDE DEF x
        <4>3. Held > 0
          BY <2>2, <3>2
        <4>4. (x * Held) \div Held = x
          BY <2>2, <4>2, <4>3, ExactDivision
        <4> QED
          BY <4>1, <4>2, <4>4 DEF x
      <3> QED
        BY <3>1, <3>2
    <2> DEFINE y == r.amount * (r.price - p)
    <2>4. y \in Int
      BY <1>2
    <2>5. wac' = fifo * Scale + y * Scale /\ fifo' + Pending(p)' = fifo + y
      BY <1>4, <2>1, <2>3
    <2> HIDE DEF y
    <2>6. (fifo + y) * Scale = fifo * Scale + y * Scale
      BY <1>4, <2>4
    <2> QED
      BY <2>5, <2>6
  <1> QED
    BY <1>5, <1>6

LEMMA AgreeConsume ==
  ASSUME FifoInv, FlowInv, AgreeInv, ConsumeLot
  PROVE  AgreeInv'
  <1>1. rows' = rows /\ wac' = wac
    BY ConsumeRound
  <1> SUFFICES ASSUME Sound(rows), NEW p \in Nat, BoughtAt(rows, p)
               PROVE  wac' = (fifo' + Pending(p)') * Scale
    BY <1>1 DEF AgreeInv
  <1> DEFINE w == rows[Len(rows)].price
             c == Drawn
  <1>2. /\ w \in Nat /\ c \in Nat /\ left \in Nat /\ left' = left - c /\ fifo \in Int
        /\ cursor # 0 /\ cursor' # 0
        /\ cursor \in 1 .. Len(rows) /\ rows[cursor].action = "in"
        /\ fifo' = fifo + (w - rows[cursor].price) * c
    BY ConsumeWorth
  <1>3. rows[cursor].price = p
    BY <1>2 DEF BoughtAt
  <1>4. Pending(p) = left * (w - p) /\ Pending(p)' = (left - c) * (w - p)
    BY <1>1, <1>2 DEF Pending
  <1>5. wac = (fifo + Pending(p)) * Scale
    BY DEF AgreeInv
  <1> HIDE DEF w, c
  <1>6. /\ (left - c) * (w - p) = left * (w - p) - (w - p) * c
        /\ left * (w - p) \in Int /\ (w - p) * c \in Int
    BY <1>2
  <1>7. fifo' + Pending(p)' = fifo + Pending(p)
    BY <1>2, <1>3, <1>4, <1>6
  <1> QED
    BY <1>1, <1>5, <1>7

LEMMA AgreeStep == FifoInv /\ FlowInv /\ TypeOK /\ AgreeInv /\ [Next]_vars => AgreeInv'
  <1> SUFFICES ASSUME FifoInv, FlowInv, TypeOK, AgreeInv, [Next]_vars PROVE AgreeInv'
    OBVIOUS
  <1>1. CASE \E r \in Row : TakeDeposit(r) \/ TakeWithdrawal(r)
    <2>1. wac \in Int
      BY DEF TypeOK
    <2> QED
      BY <1>1, <2>1, AgreeTake
  <1>2. CASE ConsumeLot
    BY <1>2, AgreeConsume
  <1>3. CASE PassLot
    <2>1. /\ UNCHANGED <<rows, left, fifo, wac>> /\ cursor # 0 /\ cursor' # 0
      BY <1>3 DEF PassLot, InLoop, FifoInv, LotsOK
    <2> QED
      BY <2>1 DEF AgreeInv, Pending
  <1>4. CASE EndWithdrawal
    <2>1. UNCHANGED <<rows, fifo, wac>> /\ cursor # 0 /\ cursor' = 0
      BY <1>4 DEF EndWithdrawal
    <2> SUFFICES ASSUME Sound(rows), NEW p \in Nat, BoughtAt(rows, p)
                 PROVE  wac' = (fifo' + Pending(p)') * Scale
      BY <2>1 DEF AgreeInv
    <2>2. left = 0
      BY <1>4, NothingLeft
    <2>3. rows[Len(rows)].price \in Nat
      <3>1. LotsOK /\ Len(rows) \in 1 .. Len(rows)
        BY <2>1 DEF FifoInv, LotsOK, FlowInv
      <3> QED
        BY <3>1, RowsType DEF Sound, Priced
    <2>4. Pending(p) = 0 * (rows[Len(rows)].price - p)
      BY <2>1, <2>2 DEF Pending
    <2>5. Pending(p) = 0 /\ Pending(p)' = 0
      BY <2>1, <2>3, <2>4 DEF Pending
    <2> QED
      BY <2>1, <2>5 DEF AgreeInv
  <1>5. CASE UNCHANGED vars
    BY <1>5 DEF vars, AgreeInv, Pending
  <1> QED
    BY <1>1, <1>2, <1>3, <1>4, <1>5 DEF Next

\* Whatever was withdrawn, and at which price: when every deposit was bought at
\* one price the two methods have booked the same gain.
THEOREM MethodsAgree == Spec => []MethodsAgreeOnOnePrice
  <1>1. Init => AgreeInv
    BY MaxRowsAssumption DEF Init, AgreeInv, Pending
  <1>2. FifoInv /\ FifoInv' /\ AgreeInv => MethodsAgreeOnOnePrice
    <2> SUFFICES ASSUME FifoInv, FifoInv', AgreeInv, cursor = 0, AllPriced, NeverOverdrawn,
                        \A i, j \in DOMAIN rows :
                          rows[i].action = "in" /\ rows[j].action = "in"
                            => rows[i].price = rows[j].price
                 PROVE  wac = fifo * Scale
      BY DEF MethodsAgreeOnOnePrice
    <2>1. LotsOK /\ LotsOK' /\ fifo \in Int /\ DOMAIN rows = 1 .. Len(rows)
      BY DEF FifoInv, LotsOK
    <2>2. Sound(rows)
      BY <2>1, SoundRows
    <2>3. \E p \in Nat : BoughtAt(rows, p)
      <3>1. CASE \E i \in 1 .. Len(rows) : rows[i].action = "in"
        <4>1. PICK i \in 1 .. Len(rows) : rows[i].action = "in"
          BY <3>1
        <4>2. rows[i].price \in Nat
          BY <2>1, <2>2, RowsType DEF Sound, Priced
        <4>3. BoughtAt(rows, rows[i].price)
          BY <2>1, <4>1 DEF BoughtAt
        <4> QED
          BY <4>2, <4>3
      <3>2. CASE \A i \in 1 .. Len(rows) : rows[i].action # "in"
        <4>1. BoughtAt(rows, 0)
          BY <3>2 DEF BoughtAt
        <4> QED
          BY <4>1
      <3> QED
        BY <3>1, <3>2
    <2>4. wac = (fifo + 0) * Scale
      BY <2>2, <2>3 DEF AgreeInv, Pending
    <2> QED
      BY <2>1, <2>4
  <1> QED
    BY <1>1, <1>2, AgreeStep, FifoInvHolds, FlowInvHolds, LotTypes, PTL DEF Spec

-----------------------------------------------------------------------------
(* The closed form.                                                        *)

\* LotAccounting and DataLemmas speak of one Replay.
LEMMA OneReplay == ASSUME NEW rs PROVE F!Replay(rs) = Replay(rs)
  BY DEF F!Replay, Replay, F!Withdraw, Withdraw, F!AtLeastZero, AtLeastZero, F!SumOf, SumOf,
         F!FoldLeft, FoldLeft, F!MapThenFoldSet, MapThenFoldSet,
         F!SumFunctionOnSet, SumFunctionOnSet, F!FoldFunctionOnSet, FoldFunctionOnSet, F!Max, Max

\* What was left of each row when the loop began.
WasOf(rs, c) == IF c = 0 THEN Replay(rs) ELSE Append(Replay(SubSeq(rs, 1, Len(rs) - 1)), 0)
Was == WasOf(rows, cursor)

\* What lots before the i-th could not cover of a withdrawal of w.
Unmet(was, w, i) == AtLeastZero(w - SumOf(was, 1 .. i - 1))

\* What is left of lot i, c being the lot the loop is at.
LeftOf(was, w, c, i) == IF i < c THEN AtLeastZero(was[i] - Unmet(was, w, i)) ELSE was[i]

ReplayInv ==
  /\ \A i \in 1 .. Len(rows) : rows[i].action = "in" =>
       remaining[i] = LeftOf(Was, rows[Len(rows)].amount, cursor, i)
  /\ cursor > 0 => left = Unmet(Was, rows[Len(rows)].amount, cursor)

LEMMA RowAmounts == \A r \in Row : r.amount \in Nat
  BY DEF Row

\* Between rows it is the replay, and in the loop that of the rows before.
LEMMA WasType ==
  ASSUME NEW rs \in Seq(Row), NEW c \in Nat, c > 0 => rs # <<>> /\ rs[Len(rs)].action = "out"
  PROVE  /\ WasOf(rs, c) \in Seq(Nat) /\ Len(WasOf(rs, c)) = Len(rs)
         /\ \A i \in 1 .. Len(rs) : rs[i].action # "in" => WasOf(rs, c)[i] = 0
         /\ c > 0 => Replay(rs) = Append(Withdraw(Replay(SubSeq(rs, 1, Len(rs) - 1)), rs[Len(rs)].amount), 0)
  <1>1. CASE c = 0
    BY <1>1, RowAmounts, ReplayType DEF WasOf
  <1>2. CASE c > 0
    <2> DEFINE front == SubSeq(rs, 1, Len(rs) - 1)
               r == rs[Len(rs)]
               was == Replay(front)
    <2>1. /\ front \in Seq(Row) /\ Len(front) = Len(rs) - 1 /\ r \in Row /\ rs = Append(front, r)
          /\ Len(rs) \in Nat /\ r.action = "out" /\ Len(rs) > 0
          /\ \A i \in 1 .. Len(rs) - 1 : front[i] = rs[i]
      <3>1. rs # <<>> /\ r.action = "out"
        BY <1>2
      <3> QED
        BY <3>1, FrontLast
    <2> HIDE DEF front, r
    <2>2. /\ was \in Seq(Nat) /\ Len(was) = Len(rs) - 1
          /\ \A i \in 1 .. Len(rs) - 1 : rs[i].action # "in" => was[i] = 0
      BY <2>1, RowAmounts, ReplayType
    <2>3. Replay(rs) = Append(Withdraw(was, r.amount), 0)
      BY <2>1, RowAmounts, ReplayAppend DEF ReplayStep
    <2>4. WasOf(rs, c) = Append(was, 0)
      BY <1>2 DEF WasOf, front
    <2> HIDE DEF was
    <2>5. WasOf(rs, c) \in Seq(Nat) /\ Len(WasOf(rs, c)) = Len(rs)
      BY <2>1, <2>2, <2>4
    <2>6. ASSUME NEW i \in 1 .. Len(rs), rs[i].action # "in" PROVE WasOf(rs, c)[i] = 0
      <3>1. CASE i = Len(rs)
        BY <2>1, <2>2, <2>4, <3>1
      <3>2. CASE i \in 1 .. Len(rs) - 1
        BY <2>2, <2>4, <2>6, <3>2
      <3> QED
        BY <2>1, <3>1, <3>2
    <2> QED
      BY <2>3, <2>5, <2>6 DEF front, r, was
  <1> QED
    BY <1>1, <1>2

\* One lot further.
LEMMA UnmetNext ==
  ASSUME NEW was \in Seq(Nat), NEW w \in Nat, NEW i \in 1 .. Len(was)
  PROVE  /\ Unmet(was, w, i) \in Nat
         /\ Unmet(was, w, 1) = w
         /\ Unmet(was, w, i + 1) = AtLeastZero(Unmet(was, w, i) - was[i])
  <1>1. \A j \in 1 .. Len(was) : was[j] \in Nat
    OBVIOUS
  <1>2. IsFiniteSet(1 .. i - 1) /\ IsFiniteSet(1 .. i) /\ i \in Nat /\ i >= 1
    BY FS_Interval
  <1>3. \A j \in 1 .. i : was[j] \in Int /\ was[j] >= 0
    BY <1>1
  <1>4. SumOf(was, 1 .. i - 1) \in Nat
    <2>1. \A j \in 1 .. i - 1 : was[j] \in Int /\ was[j] >= 0
      BY <1>3
    <2> QED
      BY <1>2, <2>1, SumType
  <1>5. SumOf(was, 1 .. i) = SumOf(was, 1 .. i - 1) + was[i]
    <2> DEFINE n == i - 1
    <2>1. 1 \in Int /\ n \in Int /\ 1 <= n + 1 /\ n + 1 = i
      BY <1>2
    <2>2. \A j \in 1 .. n + 1 : was[j] \in Int
      BY <1>3, <2>1
    <2> HIDE DEF n
    <2>3. SumOf(was, 1 .. n + 1) = SumOf(was, 1 .. n) + was[n + 1]
      BY <2>1, <2>2, SumNext
    <2> QED
      BY <2>1, <2>3 DEF n
  <1>6. Unmet(was, w, 1) = w
    <2>1. 1 .. 1 - 1 = {} /\ IsFiniteSet({})
      BY FS_EmptySet
    <2>2. SumOf(was, 1 .. 1 - 1) = 0
      BY <2>1, SumZero
    <2> QED
      BY <2>2 DEF Unmet, AtLeastZero
  <1>7. (i + 1) - 1 = i /\ was[i] \in Nat
    BY <1>1, <1>2
  <1> DEFINE before == SumOf(was, 1 .. i - 1)
             upto == SumOf(was, 1 .. i)
             lot == was[i]
  <1>8. Unmet(was, w, i) = (IF w - before < 0 THEN 0 ELSE w - before)
    BY DEF Unmet, AtLeastZero
  <1>9. Unmet(was, w, i + 1) = (IF w - upto < 0 THEN 0 ELSE w - upto)
    BY <1>7 DEF Unmet, AtLeastZero
  <1>10. before \in Nat /\ lot \in Nat /\ upto = before + lot
    BY <1>4, <1>5, <1>7
  <1>11. AtLeastZero(Unmet(was, w, i) - was[i])
           = (IF Unmet(was, w, i) - lot < 0 THEN 0 ELSE Unmet(was, w, i) - lot)
    BY DEF AtLeastZero
  <1> HIDE DEF before, upto, lot
  <1>12. Unmet(was, w, i) \in Nat
    BY <1>8, <1>10
  <1>13. Unmet(was, w, i + 1) = AtLeastZero(Unmet(was, w, i) - was[i])
    BY <1>8, <1>9, <1>10, <1>11
  <1> QED
    BY <1>6, <1>12, <1>13

\* Lots further on are not needed for more.
LEMMA UnmetShrinks ==
  ASSUME NEW was \in Seq(Nat), NEW w \in Nat, NEW i \in Nat, NEW j \in Nat,
         i <= j, j <= Len(was) + 1, Unmet(was, w, i) = 0
  PROVE  Unmet(was, w, j) = 0
  <1>0. 1 .. i - 1 \in SUBSET (1 .. j - 1)
    OBVIOUS
  <1>1. /\ IsFiniteSet(1 .. i - 1) /\ IsFiniteSet(1 .. j - 1)
        /\ 1 .. i - 1 \in SUBSET (1 .. j - 1)
    <2>1. 1 \in Int /\ i - 1 \in Int /\ j - 1 \in Int
      OBVIOUS
    <2>2. IsFiniteSet(1 .. i - 1) /\ IsFiniteSet(1 .. j - 1)
      BY <2>1, FS_Interval
    <2> QED
      BY <1>0, <2>2
  <1>2. \A k \in 1 .. j - 1 : was[k] \in Nat
    OBVIOUS
  <1>3. SumOf(was, 1 .. i - 1) <= SumOf(was, 1 .. j - 1)
    BY <1>1, <1>2, SumSubset
  <1>4. \A k \in 1 .. j - 1 : was[k] \in Int
    BY <1>2
  <1>5. \A k \in 1 .. i - 1 : was[k] \in Int
    BY <1>1, <1>2
  <1>6. SumOf(was, 1 .. i - 1) \in Int /\ SumOf(was, 1 .. j - 1) \in Int
    BY <1>1, <1>4, <1>5, SumType
  <1> QED
    BY <1>3, <1>6 DEF Unmet, AtLeastZero

LEMMA ReplayTake ==
  ASSUME FifoInv, FlowInv, ReplayInv, NEW r \in Row, TakeDeposit(r) \/ TakeWithdrawal(r)
  PROVE  ReplayInv'
  <1> DEFINE n == Len(rows)
             was == Replay(rows)
  <1>1. /\ LotsOK /\ cursor = 0 /\ rows' = Append(rows, r) /\ Len(rows') = n + 1 /\ n \in Nat
        /\ rows'[n + 1] = r /\ remaining'[n + 1] = r.amount /\ r.amount \in Nat
        /\ (\A i \in 1 .. n : rows'[i] = rows[i] /\ remaining'[i] = remaining[i])
        /\ rows \in Seq(Row)
    BY TakeRow, RowsType DEF LotsOK
  <1>2. was \in Seq(Nat) /\ Len(was) = n
    BY <1>1, RowAmounts, ReplayType
  <1>3. \A i \in 1 .. n : rows[i].action = "in" => remaining[i] = was[i]
    BY <1>1 DEF ReplayInv, Was, WasOf, LeftOf
  <1> HIDE DEF was, n
  <1>4. CASE TakeDeposit(r)
    <2>1. cursor' = 0 /\ r.action = "in"
      BY <1>1, <1>4 DEF TakeDeposit
    <2>2. Was' = Append(was, r.amount)
      <3>1. Replay(rows') = ReplayStep(was, r)
        BY <1>1, RowAmounts, ReplayAppend DEF was
      <3> QED
        BY <2>1, <3>1 DEF ReplayStep, Was, WasOf
    <2>3. ASSUME NEW i \in 1 .. n + 1, rows'[i].action = "in" PROVE remaining'[i] = Was'[i]
      <3>1. CASE i = n + 1
        BY <1>1, <1>2, <2>2, <3>1
      <3>2. CASE i \in 1 .. n
        <4>1. Was'[i] = was[i]
          BY <1>2, <2>2, <3>2
        <4> QED
          BY <1>1, <1>3, <2>3, <3>2, <4>1
      <3> QED
        BY <1>1, <3>1, <3>2
    <2> QED
      BY <1>1, <2>1, <2>3 DEF ReplayInv, LeftOf
  <1>5. CASE TakeWithdrawal(r)
    <2>1. cursor' = 1 /\ left' = r.amount /\ r.action = "out"
      BY <1>1, <1>5 DEF TakeWithdrawal
    <2>2. Was' = Append(was, 0)
      <3>1. SubSeq(rows', 1, Len(rows') - 1) = rows
        BY <1>1 DEF n
      <3>2. Was' = WasOf(rows', 1)
        BY <2>1 DEF Was
      <3>3. WasOf(rows', 1) = Append(Replay(SubSeq(rows', 1, Len(rows') - 1)), 0)
        BY DEF WasOf
      <3> QED
        BY <3>1, <3>2, <3>3 DEF was
    <2>3. Was' \in Seq(Nat) /\ Len(Was') = n + 1
      BY <1>2, <2>2
    <2>4. Unmet(Was', r.amount, 1) = r.amount
      <3>1. 1 \in 1 .. Len(Was')
        BY <1>1, <2>3
      <3> QED
        BY <1>1, <2>3, <3>1, UnmetNext
    <2>5. ASSUME NEW i \in 1 .. n + 1, rows'[i].action = "in" PROVE remaining'[i] = Was'[i]
      <3>1. i \in 1 .. n
        BY <1>1, <2>1, <2>5
      <3>2. Was'[i] = was[i]
        BY <1>2, <2>2, <3>1
      <3> QED
        BY <1>1, <1>3, <2>5, <3>1, <3>2
    <2> QED
      BY <1>1, <2>1, <2>4, <2>5 DEF ReplayInv, LeftOf
  <1> QED
    BY <1>4, <1>5

\* A round of the loop, whether it draws on the lot it is at or passes it.
LEMMA ReplayRound ==
  ASSUME FifoInv, FlowInv, ReplayInv, ConsumeLot \/ PassLot
  PROVE  ReplayInv'
  <1> DEFINE n == Len(rows)
             w == rows[n].amount
  <1>1. /\ LotsOK /\ rows' = rows /\ cursor \in 1 .. n /\ cursor' = cursor + 1 /\ left > 0
        /\ rows \in Seq(Row) /\ left \in Nat
    BY DEF FifoInv, LotsOK, ConsumeLot, PassLot, InLoop
  <1>2. /\ Was \in Seq(Nat) /\ Len(Was) = n /\ w \in Nat /\ Was[cursor] \in Nat
        /\ \A i \in 1 .. n : rows[i].action # "in" => Was[i] = 0
    <2>1. cursor \in Nat /\ n \in 1 .. n /\ (cursor > 0 => rows # <<>> /\ rows[Len(rows)].action = "out")
      BY <1>1 DEF FlowInv
    <2>2. w \in Nat
      BY <1>1, <2>1, RowsType
    <2>3. /\ Was \in Seq(Nat) /\ Len(Was) = n
          /\ \A i \in 1 .. n : rows[i].action # "in" => Was[i] = 0
      BY <1>1, <2>1, WasType DEF Was
    <2> QED
      BY <1>1, <2>2, <2>3
  <1>3. Was' = Was
    BY <1>1 DEF Was, WasOf
  <1>4. left = Unmet(Was, w, cursor)
    BY <1>1 DEF ReplayInv
  <1>5. /\ Unmet(Was, w, cursor + 1) = AtLeastZero(left - Was[cursor])
    BY <1>1, <1>2, <1>4, UnmetNext
  <1>6. /\ rows[cursor].action = "in" => remaining'[cursor] = AtLeastZero(Was[cursor] - left)
        /\ left' = AtLeastZero(left - Was[cursor])
        /\ \A i \in 1 .. n \ {cursor} : remaining'[i] = remaining[i]
    <2>1. rows[cursor].action = "in" => remaining[cursor] = Was[cursor]
      BY <1>1 DEF ReplayInv, LeftOf
    <2>2. CASE ConsumeLot
      <3>1. /\ rows[cursor].action = "in" /\ left' = left - Drawn
            /\ remaining'[cursor] = remaining[cursor] - Drawn
            /\ \A i \in 1 .. n \ {cursor} : remaining'[i] = remaining[i]
            /\ Drawn \in Nat /\ Drawn <= left /\ Drawn <= remaining[cursor]
            /\ Drawn = left \/ Drawn = remaining[cursor]
        BY <2>2, ConsumeRound
      <3>2. remaining[cursor] = Was[cursor]
        BY <2>1, <3>1
      <3> QED
        <4>1. remaining'[cursor] = AtLeastZero(Was[cursor] - left)
          BY <1>1, <1>2, <3>1, <3>2 DEF AtLeastZero
        <4>2. left' = AtLeastZero(left - Was[cursor])
          BY <1>1, <1>2, <3>1, <3>2 DEF AtLeastZero
        <4> QED
          BY <3>1, <4>1, <4>2
    <2>3. CASE PassLot
      <3>1. remaining' = remaining /\ left' = left /\ cursor \notin Open
        BY <2>3 DEF PassLot, Visit
      <3>2. rows[cursor].action = "in" => remaining[cursor] = 0
        BY <1>1, <3>1, RowsType DEF Open
      <3>3. Was[cursor] = 0
        BY <1>1, <1>2, <2>1, <3>2
      <3>4. left' = AtLeastZero(left - Was[cursor])
        BY <1>1, <3>1, <3>3 DEF AtLeastZero
      <3>5. rows[cursor].action = "in" => remaining'[cursor] = AtLeastZero(Was[cursor] - left)
        BY <1>1, <3>1, <3>2, <3>3 DEF AtLeastZero
      <3> QED
        BY <3>1, <3>4, <3>5
    <2> QED
      BY <2>2, <2>3
  <1> HIDE DEF n, w
  <1>7. ASSUME NEW i \in 1 .. n, rows[i].action = "in"
        PROVE  remaining'[i] = LeftOf(Was, w, cursor + 1, i)
    <2>1. remaining[i] = LeftOf(Was, w, cursor, i)
      BY <1>7 DEF ReplayInv, n, w
    <2>2. CASE i = cursor
      BY <1>1, <1>4, <1>6, <1>7, <2>2 DEF LeftOf
    <2>3. CASE i # cursor
      <3>1. i < cursor + 1 <=> i < cursor
        BY <1>1, <2>3
      <3> QED
        BY <1>6, <2>1, <2>3, <3>1 DEF LeftOf
    <2> QED
      BY <2>2, <2>3
  <1> QED
    BY <1>1, <1>3, <1>5, <1>6, <1>7 DEF ReplayInv, n, w

LEMMA ReplayEnd ==
  ASSUME FifoInv, FlowInv, ReplayInv, TypeOK, EndWithdrawal
  PROVE  ReplayInv'
  <1> DEFINE n == Len(rows)
             w == rows[n].amount
             was == Replay(SubSeq(rows, 1, n - 1))
  <1>1. /\ LotsOK /\ UNCHANGED <<rows, remaining>> /\ cursor' = 0 /\ cursor > 0 /\ cursor \in Nat
        /\ cursor <= n + 1 /\ rows \in Seq(Row) /\ left \in Nat /\ n \in Nat
        /\ rows # <<>> /\ rows[n].action = "out" /\ (cursor > n \/ left = 0)
    BY DEF FifoInv, LotsOK, TypeOK, FlowInv, EndWithdrawal, InLoop
  <1>2. /\ Was \in Seq(Nat) /\ Len(Was) = n
        /\ Replay(rows) = Append(Withdraw(was, w), 0)
    BY <1>1, WasType DEF Was
  <1>3. n >= 1 /\ n \in 1 .. n /\ w \in Nat
    BY <1>1, RowsType
  <1>4. Was = Append(was, 0)
    BY <1>1 DEF Was, WasOf
  <1>5. was \in Seq(Nat) /\ Len(was) = n - 1
    <2>1. SubSeq(rows, 1, n - 1) \in Seq(Row) /\ Len(SubSeq(rows, 1, n - 1)) = n - 1
      BY <1>1, FrontLast
    <2> QED
      BY <2>1, RowAmounts, ReplayType
  <1> HIDE DEF was
  <1>6. \A i \in 1 .. n - 1 : was[i] = Was[i] /\ Was[i] \in Nat
    BY <1>3, <1>4, <1>5
  <1>7. \A i \in 1 .. n - 1 : Replay(rows)[i] = AtLeastZero(Was[i] - Unmet(Was, w, i))
    <2> SUFFICES ASSUME NEW i \in 1 .. n - 1
                 PROVE  Replay(rows)[i] = AtLeastZero(Was[i] - Unmet(Was, w, i))
      OBVIOUS
    <2>1. /\ Withdraw(was, w) \in Seq(Nat) /\ Len(Withdraw(was, w)) = n - 1
          /\ Withdraw(was, w)[i] = AtLeastZero(was[i] - AtLeastZero(w - SumOf(was, 1 .. i - 1)))
      BY <1>3, <1>5, WithdrawType
    <2>2. SumOf(was, 1 .. i - 1) = SumOf(Was, 1 .. i - 1)
      <3>1. IsFiniteSet(1 .. i - 1)
        BY FS_Interval
      <3>2. \A j \in 1 .. i - 1 : was[j] = Was[j] /\ Was[j] \in Int
        BY <1>6
      <3> QED
        BY <3>1, <3>2, SumSame
    <2>3. Replay(rows)[i] = Withdraw(was, w)[i]
      BY <1>2, <2>1
    <2> QED
      BY <1>6, <2>1, <2>2, <2>3 DEF Unmet
  <1> HIDE DEF n, w
  <1>8. ASSUME NEW i \in 1 .. n, rows[i].action = "in" PROVE remaining[i] = Replay(rows)[i]
    <2>1. i \in 1 .. n - 1
      BY <1>1, <1>8
    <2>2. remaining[i] = LeftOf(Was, w, cursor, i)
      BY <1>8 DEF ReplayInv, n, w
    <2>3. CASE i < cursor
      BY <1>7, <2>1, <2>2, <2>3 DEF LeftOf
    <2>4. CASE cursor <= i
      <3>1. left = 0 /\ left = Unmet(Was, w, cursor)
        BY <1>1, <2>1, <2>4 DEF ReplayInv, n, w
      <3>2. i \in Nat /\ i <= Len(Was) + 1
        BY <1>1, <1>2, <2>1 DEF n
      <3>3. Unmet(Was, w, i) = 0
        BY <1>1, <1>2, <1>3, <2>4, <3>1, <3>2, UnmetShrinks
      <3>4. Replay(rows)[i] = Was[i]
        BY <1>6, <1>7, <2>1, <3>3 DEF AtLeastZero
      <3> QED
        BY <1>1, <2>1, <2>2, <2>4, <3>4 DEF LeftOf
    <2> QED
      BY <1>1, <2>1, <2>3, <2>4
  <1> QED
    BY <1>1, <1>8 DEF ReplayInv, LeftOf, Was, WasOf, n

LEMMA ReplayKept == FifoInv /\ FlowInv /\ TypeOK /\ ReplayInv /\ [Next]_vars => ReplayInv'
  <1> SUFFICES ASSUME FifoInv, FlowInv, TypeOK, ReplayInv, [Next]_vars PROVE ReplayInv'
    OBVIOUS
  <1>1. CASE \E r \in Row : TakeDeposit(r) \/ TakeWithdrawal(r)
    BY <1>1, ReplayTake
  <1>2. CASE ConsumeLot \/ PassLot
    BY <1>2, ReplayRound
  <1>3. CASE EndWithdrawal
    BY <1>3, ReplayEnd
  <1>4. CASE UNCHANGED vars
    BY <1>4 DEF vars, ReplayInv, Was
  <1> QED
    BY <1>1, <1>2, <1>3, <1>4 DEF Next

\* Between two rows the loop has left of every deposit what the closed form of
\* FIFO says, however many rows there were.
THEOREM LoopIsReplay == Spec => []RemainingIsReplay
  <1>1. Init => ReplayInv
    BY DEF Init, ReplayInv
  <1>2. FifoInv /\ ReplayInv => RemainingIsReplay
    <2> SUFFICES ASSUME FifoInv, ReplayInv, cursor = 0, NEW i \in DOMAIN rows,
                        rows[i].action = "in"
                 PROVE  remaining[i] = F!Replay(rows)[i]
      BY DEF RemainingIsReplay
    <2>1. i \in 1 .. Len(rows) /\ ~(i < 0)
      BY DEF FifoInv, LotsOK
    <2>2. remaining[i] = Replay(rows)[i]
      BY <2>1 DEF ReplayInv, Was, WasOf, LeftOf
    <2> QED
      BY <2>2, OneReplay
  <1> QED
    BY <1>1, <1>2, FifoInvHolds, FlowInvHolds, LotTypes, ReplayKept, PTL DEF Spec
=============================================================================
