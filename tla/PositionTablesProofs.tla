------------------------ MODULE PositionTablesProofs ------------------------
(***************************************************************************)
(* The tables of compute_positions, for any wallets, workers, amounts and  *)
(* bounds.                                                                 *)
(*                                                                         *)
(* TypeInv and ReadInv hold whatever the switches say.  LinkInv is about   *)
(* ids and needs calls for one wallet not to overlap; AmountsInv is about  *)
(* what was read and stored as beginnings of the chain, and needs a block  *)
(* to have one lot of a wallet; RemainsInv is about the remaining amounts  *)
(* and needs both.                                                         *)
(***************************************************************************)
EXTENDS PositionTables, DataLemmas

-----------------------------------------------------------------------------
(* The lots of a chain, in its order.                                      *)

Ascend(S) == CHOOSE s \in SetToSeqs(S) : IsAscending(s)

\* The lots of chain c in table t, in the order of the chain.
Owned(t, c) == {i \in DOMAIN t : t[i].owner = c}
Order(t, c) == Ascend(Owned(t, c))

\* The first n of them, and their rows.
LotsTo(t, c, n) == [i \in 1 .. n |-> Order(t, c)[i]]
RowsTo(t, c, n) == [i \in 1 .. n |-> t[Order(t, c)[i]]]

LEMMA OwnedType ==
  ASSUME NEW t \in Seq(Lot), NEW c
  PROVE  /\ Owned(t, c) \in SUBSET (1 .. Len(t)) /\ Owned(t, c) \in SUBSET Int
         /\ IsFiniteSet(Owned(t, c)) /\ Len(t) \in Nat /\ DOMAIN t = 1 .. Len(t)
<1>1. Len(t) \in Nat /\ DOMAIN t = 1 .. Len(t)
  OBVIOUS
<1>2. Owned(t, c) \in SUBSET (1 .. Len(t))
  BY <1>1 DEF Owned
<1>3. 1 \in Int /\ Len(t) \in Int
  BY <1>1
<1>4. IsFiniteSet(1 .. Len(t))
  BY <1>3, FS_Interval
<1>5. IsFiniteSet(Owned(t, c))
  BY <1>2, <1>4, FS_Subset
<1> QED
  BY <1>1, <1>2, <1>5

\* The order of a set of numbers is the only one that ascends.
LEMMA AscendType ==
  ASSUME NEW S \in SUBSET Int, IsFiniteSet(S)
  PROVE  /\ Ascend(S) \in SetToSeqs(S) /\ IsAscending(Ascend(S))
         /\ \A s \in SetToSeqs(S) : IsAscending(s) => s = Ascend(S)
<1>1. \E s \in SetToSeqs(S) : IsAscending(s)
  BY AscendingExists
<1>2. Ascend(S) \in SetToSeqs(S) /\ IsAscending(Ascend(S))
  BY <1>1 DEF Ascend
<1>3. \A s \in SetToSeqs(S) : IsAscending(s) => s = Ascend(S)
  BY <1>2, AscendingUnique
<1> QED
  BY <1>2, <1>3

LEMMA OrderType ==
  ASSUME NEW t \in Seq(Lot), NEW c
  PROVE  /\ Order(t, c) \in SetToSeqs(Owned(t, c)) /\ IsAscending(Order(t, c))
         /\ Order(t, c) \in Seq(1 .. Len(t)) /\ Len(Order(t, c)) \in Nat
         /\ DOMAIN Order(t, c) = 1 .. Len(Order(t, c))
         /\ \A i \in 1 .. Len(Order(t, c)) :
              /\ Order(t, c)[i] \in 1 .. Len(t) /\ t[Order(t, c)[i]] \in Lot
              /\ t[Order(t, c)[i]].owner = c
         /\ \A i, j \in 1 .. Len(Order(t, c)) : Order(t, c)[i] = Order(t, c)[j] => i = j
<1> DEFINE s == Order(t, c)
           S == Owned(t, c)
<1>1. S \in SUBSET (1 .. Len(t)) /\ S \in SUBSET Int /\ IsFiniteSet(S)
  BY OwnedType
<1> HIDE DEF S
<1>2. s \in SetToSeqs(S) /\ IsAscending(s)
  BY <1>1, AscendType DEF Order, S
<1> HIDE DEF s
<1>3. s \in Seq(S) /\ DOMAIN s = 1 .. Len(s) /\ \A i, j \in 1 .. Len(s) : s[i] = s[j] => i = j
  BY <1>1, <1>2, EnumerationType
<1>4. Len(s) \in Nat /\ \A i \in 1 .. Len(s) : s[i] \in S
  BY <1>3
<1>5. \A i \in 1 .. Len(s) : s[i] \in 1 .. Len(t)
  BY <1>1, <1>4
<1>6. s \in Seq(1 .. Len(t))
  BY <1>3, <1>5, SeqOfElements
<1>7. \A i \in 1 .. Len(s) : t[s[i]] \in Lot /\ t[s[i]].owner = c
  BY <1>4, <1>5 DEF S, Owned
<1> QED
  BY <1>2, <1>3, <1>4, <1>5, <1>6, <1>7 DEF s, S

\* A new lot comes last on its chain, and changes no other.
LEMMA OrderAppend ==
  ASSUME NEW t \in Seq(Lot), NEW l \in Lot, NEW c
  PROVE  Order(Append(t, l), c) = IF l.owner = c THEN Append(Order(t, c), Len(t) + 1)
                                                 ELSE Order(t, c)
<1> DEFINE u == Append(t, l)
           S == Owned(t, c)
           m == Len(t) + 1
<1>1. /\ Len(t) \in Nat /\ DOMAIN t = 1 .. Len(t) /\ u \in Seq(Lot) /\ DOMAIN u = 1 .. m
      /\ u[m] = l /\ \A i \in 1 .. Len(t) : u[i] = t[i]
  OBVIOUS
<1>2. S \in SUBSET (1 .. Len(t)) /\ S \in SUBSET Int /\ IsFiniteSet(S)
  BY OwnedType
<1>3. Owned(u, c) = IF l.owner = c THEN S \cup {m} ELSE S
  <2> HIDE DEF u
  <2> QED
    BY <1>1 DEF Owned
<1>4. m \in Int /\ \A x \in S : x < m
  BY <1>1, <1>2
<1> HIDE DEF u, S, m
<1>5. Order(t, c) \in SetToSeqs(S) /\ IsAscending(Order(t, c))
  BY OrderType DEF S
<1>6. CASE l.owner = c
  <2> DEFINE s == Append(Order(t, c), m)
             U == S \cup {m}
  <2>1. s \in SetToSeqs(U) /\ IsAscending(s)
    BY <1>2, <1>4, <1>5, AscendingAppend
  <2>2. U \in SUBSET Int /\ IsFiniteSet(U)
    BY <1>2, <1>4, FS_AddElement
  <2> HIDE DEF s, U
  <2>3. s = Ascend(U)
    BY <2>1, <2>2, AscendType
  <2>4. Order(u, c) = Ascend(U)
    BY <1>3, <1>6 DEF Order, U
  <2> QED
    BY <1>6, <2>3, <2>4 DEF s, u, m
<1>7. CASE l.owner # c
  BY <1>3, <1>7 DEF Order, u, S
<1> QED
  BY <1>6, <1>7

\* So the beginning of a chain stays what it is.
LEMMA PrefixStable ==
  ASSUME NEW t \in Seq(Lot), NEW l \in Lot, NEW c, NEW n \in Nat, n <= Len(Order(t, c))
  PROVE  /\ n <= Len(Order(Append(t, l), c))
         /\ LotsTo(Append(t, l), c, n) = LotsTo(t, c, n)
         /\ RowsTo(Append(t, l), c, n) = RowsTo(t, c, n)
<1> DEFINE u == Append(t, l)
           s == Order(t, c)
           v == Order(u, c)
<1>1. s \in Seq(1 .. Len(t)) /\ Len(s) \in Nat /\ \A i \in 1 .. Len(s) : s[i] \in 1 .. Len(t)
  BY OrderType
<1>2. Len(t) \in Nat /\ \A i \in 1 .. Len(t) : u[i] = t[i]
  OBVIOUS
<1>3. v = IF l.owner = c THEN Append(s, Len(t) + 1) ELSE s
  BY OrderAppend
<1> HIDE DEF u, s, v
<1>4. Len(v) >= Len(s) /\ \A i \in 1 .. Len(s) : v[i] = s[i]
  <2>1. CASE l.owner = c
    <3>1. v = Append(s, Len(t) + 1)
      BY <1>3, <2>1
    <3> QED
      BY <1>1, <3>1
  <2>2. CASE l.owner # c
    <3>1. v = s
      BY <1>3, <2>2
    <3> QED
      BY <1>1, <3>1
  <2> QED
    BY <2>1, <2>2
<1>5. n <= Len(s)
  BY DEF s
<1>6. Len(v) \in Nat
  <2>1. u \in Seq(Lot)
    BY DEF u
  <2> QED
    BY <2>1, OrderType DEF v
<1>7. n <= Len(v)
  BY <1>1, <1>4, <1>5, <1>6
<1>8. \A i \in 1 .. n : v[i] = s[i] /\ u[v[i]] = t[s[i]]
  <2> SUFFICES ASSUME NEW i \in 1 .. n PROVE v[i] = s[i] /\ u[v[i]] = t[s[i]]
    OBVIOUS
  <2>1. i \in 1 .. Len(s)
    BY <1>1, <1>5
  <2> QED
    BY <1>1, <1>2, <1>4, <2>1
<1>9. [i \in 1 .. n |-> v[i]] = [i \in 1 .. n |-> s[i]]
  BY <1>8
<1>10. [i \in 1 .. n |-> u[v[i]]] = [i \in 1 .. n |-> t[s[i]]]
  BY <1>8
<1> QED
  BY <1>7, <1>9, <1>10 DEF LotsTo, RowsTo, u, s, v

LEMMA RowsType ==
  ASSUME NEW t \in Seq(Lot), NEW c, NEW n \in Nat, n <= Len(Order(t, c))
  PROVE  /\ RowsTo(t, c, n) \in Seq(Lot) /\ Len(RowsTo(t, c, n)) = n
         /\ \A i \in 1 .. n : RowsTo(t, c, n)[i] = t[Order(t, c)[i]]
<1>1. Len(Order(t, c)) \in Nat /\ \A i \in 1 .. Len(Order(t, c)) : t[Order(t, c)[i]] \in Lot
  BY OrderType
<1>2. \A i \in 1 .. n : t[Order(t, c)[i]] \in Lot
  BY <1>1
<1> QED
  BY <1>2 DEF RowsTo

\* What is left of the beginning of a chain, and of a longer one.
LEMMA LeftType ==
  ASSUME NEW t \in Seq(Lot), NEW c, NEW n \in Nat, n <= Len(Order(t, c))
  PROVE  LET left == Replay(RowsTo(t, c, n))
         IN /\ left \in Seq(Nat) /\ Len(left) = n /\ SumOf(left, 1 .. n) \in Nat
            /\ \A i \in 1 .. n : /\ left[i] <= t[Order(t, c)[i]].amount
                                 /\ t[Order(t, c)[i]].action # "in" => left[i] = 0
<1> DEFINE left == Replay(RowsTo(t, c, n))
           rows == RowsTo(t, c, n)
<1>1. rows \in Seq(Lot) /\ Len(rows) = n /\ \A i \in 1 .. n : rows[i] = t[Order(t, c)[i]]
  BY RowsType
<1>2. \A r \in Lot : r.amount \in Nat
  BY NamesAssumption DEF Lot
<1> HIDE DEF rows
<1>3. /\ Replay(rows) \in Seq(Nat) /\ Len(Replay(rows)) = Len(rows)
      /\ \A i \in 1 .. Len(rows) : /\ Replay(rows)[i] <= rows[i].amount
                                   /\ rows[i].action # "in" => Replay(rows)[i] = 0
  BY <1>1, <1>2, ReplayType
<1>4. /\ left \in Seq(Nat) /\ Len(left) = n
      /\ \A i \in 1 .. n : /\ left[i] <= t[Order(t, c)[i]].amount
                           /\ t[Order(t, c)[i]].action # "in" => left[i] = 0
  BY <1>1, <1>3 DEF rows
<1> HIDE DEF left
<1>5. SumOf(left, 1 .. n) \in Nat
  <2>1. \A i \in 1 .. n : left[i] \in Int /\ left[i] >= 0
    BY <1>4
  <2>2. 1 \in Int /\ n \in Int
    OBVIOUS
  <2>3. IsFiniteSet(1 .. n)
    BY <2>2, FS_Interval
  <2> QED
    BY <2>1, <2>3, SumType
<1> QED
  BY <1>4, <1>5 DEF left

LEMMA LeftShrinks ==
  ASSUME NEW t \in Seq(Lot), NEW c, NEW k \in Nat, NEW n \in Nat, k <= n,
         n <= Len(Order(t, c)), NEW i \in 1 .. k
  PROVE  Replay(RowsTo(t, c, n))[i] <= Replay(RowsTo(t, c, k))[i]
<1> DEFINE L(m) == Replay(RowsTo(t, c, m))[i]
           T == {m \in Nat : k <= m /\ m <= Len(Order(t, c)) => L(m) <= L(k)}
<1>0. Len(Order(t, c)) \in Nat
  BY OrderType
<1>1. \A m \in Nat : k <= m /\ m <= Len(Order(t, c)) => L(m) \in Nat
  <2> SUFFICES ASSUME NEW m \in Nat, k <= m, m <= Len(Order(t, c)) PROVE L(m) \in Nat
    OBVIOUS
  <2>1. Replay(RowsTo(t, c, m)) \in Seq(Nat) /\ Len(Replay(RowsTo(t, c, m))) = m
    BY LeftType
  <2>2. i \in 1 .. m
    OBVIOUS
  <2> QED
    BY <2>1, <2>2
<1>2. 0 \in T
  <2>1. k # 0
    OBVIOUS
  <2> QED
    BY <2>1
<1>3. ASSUME NEW m \in Nat, m \in T PROVE m + 1 \in T
  <2> SUFFICES ASSUME k <= m + 1, m + 1 <= Len(Order(t, c)) PROVE L(m + 1) <= L(k)
    OBVIOUS
  <2>1. CASE k = m + 1
    <3>1. L(k) \in Nat
      BY <1>1, <2>1
    <3> HIDE DEF L
    <3> QED
      BY <2>1, <3>1
  <2>2. CASE k # m + 1
    <3> DEFINE rows == RowsTo(t, c, m)
               row == t[Order(t, c)[m + 1]]
    <3>1. k <= m /\ m <= Len(Order(t, c)) /\ i \in 1 .. m
      BY <1>0, <2>2
    <3>2. rows \in Seq(Lot) /\ Len(rows) = m /\ \A j \in 1 .. m : rows[j] = t[Order(t, c)[j]]
      BY <3>1, RowsType
    <3>3. row \in Lot
      BY <1>0, OrderType
    <3>4. \A r \in Lot : r.amount \in Nat
      BY NamesAssumption DEF Lot
    <3>5. /\ RowsTo(t, c, m + 1) \in Seq(Lot) /\ Len(RowsTo(t, c, m + 1)) = m + 1
          /\ \A j \in 1 .. m + 1 : RowsTo(t, c, m + 1)[j] = t[Order(t, c)[j]]
      BY RowsType
    <3> HIDE DEF rows, row
    <3>6. RowsTo(t, c, m + 1) = Append(rows, row)
      <4>0. m + 1 \in 1 .. m + 1
        OBVIOUS
      <4>1. RowsTo(t, c, m + 1)[m + 1] = row
        BY <3>5, <4>0, Zenon DEF row
      <4>2. \A j \in 1 .. m : RowsTo(t, c, m + 1)[j] = rows[j]
        BY <3>2, <3>5
      <4> DEFINE more == RowsTo(t, c, m + 1)
      <4> HIDE DEF more
      <4>3. more \in Seq(Lot) /\ Len(more) = m + 1
        BY <3>5 DEF more
      <4> QED
        BY <3>2, <3>3, <4>1, <4>2, <4>3 DEF more
    <3>7. Replay(Append(rows, row))[i] <= Replay(rows)[i]
      BY <3>1, <3>2, <3>3, <3>4, ReplayShrinks
    <3>8. L(m + 1) <= L(m)
      BY <3>6, <3>7 DEF rows
    <3>9. L(m) <= L(k) /\ L(m) \in Nat /\ L(k) \in Nat /\ L(m + 1) \in Nat
      BY <1>1, <1>3, <3>1
    <3> HIDE DEF L
    <3> QED
      BY <3>8, <3>9
  <2> QED
    BY <2>1, <2>2
<1>4. n \in T
  <2> HIDE DEF T
  <2> QED
    BY <1>2, <1>3, NatSetInduction
<1> QED
  BY <1>4

-----------------------------------------------------------------------------
(* The invariants.                                                         *)

\* A worker has read lots of the table, each one once.
TypeInv ==
  /\ TypeOK
  /\ Len(table) <= MaxLots
  /\ \A p \in Worker, c \in Wallet :
       snap[p][c] \in Seq(1 .. Len(table)) /\ Len(snap[p][c]) <= Len(table)

\* Lots are read by a worker that computes a wallet of their address.
ReadInv ==
  \A p \in Worker, c \in Wallet :
    snap[p][c] # <<>> => busy[p] \in Wallet /\ address[c] = address[busy[p]]

\* One worker at a time computes a wallet.
OneInv == \A p, q \in Worker : busy[p] = busy[q] /\ busy[p] # NoWallet => p = q

\* A position has an id if it is there, and whoever computes it uses that one.
IdInv ==
  /\ \A k \in Wallet \X Wallet : position[k] # NoPosition => position[k].id # NoId
  /\ \A p \in Worker, c \in Wallet :
       busy[p] # NoWallet =>
         /\ acc[p][c] # NoId
         /\ position[<<busy[p], c>>] # NoPosition => acc[p][c] = position[<<busy[p], c>>].id

LinkInv == TypeInv /\ ReadInv /\ OneInv /\ IdInv /\ LinksResolve /\ LinkedToOwner

\* A block has one lot, and what a worker has read is the beginning of a chain.
PrefixInv ==
  /\ \A i \in DOMAIN table : table[i].block = i
  /\ \A p \in Worker, c \in Wallet :
       LET n == Len(snap[p][c])
       IN n <= Len(Order(table, c)) /\ snap[p][c] = LotsTo(table, c, n)

\* So is what a position accounts for.
AmountInv ==
  \A k \in Wallet \X Wallet :
    LET n == position[k].rows
        left == Replay(RowsTo(table, k[2], n))
    IN n <= Len(Order(table, k[2])) /\ position[k].amount = SumOf(left, 1 .. n)

\* A wallet that is computed has no fewer lots read than accounted for.
GrowInv ==
  \A p \in Worker : busy[p] \in Wallet =>
    position[<<busy[p], busy[p]>>].rows <= Len(snap[p][busy[p]])

\* What remains of a deposit is what FIFO leaves of it, once it is accounted for.
RemainInv ==
  \A w \in Wallet : OnOneChain(w) =>
    LET n == position[<<w, w>>].rows
        left == Replay(RowsTo(table, w, n))
        lot == Order(table, w)
    IN \A i \in 1 .. Len(lot) :
         table[lot[i]].action = "in" =>
           remaining[lot[i]] = IF i <= n THEN left[i] ELSE table[lot[i]].amount

-----------------------------------------------------------------------------
(* What the handlers do, in the terms of the invariants.                   *)

\* A batch is one or two lots of its chain.
LEMMA BatchType ==
  ASSUME table \in Seq(Lot), NEW c \in Wallet, NEW batch \in Batch(c)
  PROVE  /\ batch \in Seq(Lot) /\ Len(batch) \in {1, 2}
         /\ SameBlock = FALSE =>
              \E l \in Lot : batch = <<l>> /\ l.block = Len(table) + 1 /\ l.owner = c
<1> DEFINE one == [owner : {c}, block : {Len(table) + 1}, action : {"in", "out"}, amount : Amount]
<1>1. Len(table) + 1 \in Nat
  OBVIOUS
<1>2. \A l \in one : l \in Lot /\ l.block = Len(table) + 1 /\ l.owner = c
  BY <1>1 DEF Lot
<1> HIDE DEF one
<1>3. CASE \E l \in one : batch = <<l>>
  BY <1>2, <1>3
<1>4. CASE SameBlock /\ \E l \in one, k \in one : batch = <<l, k>>
  BY <1>2, <1>4
<1>5. batch \in {<<l>> : l \in one} \cup (IF SameBlock THEN {<<l, k>> : l \in one, k \in one} ELSE {})
  BY DEF Batch, one
<1>6. \/ \E l \in one : batch = <<l>>
      \/ SameBlock /\ \E l \in one, k \in one : batch = <<l, k>>
  <2>1. CASE batch \in {<<l>> : l \in one}
    BY <2>1
  <2>2. CASE batch \notin {<<l>> : l \in one}
    <3>1. CASE SameBlock
      BY <1>5, <2>2, <3>1
    <3>2. CASE ~SameBlock
      BY <1>5, <2>2, <3>2
    <3> QED
      BY <3>1, <3>2
  <2> QED
    BY <2>1, <2>2
<1> QED
  BY <1>3, <1>4, <1>6

\* The rows of a query are the lots of the chain, or nothing.
LEMMA QueryType ==
  ASSUME table \in Seq(Lot), NEW w \in Wallet, NEW c \in Wallet,
         NEW s \in InQueryOrder(Visible(w, c))
  PROVE  /\ s \in Seq(1 .. Len(table)) /\ Len(s) <= Len(table)
         /\ s # <<>> => address[c] = address[w]
         /\ Visible(w, c) = Owned(table, c) \/ s = <<>>
<1> DEFINE S == Visible(w, c)
<1>1. /\ Owned(table, c) \in SUBSET (1 .. Len(table)) /\ IsFiniteSet(Owned(table, c))
      /\ Len(table) \in Nat
  BY OwnedType
<1>2. S = IF address[c] = address[w] THEN Owned(table, c) ELSE {}
  BY DEF Visible, LotsOf, Owned
<1>3. S \in SUBSET (1 .. Len(table)) /\ IsFiniteSet(S)
  BY <1>1, <1>2, FS_EmptySet
<1> HIDE DEF S
<1>4. s \in SetToSeqs(S)
  BY DEF InQueryOrder, S
<1>5. s \in Seq(S) /\ Len(s) = Cardinality(S)
  BY <1>3, <1>4, EnumerationType
<1>6. s \in Seq(1 .. Len(table))
  <2> HIDE DEF Visible
  <2>1. \A i \in 1 .. Len(s) : s[i] \in 1 .. Len(table)
    <3>1. \A i \in 1 .. Len(s) : s[i] \in S
      BY <1>5
    <3> QED
      BY <1>3, <3>1
  <2>2. s \in Seq(S)
    BY <1>5
  <2> QED
    BY <2>1, <2>2, SeqOfElements
<1>7. 1 \in Int /\ Len(table) \in Int
  BY <1>1
<1>8. IsFiniteSet(1 .. Len(table)) /\ Cardinality(1 .. Len(table)) = Len(table)
  BY <1>1, <1>7, FS_Interval
<1>9. Len(s) <= Len(table)
  <2>1. Cardinality(S) <= Cardinality(1 .. Len(table))
    BY <1>3, <1>8, FS_Subset
  <2> QED
    BY <1>5, <1>8, <2>1
<1>10. S = {} => s = <<>>
  <2> SUFFICES ASSUME S = {} PROVE s = <<>>
    OBVIOUS
  <2>1. Len(s) = 0
    BY <1>5, FS_EmptySet
  <2> QED
    BY <1>5, <2>1
<1> QED
  BY <1>2, <1>6, <1>9, <1>10 DEF S

\* What FIFO leaves of the lots a worker has read.
LEMMA LeftOfRead ==
  ASSUME TypeInv, NEW p \in Worker, NEW c \in Wallet
  PROVE  /\ Left(p, c) \in Seq(Nat) /\ Len(Left(p, c)) = Len(snap[p][c])
         /\ DOMAIN Left(p, c) = 1 .. Len(snap[p][c]) /\ CurrentAmount(p, c) \in Nat
<1> DEFINE s == snap[p][c]
           rows == [i \in DOMAIN s |-> table[s[i]]]
<1>1. s \in Seq(1 .. Len(table)) /\ table \in Seq(Lot)
  BY DEF TypeInv, TypeOK
<1>2. DOMAIN s = 1 .. Len(s) /\ Len(s) \in Nat /\ \A i \in 1 .. Len(s) : table[s[i]] \in Lot
  <2>1. DOMAIN s = 1 .. Len(s) /\ Len(s) \in Nat /\ \A i \in 1 .. Len(s) : s[i] \in 1 .. Len(table)
    BY <1>1
  <2> HIDE DEF s
  <2> QED
    BY <1>1, <2>1
<1>3. rows \in Seq(Lot) /\ Len(rows) = Len(s)
  <2> HIDE DEF s
  <2> QED
    BY <1>2
<1>4. \A r \in Lot : r.amount \in Nat
  BY NamesAssumption DEF Lot
<1> HIDE DEF rows
<1>5. Replay(rows) \in Seq(Nat) /\ Len(Replay(rows)) = Len(s)
  BY <1>3, <1>4, ReplayType
<1>6. Left(p, c) \in Seq(Nat) /\ Len(Left(p, c)) = Len(s)
  BY <1>5 DEF Left, rows
<1> DEFINE left == Left(p, c)
<1> HIDE DEF left, s
<1>7. left \in Seq(Nat) /\ Len(left) = Len(s)
  BY <1>6 DEF left
<1>8. DOMAIN left = 1 .. Len(s) /\ \A i \in 1 .. Len(s) : left[i] \in Int /\ left[i] >= 0
  BY <1>7
<1>9. 1 \in Int /\ Len(s) \in Int
  BY <1>2
<1>10. IsFiniteSet(1 .. Len(s))
  BY <1>9, FS_Interval
<1>11. SumOf(left, 1 .. Len(s)) \in Nat
  BY <1>8, <1>10, SumType
<1>12. CurrentAmount(p, c) = SumOf(left, 1 .. Len(s))
  BY <1>8 DEF CurrentAmount, left
<1> QED
  BY <1>7, <1>8, <1>11, <1>12 DEF left, s

\* A lot a worker has read is of a chain of the wallet's address.
LEMMA PlaceRead ==
  ASSUME TypeInv, ReadInv, NEW p \in Worker, NEW i \in DOMAIN table, Places(p, i) # {}
  PROVE  /\ table[i].owner \in Wallet /\ snap[p][table[i].owner] # <<>>
         /\ busy[p] \in Wallet /\ address[table[i].owner] = address[busy[p]]
         /\ OnOneChain(table[i].owner) => busy[p] = table[i].owner
<1> DEFINE c == table[i].owner
<1>1. table[i] \in Lot
  BY DEF TypeInv, TypeOK
<1>2. c \in Wallet
  BY <1>1 DEF Lot
<1> HIDE DEF c
<1>3. PICK n \in DOMAIN snap[p][c] : snap[p][c][n] = i
  BY DEF Places, c
<1>4. snap[p][c] # <<>>
  <2>1. DOMAIN <<>> = {}
    OBVIOUS
  <2> QED
    BY <1>3, <2>1
<1>5. busy[p] \in Wallet /\ address[c] = address[busy[p]]
  BY <1>2, <1>4 DEF ReadInv
<1> QED
  BY <1>2, <1>4, <1>5 DEF c, OnOneChain

-----------------------------------------------------------------------------
(* Types.                                                                  *)

LEMMA InitTyped == Init => TypeInv /\ ReadInv
<1> SUFFICES ASSUME Init PROVE TypeInv /\ ReadInv
  OBVIOUS
<1>1. <<>> \in Seq(Lot) /\ <<>> \in Seq(Nat) /\ <<>> \in Seq(Id \cup {NoId}) /\ Len(<<>>) = 0
  OBVIOUS
<1>2. /\ <<>> \in Seq(1 .. MaxLots) /\ <<>> \in Seq(1 .. Len(table))
      /\ 0 \in 0 .. MaxLots /\ 0 \in 0 .. MaxRuns
  BY BoundsAssumption
<1>3. NoPosition \in [id : Id \cup {NoId}, amount : Nat, rows : 0 .. MaxLots]
  BY <1>2 DEF NoPosition
<1>4. position \in [Wallet \X Wallet -> [id : Id \cup {NoId}, amount : Nat, rows : 0 .. MaxLots]]
  BY <1>3 DEF Init
<1>5. /\ busy \in [Worker -> Wallet \cup {NoWallet}]
      /\ snap \in [Worker -> [Wallet -> Seq(1 .. MaxLots)]]
      /\ acc \in [Worker -> [Wallet -> Id \cup {NoId}]]
  BY <1>2 DEF Init
<1>6. \A p \in Worker, c \in Wallet : snap[p][c] = <<>>
  BY DEF Init
<1>7. TypeOK
  BY <1>1, <1>2, <1>4, <1>5 DEF Init, TypeOK
<1>8. Len(table) = 0 /\ 0 <= MaxLots
  BY <1>1, BoundsAssumption DEF Init
<1>9. \A p \in Worker, c \in Wallet :
        snap[p][c] \in Seq(1 .. Len(table)) /\ Len(snap[p][c]) <= Len(table)
  <2> SUFFICES ASSUME NEW p \in Worker, NEW c \in Wallet
               PROVE  snap[p][c] \in Seq(1 .. Len(table)) /\ Len(snap[p][c]) <= Len(table)
    OBVIOUS
  <2>1. snap[p][c] = <<>>
    BY <1>6
  <2> QED
    BY <1>1, <1>2, <1>8, <2>1
<1> QED
  BY <1>6, <1>7, <1>8, <1>9 DEF TypeInv, ReadInv

\* Appending to a sequence.
LEMMA SeqConcat ==
  ASSUME NEW S, NEW s \in Seq(S), NEW t \in Seq(S)
  PROVE  /\ s \o t \in Seq(S) /\ Len(s \o t) = Len(s) + Len(t)
         /\ \A i \in 1 .. Len(s) : (s \o t)[i] = s[i]
OBVIOUS

LEMMA InsertTyped ==
  ASSUME TypeInv, ReadInv, NEW c \in Wallet, NEW batch \in Batch(c), InsertLots(c, batch)
  PROVE  TypeInv' /\ ReadInv'
<1>0. TypeOK /\ Len(table) \in Nat /\ UNCHANGED <<address, position, runs, busy, snap, acc>>
  BY DEF TypeInv, TypeOK, InsertLots, worker
<1>1. batch \in Seq(Lot) /\ Len(batch) \in Nat
  <2>1. batch \in Seq(Lot)
    BY <1>0, BatchType DEF TypeOK
  <2> QED
    BY <2>1
<1> DEFINE more == [i \in DOMAIN batch |-> batch[i].amount]
           none == [i \in DOMAIN batch |-> NoId]
<1>2. more \in Seq(Nat) /\ Len(more) = Len(batch)
  <2>1. \A i \in 1 .. Len(batch) : batch[i].amount \in Nat
    <3> SUFFICES ASSUME NEW i \in 1 .. Len(batch) PROVE batch[i].amount \in Nat
      OBVIOUS
    <3>1. batch[i] \in Lot
      BY <1>1
    <3> QED
      BY <3>1, NamesAssumption DEF Lot
  <2> QED
    BY <1>1, <2>1
<1>3. none \in Seq(Id \cup {NoId}) /\ Len(none) = Len(batch)
  BY <1>1
<1>4. /\ table' = table \o batch /\ remaining' = remaining \o more /\ link' = link \o none
      /\ Len(table) + Len(batch) <= MaxLots
  BY DEF InsertLots
<1> HIDE DEF more, none
<1>5. table' \in Seq(Lot) /\ Len(table') = Len(table) + Len(batch)
  BY <1>0, <1>1, <1>4, SeqConcat DEF TypeOK
<1>6. remaining' \in Seq(Nat) /\ Len(remaining') = Len(table')
  <2>1. remaining \in Seq(Nat) /\ Len(remaining) = Len(table)
    BY <1>0 DEF TypeOK
  <2>2. remaining \o more \in Seq(Nat) /\ Len(remaining \o more) = Len(remaining) + Len(more)
    BY <1>2, <2>1, SeqConcat
  <2> QED
    BY <1>2, <1>4, <1>5, <2>1, <2>2
<1>7. link' \in Seq(Id \cup {NoId}) /\ Len(link') = Len(table')
  <2>1. link \in Seq(Id \cup {NoId}) /\ Len(link) = Len(table)
    BY <1>0 DEF TypeOK
  <2>2. /\ link \o none \in Seq(Id \cup {NoId})
        /\ Len(link \o none) = Len(link) + Len(none)
    BY <1>3, <2>1, SeqConcat
  <2> QED
    BY <1>3, <1>4, <1>5, <2>1, <2>2
<1>8. TypeOK'
  BY <1>0, <1>5, <1>6, <1>7 DEF TypeOK
<1>9. Len(table') <= MaxLots /\ Len(table) <= Len(table') /\ Len(table') \in Nat
  BY <1>0, <1>1, <1>4, <1>5
<1>10. ASSUME NEW p \in Worker, NEW d \in Wallet
       PROVE  snap'[p][d] \in Seq(1 .. Len(table')) /\ Len(snap'[p][d]) <= Len(table')
  <2> DEFINE s == snap[p][d]
  <2>1. s \in Seq(1 .. Len(table)) /\ Len(s) <= Len(table) /\ snap'[p][d] = s
    BY <1>0 DEF TypeInv
  <2> HIDE DEF s
  <2>2. Len(s) \in Nat /\ \A i \in 1 .. Len(s) : s[i] \in 1 .. Len(table')
    BY <1>0, <1>9, <2>1
  <2>3. s \in Seq(1 .. Len(table'))
    BY <2>1, <2>2, SeqOfElements
  <2> QED
    BY <1>0, <1>9, <2>1, <2>2, <2>3
<1>11. ReadInv'
  BY <1>0 DEF ReadInv
<1> QED
  BY <1>8, <1>9, <1>10, <1>11 DEF TypeInv

\* What a worker has read: rows for every chain.
LEMMA ReadEffect ==
  ASSUME TypeInv, NEW p \in Worker, NEW w \in Wallet, ReadTables(p, w)
  PROVE  /\ busy[p] = NoWallet /\ busy' = [busy EXCEPT ![p] = w]
         /\ Overlap \/ \A q \in Worker : busy[q] # w
         /\ \A q \in Worker, c \in Wallet : q # p => snap'[q][c] = snap[q][c] /\ acc'[q][c] = acc[q][c]
         /\ \A c \in Wallet : /\ snap'[p][c] \in InQueryOrder(Visible(w, c))
                              /\ acc'[p][c] = AccumulatorId(w, c)
         /\ snap' \in [Worker -> [Wallet -> Seq(1 .. MaxLots)]]
         /\ acc' \in [Worker -> [Wallet -> Id \cup {NoId}]]
         /\ runs' = runs + 1 /\ runs' \in 0 .. MaxRuns
         /\ UNCHANGED <<address, table, remaining, link, position>>
<1>0. /\ table \in Seq(Lot) /\ Len(table) \in Nat /\ Len(table) <= MaxLots /\ MaxLots \in Nat
      /\ runs \in 0 .. MaxRuns /\ MaxRuns \in Nat
      /\ busy \in [Worker -> Wallet \cup {NoWallet}]
      /\ snap \in [Worker -> [Wallet -> Seq(1 .. MaxLots)]]
      /\ acc \in [Worker -> [Wallet -> Id \cup {NoId}]]
      /\ position \in [Wallet \X Wallet -> [id : Id \cup {NoId}, amount : Nat, rows : 0 .. MaxLots]]
  BY BoundsAssumption DEF TypeInv, TypeOK
<1>1. PICK s \in [Wallet -> UNION {InQueryOrder(Visible(w, c)) : c \in Wallet}] :
        /\ \A c \in Wallet : s[c] \in InQueryOrder(Visible(w, c))
        /\ snap' = [snap EXCEPT ![p] = s]
  BY DEF ReadTables
<1>2. \A c \in Wallet : s[c] \in Seq(1 .. MaxLots)
  <2> SUFFICES ASSUME NEW c \in Wallet PROVE s[c] \in Seq(1 .. MaxLots)
    OBVIOUS
  <2>1. s[c] \in Seq(1 .. Len(table))
    BY <1>0, <1>1, QueryType
  <2> DEFINE r == s[c]
  <2> HIDE DEF r
  <2>2. r \in Seq(1 .. Len(table))
    BY <2>1 DEF r
  <2>3. \A i \in 1 .. Len(r) : r[i] \in 1 .. MaxLots
    <3>1. \A i \in 1 .. Len(r) : r[i] \in 1 .. Len(table)
      BY <2>2
    <3>2. \A n \in 1 .. Len(table) : n \in 1 .. MaxLots
      BY <1>0
    <3> QED
      BY <3>1, <3>2
  <2> QED
    BY <2>2, <2>3, SeqOfElements DEF r
<1>3. s \in [Wallet -> Seq(1 .. MaxLots)]
  BY <1>1, <1>2
<1>4. /\ snap' \in [Worker -> [Wallet -> Seq(1 .. MaxLots)]]
      /\ \A c \in Wallet : snap'[p][c] \in InQueryOrder(Visible(w, c))
      /\ \A q \in Worker, c \in Wallet : q # p => snap'[q][c] = snap[q][c]
  BY <1>0, <1>1, <1>3
<1>5. /\ busy[p] = NoWallet /\ runs < MaxRuns /\ (Overlap \/ \A q \in Worker : busy[q] # w)
      /\ busy' = [busy EXCEPT ![p] = w] /\ runs' = runs + 1
      /\ acc' = [acc EXCEPT ![p] = [c \in Wallet |-> AccumulatorId(w, c)]]
      /\ UNCHANGED <<address, table, remaining, link, position>>
  BY DEF ReadTables, lots
<1>6. runs' \in 0 .. MaxRuns /\ runs + 1 \in 1 .. MaxRuns
  BY <1>0, <1>5
<1>7. \A c \in Wallet : AccumulatorId(w, c) \in Id \cup {NoId}
  <2>1. \A c \in Wallet : <<runs + 1, c>> \in Id
    BY <1>6 DEF Id
  <2>2. \A c \in Wallet : position[<<w, c>>].id \in Id \cup {NoId}
    BY <1>0
  <2> QED
    BY <2>1, <2>2 DEF AccumulatorId
<1>8. /\ acc' \in [Worker -> [Wallet -> Id \cup {NoId}]]
      /\ \A c \in Wallet : acc'[p][c] = AccumulatorId(w, c)
      /\ \A q \in Worker, c \in Wallet : q # p => acc'[q][c] = acc[q][c]
  BY <1>0, <1>5, <1>7
<1> QED
  BY <1>4, <1>5, <1>6, <1>8

LEMMA ReadTyped ==
  ASSUME TypeInv, ReadInv, NEW p \in Worker, NEW w \in Wallet, ReadTables(p, w)
  PROVE  TypeInv' /\ ReadInv'
<1>0. /\ busy[p] = NoWallet /\ busy' = [busy EXCEPT ![p] = w]
      /\ \A q \in Worker, c \in Wallet : q # p => snap'[q][c] = snap[q][c]
      /\ \A c \in Wallet : snap'[p][c] \in InQueryOrder(Visible(w, c))
      /\ snap' \in [Worker -> [Wallet -> Seq(1 .. MaxLots)]]
      /\ acc' \in [Worker -> [Wallet -> Id \cup {NoId}]]
      /\ runs' \in 0 .. MaxRuns
      /\ UNCHANGED <<address, table, remaining, link, position>>
  BY ReadEffect
<1>1. TypeOK /\ table \in Seq(Lot) /\ Len(table) <= MaxLots
  BY DEF TypeInv, TypeOK
<1>2. busy' \in [Worker -> Wallet \cup {NoWallet}]
  BY <1>0, <1>1 DEF TypeOK
<1>3. TypeOK'
  BY <1>0, <1>1, <1>2 DEF TypeOK
<1>4. ASSUME NEW q \in Worker, NEW c \in Wallet
      PROVE  /\ snap'[q][c] \in Seq(1 .. Len(table)) /\ Len(snap'[q][c]) <= Len(table)
             /\ snap'[q][c] # <<>> => busy'[q] \in Wallet /\ address[c] = address[busy'[q]]
  <2>1. CASE q = p
    <3>1. busy'[q] = w
      BY <1>0, <1>1, <2>1 DEF TypeOK
    <3>2. snap'[q][c] \in InQueryOrder(Visible(w, c))
      BY <1>0, <2>1
    <3> QED
      BY <1>1, <3>1, <3>2, QueryType
  <2>2. CASE q # p
    <3>1. busy'[q] = busy[q] /\ snap'[q][c] = snap[q][c]
      BY <1>0, <1>1, <2>2 DEF TypeOK
    <3> QED
      BY <3>1 DEF TypeInv, ReadInv
  <2> QED
    BY <2>1, <2>2
<1> QED
  BY <1>0, <1>1, <1>3, <1>4 DEF TypeInv, ReadInv

\* A worker that is done is idle, and forgets what it read.
LEMMA RestEffect ==
  ASSUME TypeInv, ReadInv, NEW p \in Worker, Rest(p)
  PROVE  /\ busy' = [busy EXCEPT ![p] = NoWallet] /\ busy' \in [Worker -> Wallet \cup {NoWallet}]
         /\ snap' \in [Worker -> [Wallet -> Seq(1 .. MaxLots)]]
         /\ acc' \in [Worker -> [Wallet -> Id \cup {NoId}]]
         /\ \A c \in Wallet : snap'[p][c] = <<>>
         /\ \A q \in Worker : q # p => busy'[q] = busy[q] /\ snap'[q] = snap[q] /\ acc'[q] = acc[q]
         /\ \A q \in Worker, c \in Wallet :
              /\ snap'[q][c] \in Seq(1 .. Len(table)) /\ Len(snap'[q][c]) <= Len(table)
              /\ snap'[q][c] # <<>> => busy'[q] \in Wallet /\ address[c] = address[busy'[q]]
<1>0. /\ busy \in [Worker -> Wallet \cup {NoWallet}]
      /\ snap \in [Worker -> [Wallet -> Seq(1 .. MaxLots)]]
      /\ acc \in [Worker -> [Wallet -> Id \cup {NoId}]]
      /\ Len(table) \in Nat
  BY DEF TypeInv, TypeOK
<1>1. <<>> \in Seq(1 .. MaxLots) /\ <<>> \in Seq(1 .. Len(table)) /\ Len(<<>>) = 0
  OBVIOUS
<1>2. /\ busy' = [busy EXCEPT ![p] = NoWallet]
      /\ snap' = [snap EXCEPT ![p] = [c \in Wallet |-> <<>>]]
      /\ acc' = [acc EXCEPT ![p] = [c \in Wallet |-> NoId]]
  BY DEF Rest
<1>3. busy' \in [Worker -> Wallet \cup {NoWallet}]
  BY <1>0, <1>2
<1>4. snap' \in [Worker -> [Wallet -> Seq(1 .. MaxLots)]] /\ \A c \in Wallet : snap'[p][c] = <<>>
  BY <1>0, <1>1, <1>2
<1>5. acc' \in [Worker -> [Wallet -> Id \cup {NoId}]]
  BY <1>0, <1>2
<1>6. \A q \in Worker : q # p => busy'[q] = busy[q] /\ snap'[q] = snap[q] /\ acc'[q] = acc[q]
  BY <1>0, <1>2
<1>7. ASSUME NEW q \in Worker, NEW c \in Wallet
      PROVE  /\ snap'[q][c] \in Seq(1 .. Len(table)) /\ Len(snap'[q][c]) <= Len(table)
             /\ snap'[q][c] # <<>> => busy'[q] \in Wallet /\ address[c] = address[busy'[q]]
  <2>1. CASE q = p
    <3>1. snap'[q][c] = <<>>
      BY <1>4, <2>1
    <3> QED
      BY <1>0, <1>1, <3>1
  <2>2. CASE q # p
    <3>1. busy'[q] = busy[q] /\ snap'[q][c] = snap[q][c]
      BY <1>6, <2>2
    <3> QED
      BY <3>1 DEF TypeInv, ReadInv
  <2> QED
    BY <2>1, <2>2
<1> QED
  BY <1>2, <1>3, <1>4, <1>5, <1>6, <1>7

LEMMA AbortTyped ==
  ASSUME TypeInv, ReadInv, NEW p \in Worker, AbortWrite(p)
  PROVE  TypeInv' /\ ReadInv'
<1>1. Rest(p) /\ UNCHANGED <<address, table, remaining, link, position, runs>>
  BY DEF AbortWrite, lots
<1>2. /\ busy' \in [Worker -> Wallet \cup {NoWallet}]
      /\ snap' \in [Worker -> [Wallet -> Seq(1 .. MaxLots)]]
      /\ acc' \in [Worker -> [Wallet -> Id \cup {NoId}]]
      /\ \A q \in Worker, c \in Wallet :
           /\ snap'[q][c] \in Seq(1 .. Len(table)) /\ Len(snap'[q][c]) <= Len(table)
           /\ snap'[q][c] # <<>> => busy'[q] \in Wallet /\ address[c] = address[busy'[q]]
  BY <1>1, RestEffect
<1>3. TypeOK'
  BY <1>1, <1>2 DEF TypeInv, TypeOK
<1> QED
  BY <1>1, <1>2, <1>3 DEF TypeInv, ReadInv

\* The rows a write leaves.
LEMMA WriteEffect ==
  ASSUME TypeInv, NEW p \in Worker, NEW w \in Wallet, WriteTables(p, w)
  PROVE  /\ busy[p] = w /\ Rest(p) /\ UNCHANGED <<address, table, runs>>
         /\ DOMAIN position' = Wallet \X Wallet
         /\ \A k \in Wallet \X Wallet :
              position'[k] = IF k[1] = w /\ snap[p][k[2]] # <<>> THEN Upserted(p, w, k[2])
                                                                 ELSE position[k]
         /\ \A i \in DOMAIN table :
              /\ remaining'[i] = RemainingAfter(p, i)
              /\ link'[i] = IF Places(p, i) # {} THEN acc[p][table[i].owner] ELSE link[i]
         /\ DOMAIN remaining' = DOMAIN table /\ DOMAIN link' = DOMAIN table
         /\ remaining' \in Seq(Nat) /\ Len(remaining') = Len(table)
         /\ link' \in Seq(Id \cup {NoId}) /\ Len(link') = Len(table)
         /\ position' \in [Wallet \X Wallet ->
                             [id : Id \cup {NoId}, amount : Nat, rows : 0 .. MaxLots]]
<1>0. TypeOK /\ Len(table) \in Nat /\ DOMAIN table = 1 .. Len(table) /\ table \in Seq(Lot)
  BY DEF TypeInv, TypeOK
<1>1. /\ busy[p] = w /\ Rest(p) /\ UNCHANGED <<address, table, runs>>
      /\ position' = [k \in Wallet \X Wallet |->
            IF k[1] = w /\ snap[p][k[2]] # <<>> THEN Upserted(p, w, k[2]) ELSE position[k]]
      /\ remaining' = [i \in DOMAIN table |-> RemainingAfter(p, i)]
      /\ link' = [i \in DOMAIN table |->
            IF Places(p, i) # {} THEN acc[p][table[i].owner] ELSE link[i]]
  BY DEF WriteTables
<1>2. ASSUME NEW i \in DOMAIN table PROVE RemainingAfter(p, i) \in Nat
  <2> DEFINE c == table[i].owner
  <2>0. table[i] \in Lot
    BY <1>0
  <2>1. c \in Wallet
    BY <2>0 DEF Lot
  <2> HIDE DEF c
  <2>2. Left(p, c) \in Seq(Nat) /\ DOMAIN Left(p, c) = 1 .. Len(snap[p][c])
    BY <2>1, LeftOfRead
  <2>3. snap[p][c] \in Seq(1 .. MaxLots)
    BY <1>0, <2>1 DEF TypeOK
  <2>4. DOMAIN snap[p][c] = 1 .. Len(snap[p][c])
    BY <2>3
  <2>5. \A n \in Places(p, i) : Left(p, c)[n] \in Nat
    <3>1. \A n \in Places(p, i) : n \in 1 .. Len(snap[p][c])
      BY <2>4 DEF Places, c
    <3> QED
      BY <2>2, <3>1
  <2>6. remaining[i] \in Nat
    BY <1>0 DEF TypeOK
  <2>7. CASE \E n \in Places(p, i) : table[i].action = "in" /\ IsUpdated(table[i].amount, Left(p, c)[n])
    <3>1. (CHOOSE n \in Places(p, i) : TRUE) \in Places(p, i)
      BY <2>7
    <3> QED
      BY <2>5, <2>7, <3>1 DEF RemainingAfter, c
  <2>8. CASE ~ \E n \in Places(p, i) : table[i].action = "in" /\ IsUpdated(table[i].amount, Left(p, c)[n])
    BY <2>6, <2>8 DEF RemainingAfter, c
  <2> QED
    BY <2>7, <2>8
<1>3. remaining' \in Seq(Nat) /\ Len(remaining') = Len(table)
  BY <1>0, <1>1, <1>2
<1>4. ASSUME NEW i \in DOMAIN table
      PROVE  (IF Places(p, i) # {} THEN acc[p][table[i].owner] ELSE link[i]) \in Id \cup {NoId}
  <2>0. table[i] \in Lot
    BY <1>0
  <2>1. table[i].owner \in Wallet
    BY <2>0 DEF Lot
  <2>2. acc[p][table[i].owner] \in Id \cup {NoId}
    BY <1>0, <2>1 DEF TypeOK
  <2>3. link[i] \in Id \cup {NoId}
    <3>1. link \in Seq(Id \cup {NoId}) /\ Len(link) = Len(table)
      BY <1>0 DEF TypeOK
    <3> QED
      BY <1>0, <3>1
  <2> QED
    BY <2>2, <2>3
<1>5. link' \in Seq(Id \cup {NoId}) /\ Len(link') = Len(table)
  BY <1>0, <1>1, <1>4
<1>6. ASSUME NEW c \in Wallet
      PROVE  Upserted(p, w, c) \in [id : Id \cup {NoId}, amount : Nat, rows : 0 .. MaxLots]
  <2>1. CurrentAmount(p, c) \in Nat
    BY LeftOfRead
  <2>2. Len(snap[p][c]) \in 0 .. MaxLots
    <3>1. snap[p][c] \in Seq(1 .. Len(table)) /\ Len(snap[p][c]) <= Len(table)
      BY DEF TypeInv
    <3>2. Len(snap[p][c]) \in Nat
      BY <3>1
    <3>3. Len(table) <= MaxLots /\ MaxLots \in Nat
      BY BoundsAssumption DEF TypeInv
    <3> QED
      BY <1>0, <3>1, <3>2, <3>3
  <2>3. acc[p][c] \in Id \cup {NoId} /\ position[<<w, c>>].id \in Id \cup {NoId}
    BY <1>0 DEF TypeOK
  <2> QED
    BY <2>1, <2>2, <2>3 DEF Upserted
<1>7. position' \in [Wallet \X Wallet -> [id : Id \cup {NoId}, amount : Nat, rows : 0 .. MaxLots]]
  <2> DEFINE Row == [id : Id \cup {NoId}, amount : Nat, rows : 0 .. MaxLots]
  <2>1. \A k \in Wallet \X Wallet : position[k] \in Row
    BY <1>0 DEF TypeOK
  <2>2. \A c \in Wallet : Upserted(p, w, c) \in Row
    BY <1>6
  <2> HIDE DEF Row
  <2> QED
    BY <1>1, <2>1, <2>2 DEF Row
<1> QED
  BY <1>1, <1>3, <1>5, <1>7

LEMMA WriteTyped ==
  ASSUME TypeInv, ReadInv, NEW p \in Worker, NEW w \in Wallet, WriteTables(p, w)
  PROVE  TypeInv' /\ ReadInv'
<1>1. /\ Rest(p) /\ UNCHANGED <<address, table, runs>>
      /\ remaining' \in Seq(Nat) /\ Len(remaining') = Len(table)
      /\ link' \in Seq(Id \cup {NoId}) /\ Len(link') = Len(table)
      /\ position' \in [Wallet \X Wallet ->
                          [id : Id \cup {NoId}, amount : Nat, rows : 0 .. MaxLots]]
  BY WriteEffect
<1>2. /\ busy' \in [Worker -> Wallet \cup {NoWallet}]
      /\ snap' \in [Worker -> [Wallet -> Seq(1 .. MaxLots)]]
      /\ acc' \in [Worker -> [Wallet -> Id \cup {NoId}]]
      /\ \A q \in Worker, c \in Wallet :
           /\ snap'[q][c] \in Seq(1 .. Len(table)) /\ Len(snap'[q][c]) <= Len(table)
           /\ snap'[q][c] # <<>> => busy'[q] \in Wallet /\ address[c] = address[busy'[q]]
  BY <1>1, RestEffect
<1>3. TypeOK'
  BY <1>1, <1>2 DEF TypeInv, TypeOK
<1> QED
  BY <1>1, <1>2, <1>3 DEF TypeInv, ReadInv

LEMMA StutterTyped == TypeInv /\ ReadInv /\ UNCHANGED vars => TypeInv' /\ ReadInv'
  BY DEF vars, lots, worker, TypeInv, TypeOK, ReadInv

\* Type correctness, and that what a worker has read belongs to the address of
\* the wallet it computes.
LEMMA NextTyped == TypeInv /\ ReadInv /\ [Next]_vars => TypeInv' /\ ReadInv'
  BY InsertTyped, ReadTyped, AbortTyped, WriteTyped, StutterTyped DEF Next

\* The tables and the workers hold what the schema and the code allow.
THEOREM TableTypes == Spec => []TypeOK
<1>1. TypeInv => TypeOK
  BY DEF TypeInv
<1> QED
  BY <1>1, InitTyped, NextTyped, PTL DEF Spec

-----------------------------------------------------------------------------
(* Links.                                                                  *)

LEMMA LinkInit == Init => LinkInv
<1> SUFFICES ASSUME Init PROVE LinkInv
  OBVIOUS
<1>1. TypeInv /\ ReadInv
  BY InitTyped
<1>2. \A p \in Worker : busy[p] = NoWallet
  BY DEF Init
<1>3. \A k \in Wallet \X Wallet : position[k] = NoPosition
  BY DEF Init
<1>4. OneInv /\ IdInv
  BY <1>2, <1>3 DEF OneInv, IdInv
<1>5. DOMAIN link = {}
  BY DEF Init
<1>6. LinksResolve /\ LinkedToOwner
  BY <1>5 DEF LinksResolve, LinkedToOwner
<1> QED
  BY <1>1, <1>4, <1>6 DEF LinkInv

LEMMA InsertLinked ==
  ASSUME LinkInv, NEW c \in Wallet, NEW batch \in Batch(c), InsertLots(c, batch)
  PROVE  LinkInv'
<1>0. TypeInv /\ ReadInv /\ OneInv /\ IdInv /\ LinksResolve /\ LinkedToOwner
  BY DEF LinkInv
<1>1. TypeInv' /\ ReadInv'
  BY <1>0, InsertTyped
<1> DEFINE none == [i \in DOMAIN batch |-> NoId]
<1>2. /\ UNCHANGED <<address, position, busy, acc>>
      /\ table' = table \o batch /\ link' = link \o none
  BY DEF InsertLots, worker
<1>3. OneInv' /\ IdInv'
  BY <1>0, <1>2 DEF OneInv, IdInv
<1>4. /\ table \in Seq(Lot) /\ link \in Seq(Id \cup {NoId}) /\ Len(link) = Len(table)
      /\ DOMAIN link = 1 .. Len(table) /\ Len(table) \in Nat
  BY <1>0 DEF TypeInv, TypeOK
<1>5. batch \in Seq(Lot)
  BY <1>4, BatchType
<1>6. none \in Seq(Id \cup {NoId}) /\ \A i \in 1 .. Len(batch) : none[i] = NoId
  BY <1>5
<1> HIDE DEF none
<1>7. \A i \in DOMAIN link' : i \in DOMAIN link \/ link'[i] = NoId
  BY <1>2, <1>4, <1>5, <1>6 DEF none
<1>8. \A i \in DOMAIN link : link'[i] = link[i]
  BY <1>2, <1>4, <1>6, SeqConcat
<1>9. \A i \in DOMAIN link : table'[i] = table[i]
  BY <1>2, <1>4, <1>5, SeqConcat
<1>10. LinksResolve'
  BY <1>0, <1>2, <1>7, <1>8 DEF LinksResolve
<1>11. LinkedToOwner'
  <2> SUFFICES ASSUME NEW i \in DOMAIN link', link'[i] # NoId,
                      \A d \in Wallet : address[d] = address[table'[i].owner] => d = table'[i].owner
               PROVE  link'[i] = position[<<table'[i].owner, table'[i].owner>>].id
    BY <1>2 DEF LinkedToOwner, OnOneChain
  <2>1. i \in DOMAIN link /\ link'[i] = link[i] /\ table'[i] = table[i]
    BY <1>7, <1>8, <1>9
  <2>2. OnOneChain(table[i].owner)
    BY <2>1 DEF OnOneChain
  <2> QED
    BY <1>0, <2>1, <2>2 DEF LinkedToOwner
<1> QED
  BY <1>1, <1>3, <1>10, <1>11 DEF LinkInv

\* Without overlap, no other worker computes the wallet a call begins with.
LEMMA ReadLinked ==
  ASSUME Overlap = FALSE, LinkInv, NEW p \in Worker, NEW w \in Wallet, ReadTables(p, w)
  PROVE  LinkInv'
<1>0. TypeInv /\ ReadInv /\ OneInv /\ IdInv /\ LinksResolve /\ LinkedToOwner
  BY DEF LinkInv
<1>1. TypeInv' /\ ReadInv'
  BY <1>0, ReadTyped
<1>2. /\ busy[p] = NoWallet /\ busy' = [busy EXCEPT ![p] = w]
      /\ \A q \in Worker : busy[q] # w
      /\ \A q \in Worker, c \in Wallet : q # p => acc'[q][c] = acc[q][c]
      /\ \A c \in Wallet : acc'[p][c] = AccumulatorId(w, c)
      /\ UNCHANGED <<address, table, link, position>>
  BY <1>0, ReadEffect
<1>3. busy \in [Worker -> Wallet \cup {NoWallet}] /\ runs \in Nat
  BY <1>0 DEF TypeInv, TypeOK
<1>4. busy'[p] = w /\ \A q \in Worker : q # p => busy'[q] = busy[q]
  BY <1>2, <1>3
<1>5. OneInv'
  BY <1>0, <1>2, <1>4 DEF OneInv
<1>6. \A c \in Wallet : /\ AccumulatorId(w, c) # NoId
                        /\ position[<<w, c>>] # NoPosition =>
                             AccumulatorId(w, c) = position[<<w, c>>].id
  <2> SUFFICES ASSUME NEW c \in Wallet
               PROVE  /\ AccumulatorId(w, c) # NoId
                      /\ position[<<w, c>>] # NoPosition =>
                           AccumulatorId(w, c) = position[<<w, c>>].id
    OBVIOUS
  <2>1. CASE position[<<w, c>>] = NoPosition
    <3>1. runs + 1 \in 1 .. MaxRuns
      <4>1. runs \in 0 .. MaxRuns
        BY <1>0 DEF TypeInv, TypeOK
      <4>2. runs < MaxRuns
        BY DEF ReadTables
      <4> QED
        BY <4>1, <4>2, BoundsAssumption
    <3>2. <<runs + 1, c>> # NoId
      BY <3>1, NoIdAssumption
    <3> QED
      BY <2>1, <3>2 DEF AccumulatorId
  <2>2. CASE position[<<w, c>>] # NoPosition
    BY <1>0, <2>2 DEF AccumulatorId, IdInv
  <2> QED
    BY <2>1, <2>2
<1>7. IdInv'
  <2> SUFFICES ASSUME NEW q \in Worker, NEW c \in Wallet, busy'[q] # NoWallet
               PROVE  /\ acc'[q][c] # NoId
                      /\ position[<<busy'[q], c>>] # NoPosition =>
                           acc'[q][c] = position[<<busy'[q], c>>].id
    BY <1>0, <1>2 DEF IdInv
  <2>1. CASE q = p
    BY <1>2, <1>4, <1>6, <2>1
  <2>2. CASE q # p
    BY <1>0, <1>2, <1>4, <2>2 DEF IdInv
  <2> QED
    BY <2>1, <2>2
<1>8. LinksResolve' /\ LinkedToOwner'
  BY <1>0, <1>2 DEF LinksResolve, LinkedToOwner, OnOneChain
<1> QED
  BY <1>1, <1>5, <1>7, <1>8 DEF LinkInv

LEMMA AbortLinked ==
  ASSUME LinkInv, NEW p \in Worker, AbortWrite(p)
  PROVE  LinkInv'
<1>0. TypeInv /\ ReadInv /\ OneInv /\ IdInv /\ LinksResolve /\ LinkedToOwner
  BY DEF LinkInv
<1>1. TypeInv' /\ ReadInv'
  BY <1>0, AbortTyped
<1>2. Rest(p) /\ UNCHANGED <<address, table, link, position>>
  BY DEF AbortWrite, lots
<1>3. /\ busy' = [busy EXCEPT ![p] = NoWallet]
      /\ \A q \in Worker : q # p => busy'[q] = busy[q] /\ acc'[q] = acc[q]
  BY <1>0, <1>2, RestEffect
<1>4. busy'[p] = NoWallet
  BY <1>0, <1>3 DEF TypeInv, TypeOK
<1>5. OneInv' /\ IdInv'
  BY <1>0, <1>2, <1>3, <1>4 DEF OneInv, IdInv
<1>6. LinksResolve' /\ LinkedToOwner'
  BY <1>0, <1>2 DEF LinksResolve, LinkedToOwner, OnOneChain
<1> QED
  BY <1>1, <1>5, <1>6 DEF LinkInv

\* A write keeps the ids that are there, and gives the others those of its
\* accumulators.
LEMMA WriteKeepsIds ==
  ASSUME LinkInv, NEW p \in Worker, NEW w \in Wallet, WriteTables(p, w)
  PROVE  /\ \A k \in Wallet \X Wallet :
              /\ position[k] # NoPosition => position'[k].id = position[k].id
              /\ position'[k] # NoPosition => position'[k].id # NoId
         /\ \A c \in Wallet : snap[p][c] # <<>> =>
              position'[<<w, c>>].id = acc[p][c] /\ acc[p][c] # NoId
<1>0. TypeInv /\ IdInv
  BY DEF LinkInv
<1>1. /\ busy[p] = w
      /\ \A k \in Wallet \X Wallet :
           position'[k] = IF k[1] = w /\ snap[p][k[2]] # <<>> THEN Upserted(p, w, k[2])
                                                              ELSE position[k]
  BY <1>0, WriteEffect
<1>2. busy[p] # NoWallet
  BY <1>1, NamesAssumption
<1>3. \A c \in Wallet : Upserted(p, w, c).id = acc[p][c] /\ acc[p][c] # NoId
  BY <1>0, <1>1, <1>2 DEF Upserted, IdInv
<1>4. ASSUME NEW k \in Wallet \X Wallet
      PROVE  /\ position[k] # NoPosition => position'[k].id = position[k].id
             /\ position'[k] # NoPosition => position'[k].id # NoId
  <2> DEFINE c == k[2]
  <2>1. CASE k[1] = w /\ snap[p][c] # <<>>
    <3>1. k = <<w, c>> /\ c \in Wallet
      BY <2>1
    <3>2. position'[k] = Upserted(p, w, c)
      BY <1>1, <2>1
    <3>3. position[k] # NoPosition => Upserted(p, w, c).id = position[k].id
      BY <3>1 DEF Upserted
    <3> QED
      BY <1>3, <3>1, <3>2, <3>3
  <2>2. CASE ~(k[1] = w /\ snap[p][c] # <<>>)
    BY <1>0, <1>1, <2>2 DEF IdInv
  <2> QED
    BY <2>1, <2>2
<1>5. ASSUME NEW c \in Wallet, snap[p][c] # <<>>
      PROVE  position'[<<w, c>>].id = acc[p][c] /\ acc[p][c] # NoId
  <2>1. <<w, c>> \in Wallet \X Wallet /\ <<w, c>>[1] = w /\ <<w, c>>[2] = c
    OBVIOUS
  <2>2. position'[<<w, c>>] = Upserted(p, w, c)
    BY <1>1, <1>5, <2>1
  <2> QED
    BY <1>3, <2>2
<1> QED
  BY <1>4, <1>5

LEMMA WriteLinked ==
  ASSUME LinkInv, NEW p \in Worker, NEW w \in Wallet, WriteTables(p, w)
  PROVE  LinkInv'
<1>0. TypeInv /\ ReadInv /\ OneInv /\ IdInv /\ LinksResolve /\ LinkedToOwner
  BY DEF LinkInv
<1>1. TypeInv' /\ ReadInv'
  BY <1>0, WriteTyped
<1>2. /\ busy[p] = w /\ Rest(p) /\ UNCHANGED <<address, table>>
      /\ \A k \in Wallet \X Wallet :
           position'[k] = IF k[1] = w /\ snap[p][k[2]] # <<>> THEN Upserted(p, w, k[2])
                                                              ELSE position[k]
      /\ \A i \in DOMAIN table :
           link'[i] = IF Places(p, i) # {} THEN acc[p][table[i].owner] ELSE link[i]
      /\ DOMAIN link' = DOMAIN table
  BY <1>0, WriteEffect
<1>3. /\ \A q \in Worker : q # p => busy'[q] = busy[q] /\ acc'[q] = acc[q]
      /\ busy' = [busy EXCEPT ![p] = NoWallet]
  BY <1>0, <1>2, RestEffect
<1>4. busy'[p] = NoWallet /\ DOMAIN link = DOMAIN table /\ busy[p] # NoWallet
  BY <1>0, <1>2, <1>3, NamesAssumption DEF TypeInv, TypeOK
<1>5. OneInv'
  BY <1>0, <1>3, <1>4 DEF OneInv
<1>6. /\ \A k \in Wallet \X Wallet :
           /\ position[k] # NoPosition => position'[k].id = position[k].id
           /\ position'[k] # NoPosition => position'[k].id # NoId
      /\ \A c \in Wallet : snap[p][c] # <<>> =>
           position'[<<w, c>>].id = acc[p][c] /\ acc[p][c] # NoId
  BY WriteKeepsIds
<1>7. IdInv'
  <2> SUFFICES ASSUME NEW q \in Worker, NEW c \in Wallet, busy'[q] # NoWallet
               PROVE  /\ acc'[q][c] # NoId
                      /\ position'[<<busy'[q], c>>] # NoPosition =>
                           acc'[q][c] = position'[<<busy'[q], c>>].id
    BY <1>6 DEF IdInv
  <2>1. q # p /\ busy'[q] = busy[q] /\ acc'[q] = acc[q]
    BY <1>3, <1>4
  <2>2. busy[q] # w
    BY <1>0, <1>2, <2>1 DEF OneInv
  <2>3. busy[q] \in Wallet
    BY <1>0, <2>1 DEF TypeInv, TypeOK
  <2>4. position'[<<busy[q], c>>] = position[<<busy[q], c>>]
    <3>1. <<busy[q], c>> \in Wallet \X Wallet /\ <<busy[q], c>>[1] = busy[q]
      BY <2>3
    <3> QED
      BY <1>2, <2>2, <3>1
  <2> QED
    BY <1>0, <2>1, <2>4 DEF IdInv
<1>8. \A k \in Wallet \X Wallet :
        position[k].id # NoId => position[k] # NoPosition /\ position'[k].id = position[k].id
  BY <1>6 DEF NoPosition
<1>9. ASSUME NEW i \in DOMAIN table, link'[i] # NoId
      PROVE  \E k \in Wallet \X Wallet : position'[k].id = link'[i]
  <2>1. CASE Places(p, i) # {}
    <3>1. table[i].owner \in Wallet /\ snap[p][table[i].owner] # <<>>
      BY <1>0, <2>1, PlaceRead
    <3>2. link'[i] = acc[p][table[i].owner]
      BY <1>2, <2>1
    <3> QED
      BY <1>6, <3>1, <3>2
  <2>2. CASE Places(p, i) = {}
    <3>1. link'[i] = link[i]
      BY <1>2, <2>2
    <3>2. PICK k \in Wallet \X Wallet : position[k].id = link[i]
      BY <1>0, <1>4, <1>9, <3>1 DEF LinksResolve
    <3> QED
      BY <1>8, <1>9, <3>1, <3>2
  <2> QED
    BY <2>1, <2>2
<1>10. ASSUME NEW i \in DOMAIN table, link'[i] # NoId, OnOneChain(table[i].owner)
       PROVE  link'[i] = position'[<<table[i].owner, table[i].owner>>].id
  <2>1. CASE Places(p, i) # {}
    <3>1. /\ table[i].owner \in Wallet /\ snap[p][table[i].owner] # <<>>
          /\ busy[p] = table[i].owner
      BY <1>0, <1>10, <2>1, PlaceRead
    <3>2. link'[i] = acc[p][table[i].owner]
      BY <1>2, <2>1
    <3> QED
      BY <1>2, <1>6, <3>1, <3>2
  <2>2. CASE Places(p, i) = {}
    <3> DEFINE k == <<table[i].owner, table[i].owner>>
    <3>1. link'[i] = link[i]
      BY <1>2, <2>2
    <3>2. link[i] = position[k].id
      BY <1>0, <1>4, <1>10, <3>1 DEF LinkedToOwner
    <3>3. k \in Wallet \X Wallet
      <4>1. table[i] \in Lot
        BY <1>0 DEF TypeInv, TypeOK
      <4> QED
        BY <4>1 DEF Lot
    <3> HIDE DEF k
    <3>4. position'[k].id = position[k].id
      BY <1>8, <1>10, <3>1, <3>2, <3>3
    <3> QED
      BY <3>1, <3>2, <3>4 DEF k
  <2> QED
    BY <2>1, <2>2
<1>11. LinksResolve'
  BY <1>2, <1>9 DEF LinksResolve
<1>12. LinkedToOwner'
  BY <1>2, <1>10 DEF LinkedToOwner, OnOneChain
<1> QED
  BY <1>1, <1>5, <1>7, <1>11, <1>12 DEF LinkInv

LEMMA LinkStutter == LinkInv /\ UNCHANGED vars => LinkInv'
<1> SUFFICES ASSUME LinkInv, UNCHANGED vars PROVE LinkInv'
  OBVIOUS
<1>1. TypeInv' /\ ReadInv'
  BY StutterTyped DEF LinkInv
<1>2. UNCHANGED <<address, table, link, position, busy, acc>>
  BY DEF vars, lots, worker
<1>3. OneInv' /\ IdInv' /\ LinksResolve' /\ LinkedToOwner'
  BY <1>2 DEF LinkInv, OneInv, IdInv, LinksResolve, LinkedToOwner, OnOneChain
<1> QED
  BY <1>1, <1>3 DEF LinkInv

\* Two calls for one wallet never overlap: the step of the invariant.
LEMMA LinkNext ==
  ASSUME Overlap = FALSE
  PROVE  LinkInv /\ [Next]_vars => LinkInv'
BY InsertLinked, ReadLinked, AbortLinked, WriteLinked, LinkStutter DEF Next

\* compute_positions links lots to the ids of its accumulators, which are those
\* of the positions it upserts: no lot is ever an orphan, as long as two calls
\* for one wallet do not overlap.
THEOREM LinksNeverDangle ==
  ASSUME Overlap = FALSE
  PROVE  Spec => []LinksResolve
<1>1. LinkInv => LinksResolve
  BY DEF LinkInv
<1>2. LinkInv /\ [Next]_vars => LinkInv'
  BY LinkNext
<1> QED
  BY <1>1, <1>2, LinkInit, PTL DEF Spec

\* Under the same condition, the lots of a wallet whose address is on no other
\* chain are linked to its own position.
THEOREM LinksGoToOwner ==
  ASSUME Overlap = FALSE
  PROVE  Spec => []LinkedToOwner
<1>1. LinkInv => LinkedToOwner
  BY DEF LinkInv
<1>2. LinkInv /\ [Next]_vars => LinkInv'
  BY LinkNext
<1> QED
  BY <1>1, <1>2, LinkInit, PTL DEF Spec

-----------------------------------------------------------------------------
(* Amounts.                                                                *)

AmountsInv == TypeInv /\ ReadInv /\ PrefixInv /\ AmountInv

\* Nothing is the beginning of every chain.
LEMMA NothingRead ==
  ASSUME NEW t, NEW c
  PROVE  LotsTo(t, c, 0) = <<>> /\ RowsTo(t, c, 0) = <<>> /\ SumOf(Replay(RowsTo(t, c, 0)), 1 .. 0) = 0
<1>1. 1 .. 0 = {}
  OBVIOUS
<1>2. LotsTo(t, c, 0) = <<>> /\ RowsTo(t, c, 0) = <<>>
  BY <1>1 DEF LotsTo, RowsTo
<1> DEFINE f == Replay(RowsTo(t, c, 0))
<1> HIDE DEF f
<1>3. IsFiniteSet({}) /\ \A i \in {} : f[i] \in Int
  BY FS_EmptySet
<1>4. SumOf(f, {}) = 0
  BY <1>3, SumPick
<1> QED
  BY <1>1, <1>2, <1>4 DEF f

LEMMA AmountInit == Init => AmountsInv
<1> SUFFICES ASSUME Init PROVE AmountsInv
  OBVIOUS
<1>1. TypeInv /\ ReadInv
  BY InitTyped
<1>2. table = <<>> /\ table \in Seq(Lot) /\ DOMAIN table = {}
  BY DEF Init
<1>3. \A p \in Worker, c \in Wallet : snap[p][c] = <<>>
  BY DEF Init
<1>4. \A k \in Wallet \X Wallet : position[k].rows = 0 /\ position[k].amount = 0
  BY DEF Init, NoPosition
<1>5. \A c : Len(Order(table, c)) \in Nat
  BY <1>2, OrderType
<1>6. Len(<<>>) = 0
  OBVIOUS
<1>7. PrefixInv
  <2>1. ASSUME NEW p \in Worker, NEW c \in Wallet
        PROVE  Len(snap[p][c]) <= Len(Order(table, c)) /\ snap[p][c] = LotsTo(table, c, Len(snap[p][c]))
    <3>1. snap[p][c] = <<>> /\ Len(snap[p][c]) = 0
      BY <1>3, <1>6
    <3>2. LotsTo(table, c, 0) = <<>>
      BY NothingRead
    <3>3. 0 <= Len(Order(table, c))
      BY <1>5
    <3> QED
      BY <3>1, <3>2, <3>3
  <2> QED
    BY <1>2, <2>1 DEF PrefixInv
<1>8. AmountInv
  <2> SUFFICES ASSUME NEW k \in Wallet \X Wallet
               PROVE  /\ position[k].rows <= Len(Order(table, k[2]))
                      /\ position[k].amount =
                           SumOf(Replay(RowsTo(table, k[2], position[k].rows)), 1 .. position[k].rows)
    BY DEF AmountInv
  <2>1. SumOf(Replay(RowsTo(table, k[2], 0)), 1 .. 0) = 0
    BY NothingRead
  <2>2. 0 <= Len(Order(table, k[2]))
    BY <1>5
  <2> QED
    BY <1>4, <2>1, <2>2
<1> QED
  BY <1>1, <1>7, <1>8 DEF AmountsInv

\* If a block has one lot, a batch is one lot of the next block.
LEMMA InsertsOne ==
  ASSUME SameBlock = FALSE, TypeInv, NEW c \in Wallet, NEW batch \in Batch(c), InsertLots(c, batch)
  PROVE  \E l \in Lot : /\ l.block = Len(table) + 1 /\ l.owner = c
                        /\ table' = Append(table, l) /\ remaining' = Append(remaining, l.amount)
<1>1. table \in Seq(Lot) /\ remaining \in Seq(Nat)
  BY DEF TypeInv, TypeOK
<1>2. PICK l \in Lot : batch = <<l>> /\ l.block = Len(table) + 1 /\ l.owner = c
  BY <1>1, BatchType
<1>3. /\ table' = table \o batch
      /\ remaining' = remaining \o [i \in DOMAIN batch |-> batch[i].amount]
  BY DEF InsertLots
<1>4. [i \in DOMAIN batch |-> batch[i].amount] = <<l.amount>>
  BY <1>2
<1>5. table \o <<l>> = Append(table, l)
  BY <1>1
<1>6. remaining \o <<l.amount>> = Append(remaining, l.amount)
  <2>1. l.amount \in Nat
    BY NamesAssumption DEF Lot
  <2> QED
    BY <1>1, <2>1
<1> QED
  BY <1>2, <1>3, <1>4, <1>5, <1>6

LEMMA InsertAmounts ==
  ASSUME SameBlock = FALSE, AmountsInv, NEW c \in Wallet, NEW batch \in Batch(c), InsertLots(c, batch)
  PROVE  AmountsInv'
<1>0. TypeInv /\ ReadInv /\ PrefixInv /\ AmountInv
  BY DEF AmountsInv
<1>1. TypeInv' /\ ReadInv'
  BY <1>0, InsertTyped
<1>2. PICK l \in Lot : l.block = Len(table) + 1 /\ table' = Append(table, l)
  BY <1>0, InsertsOne
<1>3. UNCHANGED <<position, snap>> /\ table \in Seq(Lot)
  BY <1>0 DEF InsertLots, worker, TypeInv, TypeOK
<1>4. \A d, n : n \in Nat /\ n <= Len(Order(table, d)) =>
        /\ n <= Len(Order(table', d)) /\ LotsTo(table', d, n) = LotsTo(table, d, n)
        /\ RowsTo(table', d, n) = RowsTo(table, d, n)
  BY <1>2, <1>3, PrefixStable
<1>5. \A i \in DOMAIN table' : table'[i].block = i
  <2>1. \A i \in DOMAIN table : table[i].block = i
    BY <1>0 DEF PrefixInv
  <2> QED
    BY <1>2, <1>3, <2>1
<1>6. ASSUME NEW p \in Worker, NEW d \in Wallet
      PROVE  /\ Len(snap[p][d]) <= Len(Order(table', d))
             /\ snap[p][d] = LotsTo(table', d, Len(snap[p][d]))
  <2>1. Len(snap[p][d]) \in Nat
    <3>1. snap[p][d] \in Seq(1 .. Len(table))
      BY <1>0 DEF TypeInv
    <3> QED
      BY <3>1
  <2>2. /\ Len(snap[p][d]) <= Len(Order(table, d))
        /\ snap[p][d] = LotsTo(table, d, Len(snap[p][d]))
    BY <1>0 DEF PrefixInv
  <2> QED
    BY <1>4, <2>1, <2>2
<1>7. PrefixInv'
  BY <1>3, <1>5, <1>6 DEF PrefixInv
<1>8. ASSUME NEW k \in Wallet \X Wallet
      PROVE  /\ position[k].rows <= Len(Order(table', k[2]))
             /\ position[k].amount =
                  SumOf(Replay(RowsTo(table', k[2], position[k].rows)), 1 .. position[k].rows)
  <2>1. position[k].rows \in Nat
    BY <1>0 DEF TypeInv, TypeOK
  <2>2. /\ position[k].rows <= Len(Order(table, k[2]))
        /\ position[k].amount =
             SumOf(Replay(RowsTo(table, k[2], position[k].rows)), 1 .. position[k].rows)
    BY <1>0 DEF AmountInv
  <2> QED
    BY <1>4, <2>1, <2>2
<1>9. AmountInv'
  BY <1>3, <1>8 DEF AmountInv
<1> QED
  BY <1>1, <1>7, <1>9 DEF AmountsInv

\* The query returns the lots of a chain in its order, or nothing.
LEMMA QueryIsOrder ==
  ASSUME TypeInv, \A i \in DOMAIN table : table[i].block = i, NEW w \in Wallet, NEW c \in Wallet,
         NEW s \in InQueryOrder(Visible(w, c))
  PROVE  Len(s) <= Len(Order(table, c)) /\ s = LotsTo(table, c, Len(s))
<1>1. table \in Seq(Lot)
  BY DEF TypeInv, TypeOK
<1>2. Visible(w, c) = Owned(table, c) \/ s = <<>>
  BY <1>1, QueryType
<1>3. /\ Len(Order(table, c)) \in Nat /\ Order(table, c) \in Seq(1 .. Len(table))
      /\ DOMAIN Order(table, c) = 1 .. Len(Order(table, c))
  BY <1>1, OrderType
<1>4. CASE s = <<>>
  <2>1. Len(s) = 0
    BY <1>4
  <2>2. LotsTo(table, c, 0) = <<>>
    BY NothingRead
  <2> QED
    BY <1>3, <1>4, <2>1, <2>2
<1>5. CASE Visible(w, c) = Owned(table, c)
  <2> DEFINE S == Owned(table, c)
  <2>1. S \in SUBSET (1 .. Len(table)) /\ S \in SUBSET Int /\ IsFiniteSet(S) /\ DOMAIN table = 1 .. Len(table)
    BY <1>1, OwnedType
  <2>2. /\ s \in SetToSeqs(S)
        /\ \A i, j \in DOMAIN s : i < j => table[s[i]].block <= table[s[j]].block
    BY <1>5 DEF InQueryOrder
  <2> HIDE DEF S
  <2>3. s \in Seq(S) /\ DOMAIN s = 1 .. Len(s) /\ \A i, j \in 1 .. Len(s) : s[i] = s[j] => i = j
    BY <2>1, <2>2, EnumerationType
  <2>4. IsAscending(s)
    <3> SUFFICES ASSUME NEW i \in 1 .. Len(s), NEW j \in 1 .. Len(s), i < j PROVE s[i] < s[j]
      BY <2>3 DEF IsAscending
    <3>1. s[i] \in S /\ s[j] \in S /\ s[i] # s[j]
      BY <2>3
    <3>2. table[s[i]].block <= table[s[j]].block
      BY <2>2, <2>3
    <3>3. table[s[i]].block = s[i] /\ table[s[j]].block = s[j] /\ s[i] \in Int /\ s[j] \in Int
      BY <2>1, <3>1
    <3> QED
      BY <3>1, <3>2, <3>3
  <2>5. s = Order(table, c)
    BY <2>1, <2>2, <2>4, AscendType DEF Order, S
  <2> DEFINE o == Order(table, c)
  <2> HIDE DEF o
  <2>6. o \in Seq(1 .. Len(table)) /\ DOMAIN o = 1 .. Len(o) /\ Len(o) \in Nat
    BY <1>3 DEF o
  <2>7. o = [i \in 1 .. Len(o) |-> o[i]]
    BY <2>6
  <2> QED
    BY <2>5, <2>6, <2>7 DEF LotsTo, o
<1> QED
  BY <1>2, <1>4, <1>5

LEMMA ReadAmounts ==
  ASSUME AmountsInv, NEW p \in Worker, NEW w \in Wallet, ReadTables(p, w)
  PROVE  AmountsInv'
<1>0. TypeInv /\ ReadInv /\ PrefixInv /\ AmountInv
  BY DEF AmountsInv
<1>1. TypeInv' /\ ReadInv'
  BY <1>0, ReadTyped
<1>2. /\ \A q \in Worker, c \in Wallet : q # p => snap'[q][c] = snap[q][c]
      /\ \A c \in Wallet : snap'[p][c] \in InQueryOrder(Visible(w, c))
      /\ UNCHANGED <<table, position>>
  BY <1>0, ReadEffect
<1>3. \A i \in DOMAIN table : table[i].block = i
  BY <1>0 DEF PrefixInv
<1>4. ASSUME NEW q \in Worker, NEW c \in Wallet
      PROVE  /\ Len(snap'[q][c]) <= Len(Order(table, c))
             /\ snap'[q][c] = LotsTo(table, c, Len(snap'[q][c]))
  <2>1. CASE q = p
    <3>1. snap'[q][c] \in InQueryOrder(Visible(w, c))
      BY <1>2, <2>1
    <3> QED
      BY <1>0, <1>3, <3>1, QueryIsOrder
  <2>2. CASE q # p
    <3>1. snap'[q][c] = snap[q][c]
      BY <1>2, <2>2
    <3> QED
      BY <1>0, <3>1 DEF PrefixInv
  <2> QED
    BY <2>1, <2>2
<1>5. PrefixInv'
  BY <1>2, <1>3, <1>4 DEF PrefixInv
<1>6. AmountInv'
  BY <1>0, <1>2 DEF AmountInv
<1> QED
  BY <1>1, <1>5, <1>6 DEF AmountsInv

\* What a worker has read when it is done.
LEMMA RestPrefix ==
  ASSUME TypeInv, ReadInv, PrefixInv, NEW p \in Worker, Rest(p), UNCHANGED table
  PROVE  PrefixInv'
<1>1. /\ \A c \in Wallet : snap'[p][c] = <<>>
      /\ \A q \in Worker : q # p => snap'[q] = snap[q]
  BY RestEffect
<1>2. table \in Seq(Lot)
  BY DEF TypeInv, TypeOK
<1>3. ASSUME NEW q \in Worker, NEW c \in Wallet
      PROVE  /\ Len(snap'[q][c]) <= Len(Order(table, c))
             /\ snap'[q][c] = LotsTo(table, c, Len(snap'[q][c]))
  <2>1. CASE q = p
    <3>1. snap'[q][c] = <<>>
      BY <1>1, <2>1
    <3>2. Len(<<>>) = 0
      OBVIOUS
    <3>3. Len(Order(table, c)) \in Nat
      BY <1>2, OrderType
    <3>4. LotsTo(table, c, 0) = <<>>
      BY NothingRead
    <3> QED
      BY <3>1, <3>2, <3>3, <3>4
  <2>2. CASE q # p
    <3>1. snap'[q][c] = snap[q][c]
      BY <1>1, <2>2
    <3> QED
      BY <3>1 DEF PrefixInv
  <2> QED
    BY <2>1, <2>2
<1> QED
  BY <1>3 DEF PrefixInv

LEMMA AbortAmounts ==
  ASSUME AmountsInv, NEW p \in Worker, AbortWrite(p)
  PROVE  AmountsInv'
<1>0. TypeInv /\ ReadInv /\ PrefixInv /\ AmountInv
  BY DEF AmountsInv
<1>1. TypeInv' /\ ReadInv'
  BY <1>0, AbortTyped
<1>2. Rest(p) /\ UNCHANGED <<table, position>>
  BY DEF AbortWrite, lots
<1>3. PrefixInv'
  BY <1>0, <1>2, RestPrefix
<1>4. AmountInv'
  BY <1>0, <1>2 DEF AmountInv
<1> QED
  BY <1>1, <1>3, <1>4 DEF AmountsInv

\* What FIFO leaves of the lots a worker has read is what it leaves of the
\* beginning of the chain.
LEMMA LeftIsOfPrefix ==
  ASSUME TypeInv, PrefixInv, NEW p \in Worker, NEW c \in Wallet
  PROVE  LET n == Len(snap[p][c])
         IN /\ n \in Nat /\ n <= Len(Order(table, c)) /\ DOMAIN snap[p][c] = 1 .. n
            /\ \A i \in 1 .. n : snap[p][c][i] = Order(table, c)[i]
            /\ Left(p, c) = Replay(RowsTo(table, c, n))
            /\ CurrentAmount(p, c) = SumOf(Left(p, c), 1 .. n)
<1> DEFINE s == snap[p][c]
           n == Len(s)
<1>1. n <= Len(Order(table, c)) /\ s = LotsTo(table, c, n)
  BY DEF PrefixInv
<1>2. s \in Seq(1 .. Len(table))
  BY DEF TypeInv
<1>3. DOMAIN Left(p, c) = 1 .. n
  BY LeftOfRead
<1>4. Left(p, c) = Replay([i \in DOMAIN s |-> table[s[i]]])
  BY DEF Left
<1> HIDE DEF s
<1>5. DOMAIN s = 1 .. n /\ n \in Nat
  BY <1>2
<1> HIDE DEF n
<1>6. \A i \in 1 .. n : s[i] = Order(table, c)[i]
  BY <1>1 DEF LotsTo
<1>7. [i \in DOMAIN s |-> table[s[i]]] = RowsTo(table, c, n)
  BY <1>5, <1>6 DEF RowsTo
<1>8. CurrentAmount(p, c) = SumOf(Left(p, c), 1 .. n)
  BY <1>3 DEF CurrentAmount
<1> QED
  BY <1>1, <1>4, <1>5, <1>6, <1>7, <1>8 DEF s, n

LEMMA WriteAmounts ==
  ASSUME AmountsInv, NEW p \in Worker, NEW w \in Wallet, WriteTables(p, w)
  PROVE  AmountsInv'
<1>0. TypeInv /\ ReadInv /\ PrefixInv /\ AmountInv
  BY DEF AmountsInv
<1>1. TypeInv' /\ ReadInv'
  BY <1>0, WriteTyped
<1>2. /\ Rest(p) /\ UNCHANGED table
      /\ \A k \in Wallet \X Wallet :
           position'[k] = IF k[1] = w /\ snap[p][k[2]] # <<>> THEN Upserted(p, w, k[2])
                                                              ELSE position[k]
  BY <1>0, WriteEffect
<1>3. PrefixInv'
  BY <1>0, <1>2, RestPrefix
<1>4. ASSUME NEW k \in Wallet \X Wallet
      PROVE  /\ position'[k].rows <= Len(Order(table, k[2]))
             /\ position'[k].amount =
                  SumOf(Replay(RowsTo(table, k[2], position'[k].rows)), 1 .. position'[k].rows)
  <2>1. CASE k[1] = w /\ snap[p][k[2]] # <<>>
    <3> DEFINE c == k[2]
               n == Len(snap[p][c])
    <3>1. position'[k] = Upserted(p, w, c) /\ c \in Wallet
      BY <1>2, <2>1
    <3>2. position'[k].rows = n /\ position'[k].amount = CurrentAmount(p, c)
      BY <3>1 DEF Upserted
    <3>3. /\ n <= Len(Order(table, c)) /\ Left(p, c) = Replay(RowsTo(table, c, n))
          /\ CurrentAmount(p, c) = SumOf(Left(p, c), 1 .. n)
      BY <1>0, <3>1, LeftIsOfPrefix
    <3> QED
      BY <3>2, <3>3
  <2>2. CASE ~(k[1] = w /\ snap[p][k[2]] # <<>>)
    <3>1. position'[k] = position[k]
      BY <1>2, <2>2
    <3> QED
      BY <1>0, <3>1 DEF AmountInv
  <2> QED
    BY <2>1, <2>2
<1>5. AmountInv'
  BY <1>2, <1>4 DEF AmountInv
<1> QED
  BY <1>1, <1>3, <1>5 DEF AmountsInv

LEMMA AmountStutter == AmountsInv /\ UNCHANGED vars => AmountsInv'
<1> SUFFICES ASSUME AmountsInv, UNCHANGED vars PROVE AmountsInv'
  OBVIOUS
<1>1. TypeInv' /\ ReadInv'
  BY StutterTyped DEF AmountsInv
<1>2. UNCHANGED <<table, position, snap>>
  BY DEF vars, lots, worker
<1>3. PrefixInv' /\ AmountInv'
  BY <1>2 DEF AmountsInv, PrefixInv, AmountInv
<1> QED
  BY <1>1, <1>3 DEF AmountsInv

LEMMA AmountNext ==
  ASSUME SameBlock = FALSE
  PROVE  AmountsInv /\ [Next]_vars => AmountsInv'
BY InsertAmounts, ReadAmounts, AbortAmounts, WriteAmounts, AmountStutter DEF Next

\* The lots the properties speak of are those of the invariants.
LEMMA FirstLotsAre ==
  ASSUME TypeInv, NEW c \in Wallet, NEW n \in Nat, n <= Len(Order(table, c))
  PROVE  /\ FirstLots(c, n) = LotsTo(table, c, n)
         /\ LeftOfFirst(c, n) = Replay(RowsTo(table, c, n))
<1> DEFINE o == Order(table, c)
           f == SubSeq(o, 1, n)
<1>1. table \in Seq(Lot)
  BY DEF TypeInv, TypeOK
<1>2. o \in Seq(1 .. Len(table)) /\ Len(o) \in Nat /\ \A i \in 1 .. Len(o) : o[i] \in 1 .. Len(table)
  BY <1>1, OrderType
<1>3. FirstLots(c, n) = f
  BY DEF FirstLots, LotsOf, Order, Owned, Ascend, IsAscending
<1>4. n <= Len(o)
  OBVIOUS
<1> HIDE DEF o
<1>5. 1 \in Int /\ n \in Int /\ \A i \in 1 .. n : o[i] \in 1 .. Len(table)
  BY <1>2, <1>4
<1>6. /\ f \in Seq(1 .. Len(table)) /\ Len(f) = (IF 1 <= n THEN n - 1 + 1 ELSE 0)
      /\ \A i \in 1 .. n - 1 + 1 : f[i] = o[1 + i - 1]
  BY <1>5, SubSeqProperties
<1>7. Len(f) = n /\ \A i \in 1 .. n : f[i] = o[i]
  BY <1>6
<1> HIDE DEF f
<1>8. f = [i \in 1 .. n |-> o[i]] /\ DOMAIN f = 1 .. n
  BY <1>6, <1>7
<1>9. FirstLots(c, n) = LotsTo(table, c, n)
  BY <1>3, <1>8 DEF LotsTo, o
<1>10. [i \in DOMAIN f |-> table[f[i]]] = RowsTo(table, c, n)
  BY <1>7, <1>8 DEF RowsTo, o
<1> QED
  BY <1>3, <1>9, <1>10 DEF LeftOfFirst

LEMMA AmountsAreChronological == AmountsInv => AmountIsChronological
<1> SUFFICES ASSUME AmountsInv, NEW w \in Wallet, NEW c \in Wallet
             PROVE  LET left == LeftOfFirst(c, position[<<w, c>>].rows)
                    IN position[<<w, c>>].amount = SumOf(left, DOMAIN left)
  BY DEF AmountIsChronological
<1> DEFINE k == <<w, c>>
           n == position[k].rows
           left == Replay(RowsTo(table, c, n))
<1>0. TypeInv /\ AmountInv /\ table \in Seq(Lot)
  BY DEF AmountsInv, TypeInv, TypeOK
<1>1. k \in Wallet \X Wallet /\ k[2] = c
  OBVIOUS
<1> HIDE DEF k
<1>2. n \in Nat
  BY <1>0, <1>1 DEF TypeInv, TypeOK
<1>3. n <= Len(Order(table, c)) /\ position[k].amount = SumOf(left, 1 .. n)
  BY <1>0, <1>1 DEF AmountInv
<1> HIDE DEF n
<1>4. LeftOfFirst(c, n) = left
  BY <1>0, <1>2, <1>3, FirstLotsAre
<1>5. left \in Seq(Nat) /\ Len(left) = n
  BY <1>0, <1>2, <1>3, LeftType
<1> HIDE DEF left
<1>6. DOMAIN left = 1 .. n
  BY <1>5
<1> QED
  BY <1>3, <1>4, <1>6 DEF k, n

\* A stored amount is what FIFO gives for the lots it accounts for, in the order
\* of the chain, however many workers read, write and fail at a time, as long
\* as no block has two lots of a wallet: the query does not order those.
THEOREM StoredAmounts ==
  ASSUME SameBlock = FALSE
  PROVE  Spec => []AmountIsChronological
<1>1. AmountsInv /\ [Next]_vars => AmountsInv'
  BY AmountNext
<1> QED
  BY <1>1, AmountInit, AmountsAreChronological, PTL DEF Spec

-----------------------------------------------------------------------------
(* Remaining amounts.                                                      *)

RemainsInv == LinkInv /\ AmountsInv /\ GrowInv /\ RemainInv

LEMMA RemainInit == Init => RemainsInv
<1> SUFFICES ASSUME Init PROVE RemainsInv
  OBVIOUS
<1>1. LinkInv /\ AmountsInv
  BY LinkInit, AmountInit
<1>2. \A p \in Worker : busy[p] \notin Wallet
  BY NamesAssumption DEF Init
<1>3. GrowInv
  BY <1>2 DEF GrowInv
<1>4. \A w \in Wallet : Len(Order(table, w)) = 0
  <2> SUFFICES ASSUME NEW w \in Wallet PROVE Len(Order(table, w)) = 0
    OBVIOUS
  <2>1. table = <<>> /\ table \in Seq(Lot) /\ 1 .. Len(table) = {}
    BY DEF Init
  <2>2. \A i \in 1 .. Len(Order(table, w)) : Order(table, w)[i] \in 1 .. Len(table)
    BY <2>1, OrderType
  <2>3. Len(Order(table, w)) \in Nat
    BY <2>1, OrderType
  <2>4. ~(1 \in 1 .. Len(Order(table, w)))
    BY <2>1, <2>2
  <2> QED
    BY <2>3, <2>4
<1>5. RemainInv
  <2>1. \A w \in Wallet : 1 .. Len(Order(table, w)) = {}
    BY <1>4
  <2> QED
    BY <2>1 DEF RemainInv
<1> QED
  BY <1>1, <1>3, <1>5 DEF RemainsInv

\* A new lot has all of its amount, and changes what remains of no other.
LEMMA InsertRemains ==
  ASSUME SameBlock = FALSE, RemainsInv, NEW c \in Wallet, NEW batch \in Batch(c), InsertLots(c, batch)
  PROVE  RemainsInv'
<1>0. LinkInv /\ AmountsInv /\ GrowInv /\ RemainInv /\ TypeInv /\ AmountInv
  BY DEF RemainsInv, LinkInv, AmountsInv
<1>1. LinkInv' /\ AmountsInv'
  BY <1>0, InsertLinked, InsertAmounts
<1>2. PICK l \in Lot : /\ l.owner = c /\ table' = Append(table, l)
                       /\ remaining' = Append(remaining, l.amount)
  BY <1>0, InsertsOne
<1>3. UNCHANGED <<address, position, busy, snap>>
  BY DEF InsertLots, worker
<1>4. table \in Seq(Lot) /\ remaining \in Seq(Nat) /\ Len(remaining) = Len(table) /\ Len(table) \in Nat
  BY <1>0 DEF TypeInv, TypeOK
<1>5. GrowInv'
  BY <1>0, <1>3 DEF GrowInv
<1>6. l.amount \in Nat
  BY NamesAssumption DEF Lot
<1>7. /\ \A i \in 1 .. Len(table) : table'[i] = table[i] /\ remaining'[i] = remaining[i]
      /\ table'[Len(table) + 1] = l /\ remaining'[Len(table) + 1] = l.amount
  BY <1>2, <1>4, <1>6
<1>8. ASSUME NEW w \in Wallet, OnOneChain(w),
             NEW i \in 1 .. Len(Order(table', w)), table'[Order(table', w)[i]].action = "in"
      PROVE  remaining'[Order(table', w)[i]] =
               IF i <= position[<<w, w>>].rows
                 THEN Replay(RowsTo(table', w, position[<<w, w>>].rows))[i]
                 ELSE table'[Order(table', w)[i]].amount
  <2> DEFINE n == position[<<w, w>>].rows
             lot == Order(table, w)
             new == Order(table', w)
  <2>1. n \in Nat /\ n <= Len(lot)
    <3>1. <<w, w>> \in Wallet \X Wallet /\ <<w, w>>[2] = w
      OBVIOUS
    <3> QED
      BY <1>0, <3>1 DEF TypeInv, TypeOK, AmountInv
  <2>2. new = IF l.owner = w THEN Append(lot, Len(table) + 1) ELSE lot
    BY <1>2, <1>4, OrderAppend
  <2>3. lot \in Seq(1 .. Len(table)) /\ Len(lot) \in Nat /\ \A j \in 1 .. Len(lot) : lot[j] \in 1 .. Len(table)
    BY <1>4, OrderType
  <2>4. RowsTo(table', w, n) = RowsTo(table, w, n)
    BY <1>2, <1>4, <2>1, PrefixStable
  <2>5. \A j \in 1 .. Len(lot) :
          table[lot[j]].action = "in" =>
            remaining[lot[j]] = IF j <= n THEN Replay(RowsTo(table, w, n))[j] ELSE table[lot[j]].amount
    BY <1>0, <1>8 DEF RemainInv
  <2>6. i \in 1 .. Len(new) /\ table'[new[i]].action = "in"
    BY <1>8
  <2> HIDE DEF n, lot, new
  <2>7. CASE i \in 1 .. Len(lot)
    <3>1. new[i] = lot[i]
      <4>1. CASE l.owner = w
        <5>1. new = Append(lot, Len(table) + 1)
          BY <2>2, <4>1
        <5> QED
          BY <2>3, <2>7, <5>1
      <4>2. CASE l.owner # w
        BY <2>2, <4>2
      <4> QED
        BY <4>1, <4>2
    <3>2. lot[i] \in 1 .. Len(table)
      BY <2>3, <2>7
    <3>3. table'[new[i]] = table[lot[i]] /\ remaining'[new[i]] = remaining[lot[i]]
      BY <1>7, <3>1, <3>2
    <3> QED
      BY <2>4, <2>5, <2>6, <2>7, <3>3 DEF n, lot, new
  <2>8. CASE i \notin 1 .. Len(lot)
    <3>1. new = Append(lot, Len(table) + 1)
      BY <2>2, <2>6, <2>8
    <3>2. Len(new) = Len(lot) + 1 /\ new[Len(lot) + 1] = Len(table) + 1
      BY <2>3, <3>1
    <3>3. i = Len(lot) + 1
      BY <2>3, <2>6, <2>8, <3>2
    <3>4. ~(i <= n)
      BY <2>1, <2>3, <3>3
    <3>5. remaining'[new[i]] = table'[new[i]].amount
      BY <1>7, <3>2, <3>3
    <3> QED
      BY <3>4, <3>5 DEF n, new
  <2> QED
    BY <2>7, <2>8
<1>9. RemainInv'
  BY <1>3, <1>8 DEF RemainInv, OnOneChain
<1> QED
  BY <1>1, <1>5, <1>9 DEF RemainsInv

\* A call reads every lot of its wallet.
LEMMA ReadsAll ==
  ASSUME TypeInv, NEW p \in Worker, NEW w \in Wallet, ReadTables(p, w)
  PROVE  Len(snap'[p][w]) = Len(Order(table, w))
<1>1. snap'[p][w] \in InQueryOrder(Visible(w, w)) /\ table \in Seq(Lot)
  BY ReadEffect DEF TypeInv, TypeOK
<1>2. snap'[p][w] \in SetToSeqs(Owned(table, w))
  BY <1>1 DEF InQueryOrder, Visible, LotsOf, Owned
<1>3. Order(table, w) \in SetToSeqs(Owned(table, w)) /\ IsFiniteSet(Owned(table, w))
  BY <1>1, OrderType, OwnedType
<1>4. Len(snap'[p][w]) = Cardinality(Owned(table, w))
  BY <1>2, <1>3, EnumerationType
<1>5. Len(Order(table, w)) = Cardinality(Owned(table, w))
  BY <1>3, EnumerationType
<1> QED
  BY <1>4, <1>5

LEMMA ReadRemains ==
  ASSUME Overlap = FALSE, RemainsInv, NEW p \in Worker, NEW w \in Wallet, ReadTables(p, w)
  PROVE  RemainsInv'
<1>0. LinkInv /\ AmountsInv /\ GrowInv /\ RemainInv /\ TypeInv /\ AmountInv
  BY DEF RemainsInv, LinkInv, AmountsInv
<1>1. LinkInv' /\ AmountsInv'
  BY <1>0, ReadLinked, ReadAmounts
<1>2. /\ busy' = [busy EXCEPT ![p] = w]
      /\ \A q \in Worker, c \in Wallet : q # p => snap'[q][c] = snap[q][c]
      /\ UNCHANGED <<address, table, remaining, position>>
  BY <1>0, ReadEffect
<1>3. busy'[p] = w /\ \A q \in Worker : q # p => busy'[q] = busy[q]
  BY <1>0, <1>2 DEF TypeInv, TypeOK
<1>4. position[<<w, w>>].rows <= Len(snap'[p][w])
  <2>1. <<w, w>> \in Wallet \X Wallet /\ <<w, w>>[2] = w
    OBVIOUS
  <2>2. position[<<w, w>>].rows <= Len(Order(table, w))
    BY <1>0, <2>1 DEF AmountInv
  <2> QED
    BY <1>0, <2>2, ReadsAll
<1>5. ASSUME NEW q \in Worker, busy'[q] \in Wallet
      PROVE  position[<<busy'[q], busy'[q]>>].rows <= Len(snap'[q][busy'[q]])
  <2>1. CASE q = p
    BY <1>3, <1>4, <2>1
  <2>2. CASE q # p
    BY <1>0, <1>2, <1>3, <1>5, <2>2 DEF GrowInv
  <2> QED
    BY <2>1, <2>2
<1>6. GrowInv'
  BY <1>2, <1>5 DEF GrowInv
<1>7. RemainInv'
  BY <1>0, <1>2 DEF RemainInv, OnOneChain
<1> QED
  BY <1>1, <1>6, <1>7 DEF RemainsInv

LEMMA AbortRemains ==
  ASSUME RemainsInv, NEW p \in Worker, AbortWrite(p)
  PROVE  RemainsInv'
<1>0. LinkInv /\ AmountsInv /\ GrowInv /\ RemainInv /\ TypeInv /\ ReadInv
  BY DEF RemainsInv, LinkInv
<1>1. LinkInv' /\ AmountsInv'
  BY <1>0, AbortLinked, AbortAmounts
<1>2. Rest(p) /\ UNCHANGED <<address, table, remaining, position>>
  BY DEF AbortWrite, lots
<1>3. /\ busy' = [busy EXCEPT ![p] = NoWallet]
      /\ \A q \in Worker : q # p => busy'[q] = busy[q] /\ snap'[q] = snap[q]
  BY <1>0, <1>2, RestEffect
<1>4. busy'[p] \notin Wallet
  BY <1>0, <1>3, NamesAssumption DEF TypeInv, TypeOK
<1>5. GrowInv'
  BY <1>0, <1>2, <1>3, <1>4 DEF GrowInv
<1>6. RemainInv'
  BY <1>0, <1>2 DEF RemainInv, OnOneChain
<1> QED
  BY <1>1, <1>5, <1>6 DEF RemainsInv

\* Where a worker has the lots of a chain: the first ones in their places, the
\* others nowhere.
LEMMA PlacesAre ==
  ASSUME TypeInv, PrefixInv, NEW p \in Worker, NEW c \in Wallet, NEW i \in 1 .. Len(Order(table, c))
  PROVE  Places(p, Order(table, c)[i]) = IF i <= Len(snap[p][c]) THEN {i} ELSE {}
<1> DEFINE lot == Order(table, c)
           n == Len(snap[p][c])
           s == snap[p][c]
<1>1. table \in Seq(Lot)
  BY DEF TypeInv, TypeOK
<1>2. /\ Len(lot) \in Nat /\ table[lot[i]].owner = c
      /\ \A j, k \in 1 .. Len(lot) : lot[j] = lot[k] => j = k
  BY <1>1, OrderType
<1>3. n \in Nat /\ n <= Len(lot) /\ DOMAIN s = 1 .. n /\ \A j \in 1 .. n : s[j] = lot[j]
  BY LeftIsOfPrefix
<1>4. Places(p, lot[i]) = {j \in DOMAIN s : s[j] = lot[i]}
  BY <1>2 DEF Places
<1>5. i \in 1 .. Len(lot)
  OBVIOUS
<1> HIDE DEF lot, n, s
<1>6. \A j \in 1 .. n : s[j] = lot[i] <=> j = i
  <2>1. \A j \in 1 .. n : j \in 1 .. Len(lot)
    BY <1>2, <1>3
  <2> QED
    BY <1>2, <1>3, <1>5, <2>1
<1>7. Places(p, lot[i]) = {j \in 1 .. n : j = i}
  BY <1>3, <1>4, <1>6
<1>8. CASE i <= n
  <2>1. i \in 1 .. n
    BY <1>2, <1>3, <1>5, <1>8
  <2> QED
    BY <1>7, <1>8, <2>1 DEF lot, n
<1>9. CASE ~(i <= n)
  <2>1. i \notin 1 .. n
    BY <1>3, <1>9
  <2> QED
    BY <1>7, <1>9, <2>1 DEF lot, n
<1> QED
  BY <1>8, <1>9

\* What a write leaves of a deposit.
LEMMA RemainingIs ==
  ASSUME NEW p \in Worker, NEW i \in DOMAIN table, table[i].action = "in"
  PROVE  /\ Places(p, i) = {} => RemainingAfter(p, i) = remaining[i]
         /\ \A n : Places(p, i) = {n} =>
              LET left == Left(p, table[i].owner)[n]
              IN RemainingAfter(p, i) = IF left = table[i].amount THEN remaining[i] ELSE left
<1>1. ASSUME Places(p, i) = {} PROVE RemainingAfter(p, i) = remaining[i]
  BY <1>1 DEF RemainingAfter
<1>2. ASSUME NEW n, Places(p, i) = {n}
      PROVE  RemainingAfter(p, i) = IF Left(p, table[i].owner)[n] = table[i].amount
                                      THEN remaining[i] ELSE Left(p, table[i].owner)[n]
  <2>1. (CHOOSE m \in Places(p, i) : TRUE) = n
    BY <1>2
  <2> QED
    BY <1>2, <2>1 DEF RemainingAfter, IsUpdated
<1> QED
  BY <1>1, <1>2

\* A write leaves of a wallet's lots what FIFO does: of those it drew on because
\* they are updated, of the others because they still had all of their amount
\* before it.
LEMMA WriteRemains ==
  ASSUME RemainsInv, NEW p \in Worker, NEW w \in Wallet, WriteTables(p, w)
  PROVE  RemainsInv'
<1>0. /\ LinkInv /\ AmountsInv /\ GrowInv /\ RemainInv /\ TypeInv /\ ReadInv /\ PrefixInv
      /\ AmountInv /\ OneInv /\ table \in Seq(Lot)
  BY DEF RemainsInv, LinkInv, AmountsInv, TypeInv, TypeOK
<1>1. LinkInv' /\ AmountsInv'
  BY <1>0, WriteLinked, WriteAmounts
<1>2. /\ busy[p] = w /\ Rest(p) /\ UNCHANGED <<address, table>>
      /\ \A k \in Wallet \X Wallet :
           position'[k] = IF k[1] = w /\ snap[p][k[2]] # <<>> THEN Upserted(p, w, k[2])
                                                              ELSE position[k]
      /\ \A i \in DOMAIN table : remaining'[i] = RemainingAfter(p, i)
  BY <1>0, WriteEffect
<1>3. /\ busy' = [busy EXCEPT ![p] = NoWallet]
      /\ \A q \in Worker : q # p => busy'[q] = busy[q] /\ snap'[q] = snap[q]
  BY <1>0, <1>2, RestEffect
<1>4. ASSUME NEW q \in Worker, busy'[q] \in Wallet
      PROVE  position'[<<busy'[q], busy'[q]>>].rows <= Len(snap'[q][busy'[q]])
  <2>1. busy'[p] \notin Wallet
    BY <1>0, <1>3, NamesAssumption DEF TypeInv, TypeOK
  <2>2. q # p /\ busy'[q] = busy[q] /\ snap'[q] = snap[q]
    BY <1>3, <1>4, <2>1
  <2>3. busy[q] # w
    BY <1>0, <1>2, <1>4, <2>2, NamesAssumption DEF OneInv
  <2>4. position'[<<busy[q], busy[q]>>] = position[<<busy[q], busy[q]>>]
    <3>1. <<busy[q], busy[q]>> \in Wallet \X Wallet /\ <<busy[q], busy[q]>>[1] = busy[q]
      BY <1>4, <2>2
    <3> QED
      BY <1>2, <2>3, <3>1
  <2> QED
    BY <1>0, <1>4, <2>2, <2>4 DEF GrowInv
<1>5. GrowInv'
  BY <1>4 DEF GrowInv
<1>6. ASSUME NEW v \in Wallet, OnOneChain(v),
             NEW i \in 1 .. Len(Order(table, v)), table[Order(table, v)[i]].action = "in"
      PROVE  remaining'[Order(table, v)[i]] =
               IF i <= position'[<<v, v>>].rows
                 THEN Replay(RowsTo(table, v, position'[<<v, v>>].rows))[i]
                 ELSE table[Order(table, v)[i]].amount
  <2> DEFINE k == position[<<v, v>>].rows
             n == Len(snap[p][v])
             a == Order(table, v)[i]
             amount == table[a].amount
             L(m) == Replay(RowsTo(table, v, m))[i]
  <2>0. <<v, v>> \in Wallet \X Wallet /\ <<v, v>>[1] = v /\ <<v, v>>[2] = v
    OBVIOUS
  <2>1. k \in Nat /\ k <= Len(Order(table, v))
    BY <1>0, <2>0 DEF TypeInv, TypeOK, AmountInv
  <2>2. n \in Nat /\ n <= Len(Order(table, v)) /\ Left(p, v) = Replay(RowsTo(table, v, n))
    BY <1>0, LeftIsOfPrefix
  <2>3. a \in DOMAIN table /\ table[a].owner = v /\ table[a].action = "in" /\ i \in Nat \ {0}
        /\ Len(Order(table, v)) \in Nat
    <3>1. DOMAIN table = 1 .. Len(table)
      BY <1>0
    <3> QED
      BY <1>0, <1>6, <3>1, OrderType
  <2>4. remaining'[a] = RemainingAfter(p, a)
    BY <1>2, <2>3
  <2>5. remaining[a] = IF i <= k THEN L(k) ELSE amount
    BY <1>0, <1>6 DEF RemainInv
  <2>6. Places(p, a) = IF i <= n THEN {i} ELSE {}
    BY <1>0, PlacesAre
  <2>7. /\ Places(p, a) = {} => RemainingAfter(p, a) = remaining[a]
        /\ Places(p, a) = {i} => RemainingAfter(p, a) = IF L(n) = amount THEN remaining[a] ELSE L(n)
    <3>1. Left(p, table[a].owner)[i] = L(n)
      BY <2>2, <2>3
    <3> HIDE DEF a, L
    <3>2. /\ Places(p, a) = {} => RemainingAfter(p, a) = remaining[a]
          /\ \A j : Places(p, a) = {j} =>
               RemainingAfter(p, a) = IF Left(p, table[a].owner)[j] = table[a].amount
                                        THEN remaining[a] ELSE Left(p, table[a].owner)[j]
      BY <2>3, RemainingIs
    <3> QED
      BY <3>1, <3>2
  <2>8. \A m \in Nat : m <= Len(Order(table, v)) /\ i <= m => L(m) \in Nat /\ L(m) <= amount
    <3> SUFFICES ASSUME NEW m \in Nat, m <= Len(Order(table, v)), i <= m
                 PROVE  L(m) \in Nat /\ L(m) <= amount
      OBVIOUS
    <3>1. i \in 1 .. m
      OBVIOUS
    <3>2. /\ Replay(RowsTo(table, v, m)) \in Seq(Nat) /\ Len(Replay(RowsTo(table, v, m))) = m
          /\ \A j \in 1 .. m : Replay(RowsTo(table, v, m))[j] <= table[Order(table, v)[j]].amount
      BY <1>0, LeftType
    <3> QED
      BY <3>1, <3>2
  <2>9. amount \in Nat
    <3>1. table[a] \in Lot
      BY <1>0, <2>3
    <3> QED
      BY <3>1, NamesAssumption DEF Lot
  <2>10. CASE v = w /\ snap[p][v] # <<>>
    <3>1. position'[<<v, v>>] = Upserted(p, w, v)
      BY <1>2, <2>0, <2>10
    <3>2. position'[<<v, v>>].rows = n
      BY <3>1 DEF Upserted
    <3>3. k <= n
      BY <1>0, <1>2, <2>10 DEF GrowInv
    <3>4. CASE i <= n
      <4>1. L(n) \in Nat /\ L(n) <= amount
        BY <2>2, <2>8, <3>4
      <4>2. ASSUME L(n) = amount PROVE remaining[a] = amount
        <5>1. CASE i <= k
          <6>1. L(k) \in Nat /\ L(k) <= amount
            BY <2>1, <2>8, <5>1
          <6>2. i \in 1 .. k
            BY <2>1, <2>3, <5>1
          <6>3. L(n) <= L(k)
            BY <1>0, <2>1, <2>2, <3>3, <6>2, LeftShrinks
          <6>4. L(k) = amount
            <7> HIDE DEF L, amount
            <7> QED
              BY <2>9, <4>2, <6>1, <6>3
          <6> QED
            BY <2>5, <5>1, <6>4
        <5>2. CASE ~(i <= k)
          BY <2>5, <5>2
        <5> QED
          BY <5>1, <5>2
      <4>3. remaining'[a] = L(n)
        <5> HIDE DEF L, amount
        <5> QED
          BY <2>4, <2>6, <2>7, <3>4, <4>2
      <4> QED
        BY <3>2, <3>4, <4>3
    <3>5. CASE ~(i <= n)
      <4>1. ~(i <= k)
        BY <2>1, <2>2, <2>3, <3>3, <3>5
      <4>2. remaining'[a] = amount
        <5> HIDE DEF L, amount
        <5> QED
          BY <2>4, <2>5, <2>6, <2>7, <3>5, <4>1
      <4> QED
        BY <3>2, <3>5, <4>2
    <3> QED
      BY <3>4, <3>5
  <2>11. CASE ~(v = w /\ snap[p][v] # <<>>)
    <3>1. position'[<<v, v>>] = position[<<v, v>>]
      BY <1>2, <2>0, <2>11
    <3>2. Places(p, a) = {}
      <4> SUFFICES ASSUME Places(p, a) # {} PROVE FALSE
        OBVIOUS
      <4>1. snap[p][v] # <<>> /\ busy[p] = v
        BY <1>0, <1>6, <2>3, PlaceRead
      <4> QED
        BY <1>2, <2>11, <4>1
    <3>3. remaining'[a] = remaining[a]
      BY <2>4, <2>7, <3>2
    <3> QED
      BY <2>5, <3>1, <3>3
  <2> QED
    BY <2>10, <2>11
<1>7. RemainInv'
  BY <1>2, <1>6 DEF RemainInv, OnOneChain
<1> QED
  BY <1>1, <1>5, <1>7 DEF RemainsInv

LEMMA RemainStutter == RemainsInv /\ UNCHANGED vars => RemainsInv'
<1> SUFFICES ASSUME RemainsInv, UNCHANGED vars PROVE RemainsInv'
  OBVIOUS
<1>1. LinkInv' /\ AmountsInv'
  BY LinkStutter, AmountStutter DEF RemainsInv
<1>2. UNCHANGED <<address, table, remaining, position, busy, snap>>
  BY DEF vars, lots, worker
<1>3. GrowInv' /\ RemainInv'
  BY <1>2 DEF RemainsInv, GrowInv, RemainInv, OnOneChain
<1> QED
  BY <1>1, <1>3 DEF RemainsInv

LEMMA RemainNext ==
  ASSUME Overlap = FALSE, SameBlock = FALSE
  PROVE  RemainsInv /\ [Next]_vars => RemainsInv'
BY InsertRemains, ReadRemains, AbortRemains, WriteRemains, RemainStutter DEF Next

LEMMA RemainsAgree == RemainsInv => LotsAgreeWithPosition
<1> SUFFICES ASSUME RemainsInv, NEW w \in Wallet, OnOneChain(w)
             PROVE  LET p == position[<<w, w>>]
                        s == FirstLots(w, p.rows)
                    IN p.amount = SumOf([i \in DOMAIN s |->
                                           IF table[s[i]].action = "in" THEN remaining[s[i]] ELSE 0],
                                        DOMAIN s)
  BY DEF LotsAgreeWithPosition
<1> DEFINE k == <<w, w>>
           n == position[k].rows
           left == Replay(RowsTo(table, w, n))
           s == FirstLots(w, n)
           f == [i \in DOMAIN s |-> IF table[s[i]].action = "in" THEN remaining[s[i]] ELSE 0]
<1>0. TypeInv /\ AmountInv /\ RemainInv /\ table \in Seq(Lot)
  BY DEF RemainsInv, AmountsInv, TypeInv, TypeOK
<1>1. k \in Wallet \X Wallet /\ k[2] = w
  OBVIOUS
<1>2. n \in Nat
  BY <1>0, <1>1 DEF TypeInv, TypeOK
<1>3. n <= Len(Order(table, w)) /\ position[k].amount = SumOf(left, 1 .. n)
  BY <1>0, <1>1 DEF AmountInv
<1>4. \A i \in 1 .. Len(Order(table, w)) : table[Order(table, w)[i]].action = "in" =>
        remaining[Order(table, w)[i]] = IF i <= n THEN left[i] ELSE table[Order(table, w)[i]].amount
  BY <1>0 DEF RemainInv
<1> HIDE DEF k, n
<1>5. s = LotsTo(table, w, n)
  BY <1>0, <1>2, <1>3, FirstLotsAre
<1>6. /\ left \in Seq(Nat) /\ Len(left) = n
      /\ \A i \in 1 .. n : table[Order(table, w)[i]].action # "in" => left[i] = 0
  BY <1>0, <1>2, <1>3, LeftType
<1>7. DOMAIN s = 1 .. n /\ \A i \in 1 .. n : s[i] = Order(table, w)[i]
  BY <1>5 DEF LotsTo
<1>8. Len(Order(table, w)) \in Nat
  BY <1>0, OrderType
<1> HIDE DEF left, s
<1>9. \A i \in 1 .. n : f[i] = left[i] /\ left[i] \in Int
  <2> SUFFICES ASSUME NEW i \in 1 .. n PROVE f[i] = left[i] /\ left[i] \in Int
    OBVIOUS
  <2>1. i \in 1 .. Len(Order(table, w)) /\ i <= n
    BY <1>2, <1>3, <1>8
  <2>2. f[i] = IF table[Order(table, w)[i]].action = "in" THEN remaining[Order(table, w)[i]] ELSE 0
    BY <1>7
  <2>3. left[i] \in Int
    BY <1>6
  <2> QED
    BY <1>4, <1>6, <2>1, <2>2, <2>3
<1> HIDE DEF f
<1>10. 1 \in Int /\ n \in Int
  BY <1>2
<1>11. IsFiniteSet(1 .. n)
  BY <1>10, FS_Interval
<1>12. SumOf(f, 1 .. n) = SumOf(left, 1 .. n)
  BY <1>9, <1>11, SumSame
<1> QED
  BY <1>3, <1>7, <1>12 DEF f, s, n, k

\* The remaining amounts of the lots of a wallet add up to its position, from
\* the second call on as from the first one, although a call writes only those
\* it drew on: calls for a wallet do not overlap, a block has one lot of it, and
\* its address is on no other chain.
THEOREM RemainingAddsUp ==
  ASSUME Overlap = FALSE, SameBlock = FALSE
  PROVE  Spec => []LotsAgreeWithPosition
<1>1. RemainsInv /\ [Next]_vars => RemainsInv'
  BY RemainNext
<1> QED
  BY <1>1, RemainInit, RemainsAgree, PTL DEF Spec

=============================================================================
