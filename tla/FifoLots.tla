------------------------------ MODULE FifoLots ------------------------------
(***************************************************************************)
(* What FIFO accounting means, without a loop: the rows of one position    *)
(* group in chronological order, and what is left of each deposit.         *)
(***************************************************************************)
EXTENDS Integers, Sequences, SequencesExt

AtLeastZero(n) == IF n < 0 THEN 0 ELSE n

\* The sum of left[i] for i in S.
SumOf(left, S) == SumFunctionOnSet(left, S)

\* Mutant: a lot may be drawn on for more than is left of it.
WithdrawUnclamped(left, w) ==
  [i \in DOMAIN left |-> left[i] - AtLeastZero(w - SumOf(left, 1 .. i - 1))]

\* A withdrawal of w passes over what is left of the older deposits, and takes
\* from each what they could not cover.  Withdrawn rows have nothing left.
Withdraw(left, w) ==
  [i \in DOMAIN left |-> AtLeastZero(left[i] - AtLeastZero(w - SumOf(left, 1 .. i - 1)))]

\* What is left of each row after all of them, a row being a record whose
\* action is "in" or "out".
Replay(rows) ==
  FoldLeft(LAMBDA left, r : IF r.action = "in" THEN Append(left, r.amount)
                                               ELSE Append(Withdraw(left, r.amount), 0),
           <<>>, rows)
=============================================================================
