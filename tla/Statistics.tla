----------------------------- MODULE Statistics -----------------------------
(***************************************************************************)
(* What the summary of a game makes of its log: who sent and received how  *)
(* much, and the balance chart, thinned to a fixed number of points, on    *)
(* which a player's line ends where they went bankrupt.                    *)
(***************************************************************************)
EXTENDS Bank

CONSTANT SeriesPoints    \* MAX_SERIES_POINTS

ASSUME StatisticsAssumption == SeriesPoints \in Nat /\ SeriesPoints > 1

LoanTypes == {"LOAN_ISSUE", "LOAN_REPAYMENT"}

\* Mutant: the reversed transaction itself goes on counting.
CountedUnlessReversal(i) == log[i].type # "REVERSAL"

\* Neither a reversed transaction nor its reversal counts.
countedTransaction(i) == log[i].type # "REVERSAL" /\ ~Reversed(i)

Counted == {i \in DOMAIN log : countedTransaction(i)}

\* Loans are neither income nor expense.
MovedBy(p) == {i \in Counted : log[i].type \notin LoanTypes /\ p \in DOMAIN log[i].delta}
totalPaid(p) == SumFunction([i \in MovedBy(p) |-> Max({0, -log[i].delta[p]})])
totalReceived(p) == SumFunction([i \in MovedBy(p) |-> Max({0, log[i].delta[p]})])
-----------------------------------------------------------------------------
\* The ledger is read joined with its participants: a transaction that moved
\* nobody's money is not in it.
Entries == {i \in Counted : DOMAIN log[i].delta # {}}

\* The step of the chart that an entry makes.
stepOf(entries, i) == Cardinality({j \in entries : j <= i})

\* The steps the chart keeps: all of them, or evenly spaced ones, rounded.
keep(steps) ==
  LET last == SeriesPoints - 1
  IN [n \in 1 .. Min({steps + 1, SeriesPoints}) |->
       IF steps < SeriesPoints THEN n - 1
       ELSE (2 * (n - 1) * steps + last) \div (2 * last)]

\* The balance of p after the first k entries, and on the chart.
running(entries, k, p) ==
  Opening + SumFunction([i \in {j \in entries : stepOf(entries, j) <= k} |-> DeltaOf(i, p)])

balances(entries, p) ==
  LET steps == keep(Cardinality(entries))
  IN [n \in DOMAIN steps |-> running(entries, steps[n], p)]

\* The first step at which a bankruptcy took money from p: none or one.
bankruptAt(entries, p) ==
  LET taken == {i \in entries : log[i].type = "BANKRUPTCY_TRANSFER" /\ DeltaOf(i, p) < 0}
  IN {stepOf(entries, i) : i \in {k \in taken : \A l \in taken : k <= l}}

\* The point a line ends at: none or one.
endIndex(entries, p) ==
  LET steps == keep(Cardinality(entries))
      ends  == {n \in DOMAIN steps : \E k \in bankruptAt(entries, p) : steps[n] >= k}
  IN {n \in ends : \A m \in ends : n <= m}
-----------------------------------------------------------------------------
\* p was given tiles of somebody who went bankrupt.
TookOver(p) ==
  \E i \in OfType("BANKRUPTCY_TRANSFER") :
    \E t \in DOMAIN log[i].changes : log[i].changes[t].after.owner = p

\* The statistics add up to the table: opening balance, income, expense and
\* loans make the wallet; a line of the chart starts at the opening balance and
\* ends at the wallet; and a line that is cut short belongs to a bankrupt and
\* says zero from there on, unless its player had to pay for the mortgages of
\* somebody else's bankruptcy; however many reversals, loans and bankruptcies
\* the log holds and however it is thinned (calculate, calculateBalanceSeries).
StatisticsAddUp ==
  LET entries == Entries IN
  \A p \in Players :
    LET line == balances(entries, p)
    IN /\ wallet[p] = Opening + totalReceived(p) - totalPaid(p)
            + SumFunction([i \in {j \in Counted : log[j].type \in LoanTypes} |-> DeltaOf(i, p)])
       /\ line[1] = Opening /\ line[Len(line)] = wallet[p]
       /\ ~TookOver(p) =>
            \A n \in endIndex(entries, p) : p \in bankrupt /\ \A m \in n .. Len(line) : line[m] = 0

\* "`endIndex` is the last point of a player who went bankrupt; absent for
\* everyone else" (contracts/api.ts:628), in its two directions.
LinesEndAtBankruptcy == \A p \in bankrupt : endIndex(Entries, p) # {}

OtherLinesRunOn == \A p \in Active : endIndex(Entries, p) = {}
=============================================================================
