-------------------------------- MODULE Bank --------------------------------
(***************************************************************************)
(* Everything the bank of one game does: the operations of Money, Credit   *)
(* and Estate, the two that reach into all of them (the reversal of an     *)
(* earlier transaction and a bankruptcy), and what must stay true of the   *)
(* books whatever is done in whatever order.                               *)
(***************************************************************************)
EXTENDS Credit, Estate

NonReversible == {"REVERSAL", "BANKRUPTCY_TRANSFER", "LOAN_ISSUE", "LOAN_REPAYMENT",
                  "TO_JACKPOT", "JACKPOT_PAYOUT"}

reversibleTransaction(tx) ==
  /\ tx.type \notin NonReversible
  /\ tx.type \in {"MORTGAGE", "MORTGAGE_REDEMPTION"} => tx.tiles # {}

DependentTypes == {"MORTGAGE", "MORTGAGE_REDEMPTION", "LOAN_ISSUE", "LOAN_REPAYMENT",
                   "AUCTION_PAYMENT", "TO_JACKPOT", "JACKPOT_PAYOUT", "BANKRUPTCY_TRANSFER"}

RegistryTypes == {"PROPERTY_PURCHASE", "MORTGAGE", "MORTGAGE_REDEMPTION",
                  "AUCTION_PAYMENT", "PAY_RENT", "PROPERTY_BUILD",
                  "PROPERTY_SELL_BUILDING", "PROPERTY_TRANSFER"}

RentAndBuildings == {"PAY_RENT", "PROPERTY_BUILD", "PROPERTY_SELL_BUILDING"}

\* Mutant: only the tiles of the transaction itself are looked at.
NoGroupBlockers(type) == {}

\* Later types that block a reversal anywhere in the colour group.
groupBlockers(type) ==
  CASE type \in {"PROPERTY_PURCHASE", "AUCTION_PAYMENT", "PROPERTY_TRANSFER"} ->
         RentAndBuildings
    [] type \in {"PROPERTY_BUILD", "PROPERTY_SELL_BUILDING"} ->
         RentAndBuildings \cup {"MORTGAGE"}
    [] type = "MORTGAGE_REDEMPTION" -> RentAndBuildings \ {"PAY_RENT"}
    [] OTHER -> {}

Group(tiles) == UNION {groupTiles(t) : t \in tiles}

Overlap(s, t) == s \cap t # {}

\* The later transactions, not reversed themselves, that build on i.
ReversalDependencies(i) ==
  {j \in i + 1 .. Len(log) :
    /\ ~Reversed(j)
    /\ \/ /\ log[j].type \in DependentTypes
          /\ Overlap(DOMAIN log[i].delta, DOMAIN log[j].delta)
       \/ log[j].type \in RegistryTypes /\ Overlap(log[i].tiles, log[j].tiles)
       \/ /\ log[j].type \in groupBlockers(log[i].type)
          /\ Overlap(Group(log[i].tiles), log[j].tiles)}

\* The mortgage row goes back with its transaction.
mortgageReversal(i) ==
  [m \in DOMAIN mortgages |->
    IF m = i THEN [mortgages[m] EXCEPT !.state = "RELEASED"]
    ELSE IF mortgages[m].redeemedBy = i
           THEN [mortgages[m] EXCEPT !.state = "ACTIVE", !.redeemedBy = 0]
           ELSE HandOver(invertChanges(log[i].changes))[m]]

reverseTransaction(i) ==
  LET original == log[i]
      changes  == invertChanges(original.changes)
  IN /\ reversibleTransaction(original)
     /\ ~Reversed(i)
     /\ ReversalDependencies(i) = {}
     /\ DOMAIN original.delta \subseteq Active
     /\ Matches(registry, changes)
     /\ Commit([TileTx("REVERSAL", [p \in DOMAIN original.delta |-> -original.delta[p]],
                       original.tiles, changes) EXCEPT !.undoes = i])
     /\ registry' = applyChanges(registry, changes)
     /\ mortgages' = mortgageReversal(i)
     /\ UNCHANGED trades /\ Frame
-----------------------------------------------------------------------------
Owned(p) == {t \in DOMAIN registry : registry[t].owner = p}

\* The bankrupt's tiles: buildings sold, then to the creditor as they stand,
\* or back to the bank.
bankruptcyAssets(p, heir) ==
  [t \in Owned(p) |->
    Change(registry[t], IF heir = Bank THEN Unowned
                        ELSE [registry[t] EXCEPT !.owner = heir, !.houses = 0])]

proceeds(p) == SumFunction([t \in Owned(p) |-> registry[t].houses * sellRefund(t)])

\* What the bank takes of a wallet for the loan l: principal first, then the
\* interest at the rate the rounds suggest.
settleBankLoan(l, cash) ==
  LET loan  == loans[l]
      owed  == loan.principal - loan.repaid
      debt  == owed + bankLoanInterest(loan.principal, suggestedRatePercent(loanRound(l)))
      taken == Min({cash, debt})
      paid  == Min({taken, owed})
  IN [tx |-> NextId, loan |-> l, amount |-> paid, interest |-> taken - paid]

Settlements(p) == {settleBankLoan(l, wallet[p] + proceeds(p)) : l \in bankLoanOf(p)}

BankTake(p) == SumFunction([s \in Settlements(p) |-> s.amount + s.interest])

heirFee(p, heir) == IF heir = Bank THEN 0 ELSE FeesOf(Owned(p))

heirNet(p, heir) == wallet[p] + proceeds(p) - BankTake(p) - heirFee(p, heir)

\* Mutant: the bankrupt's own row is forgotten.
CreditorDelta(p, heir) ==
  [q \in {r \in {heir} \ {Bank} : heirNet(p, r) # 0} |-> heirNet(p, q)]

\* A wallet that does not move has no participant row.
bankruptcyDelta(p, heir) ==
  [q \in {r \in {p} : wallet[r] # 0} \cup {r \in {heir} \ {Bank} : heirNet(p, r) # 0} |->
    IF q = p THEN -wallet[p] ELSE heirNet(p, q)]

\* What the loans become: the bank's first, then the bankrupt's debts are
\* forgiven, then what was owed to them passes to the creditor, who cannot
\* owe it to themselves.
bankruptLoans(p, heir) ==
  LET Paid(l) == SumFunction([s \in {x \in Settlements(p) : x.loan = l} |-> s.amount])
      Closed(loan, paid) ==
        [loan EXCEPT !.repaid = @ + paid,
           !.state = IF loan.repaid + paid = loan.principal THEN "REPAID" ELSE "WRITTEN_OFF"]
  IN [l \in DOMAIN loans |->
       IF l \notin ActiveLoans \/ p \notin {loans[l].borrower, loans[l].lender} THEN loans[l]
       ELSE IF loans[l].borrower = p THEN Closed(loans[l], Paid(l))
       ELSE IF heir \notin {Bank, loans[l].borrower} THEN [loans[l] EXCEPT !.lender = heir]
       ELSE [loans[l] EXCEPT !.state = "WRITTEN_OFF"]]

\* Mutant: every mortgage is handed on, to the bank too.
MortgagesHandedOn(p, heir) ==
  [m \in DOMAIN mortgages |->
    IF mortgages[m].player = p THEN [mortgages[m] EXCEPT !.player = heir] ELSE mortgages[m]]

\* The creditor takes the mortgages over, except one under a name they have
\* mortgaged themselves; the rest is released.
Clash(m, heir) ==
  \E n \in ActiveMortgages : mortgages[n].player = heir /\ mortgages[n].item = mortgages[m].item

bankruptMortgages(p, heir) ==
  [m \in DOMAIN mortgages |->
    IF m \notin ActiveMortgages \/ mortgages[m].player # p THEN mortgages[m]
    ELSE IF heir = Bank \/ Clash(m, heir)
           THEN [mortgages[m] EXCEPT !.state = "RELEASED"]
           ELSE [mortgages[m] EXCEPT !.player = heir]]

\* Mutant: trades are left to their recipients.
TradesUntouched(p) == trades

bankruptTrades(p) ==
  [r \in DOMAIN trades |->
    IF trades[r].state = "PENDING" /\ p \in {trades[r].from, trades[r].to}
      THEN [trades[r] EXCEPT !.state = "CANCELLED"] ELSE trades[r]]

declareBankruptcy(p, heir) ==
  LET changes == bankruptcyAssets(p, heir)
      delta   == bankruptcyDelta(p, heir)
  IN /\ p # heir
     /\ Len(log) < MaxLog
     /\ Covered(delta)
     /\ log' = Append(log, TileTx("BANKRUPTCY_TRANSFER", delta, {}, changes))
     /\ wallet' = [After(delta) EXCEPT ![p] = 0]
     /\ bankrupt' = bankrupt \cup {p}
     /\ registry' = applyChanges(registry, changes)
     /\ mortgages' = bankruptMortgages(p, heir)
     /\ loans' = bankruptLoans(p, heir)
     /\ repayments' = repayments \cup {s \in Settlements(p) : s.amount > 0}
     /\ trades' = bankruptTrades(p)
     /\ UNCHANGED <<pot, requests, confirm, now>>

ReverseStep == \E i \in DOMAIN log : reverseTransaction(i)

BankruptcyStep == \E p \in Active, heir \in Active \cup {Bank} : declareBankruptcy(p, heir)

Next ==
  \/ MoneyStep
  \/ RequestStep
  \/ LoanStep
  \/ BankLoanStep
  \/ TileStep
  \/ BuildingStep
  \/ MortgageStep
  \/ TradeStep
  \/ ReverseStep
  \/ BankruptcyStep
  \/ Tick

Spec == Init /\ [][Next]_vars
-----------------------------------------------------------------------------
DeltaOf(i, p) == IF p \in DOMAIN log[i].delta THEN log[i].delta[p] ELSE 0
OfType(type) == {i \in DOMAIN log : log[i].type = type}

\* Types of the books; a mortgage, a loan and a trade always name players.
TypeOK ==
  /\ wallet \in [Players -> Int] /\ pot \in Nat
  /\ bankrupt \subseteq Players /\ confirm \in BOOLEAN
  /\ Len(log) <= MaxLog
  /\ \A t \in DOMAIN registry :
       /\ registry[t].owner \in Players \cup {Bank}
       /\ registry[t].houses \in 0 .. MaxBuildings /\ registry[t].mortgaged \in BOOLEAN
  /\ DOMAIN mortgages \cup DOMAIN loans \subseteq DOMAIN log
  /\ \A m \in DOMAIN mortgages :
       /\ mortgages[m].player \in Players
       /\ mortgages[m].state \in {"ACTIVE", "REDEEMED", "RELEASED"}
  /\ \A l \in DOMAIN loans :
       /\ loans[l].borrower \in Players /\ loans[l].lender \in Players \cup {Bank}
       /\ loans[l].state \in {"ACTIVE", "REPAID", "WRITTEN_OFF"}
  /\ Len(requests) <= MaxRequests /\ Len(trades) <= MaxRequests
  /\ \A r \in DOMAIN trades : {trades[r].from, trades[r].to} \subseteq Players
  /\ now \in 0 .. MaxTime

\* The books balance: every wallet is its opening balance and what the log
\* says it paid and got, no wallet and no pot is overdrawn, and the pot holds
\* what was paid into it and not yet collected.  Wallets and participant rows
\* are written by different statements, a bankruptcy zeroes one on its own.
BooksBalance ==
  /\ \A p \in Players :
       /\ wallet[p] >= 0
       /\ wallet[p] = Opening + SumFunction([i \in DOMAIN log |-> DeltaOf(i, p)])
  /\ pot = - SumFunction([i \in OfType("TO_JACKPOT") \cup OfType("JACKPOT_PAYOUT") |->
                            SumFunction([p \in Players |-> DeltaOf(i, p)])])

\* A bankrupt player keeps nothing and owes nothing: no money, no tile, no
\* mortgage to redeem, no loan on either side, no trade anybody could accept;
\* and no later operation, reversal or acceptance gives them anything.
BankruptHoldNothing ==
  \A p \in bankrupt :
    /\ wallet[p] = 0
    /\ Owned(p) = {}
    /\ \A m \in ActiveMortgages : mortgages[m].player # p
    /\ \A l \in ActiveLoans : p \notin {loans[l].lender, loans[l].borrower}
    /\ \A r \in DOMAIN trades :
         trades[r].state = "PENDING" => p \notin {trades[r].from, trades[r].to}

\* The mortgage flag of a tile and the table of mortgages tell the same story:
\* a tile is mortgaged exactly while one active row stands for it, under its
\* owner, who can therefore redeem it.  Trades, bankruptcies and reversals
\* write the two with different statements.
MortgagesMatchTiles ==
  \A t \in DOMAIN registry :
    LET rows == {m \in ActiveMortgages : mortgages[m].item = t}
    IN /\ registry[t].mortgaged <=> rows # {}
       /\ \A m \in rows : rows = {m} /\ mortgages[m].player = registry[t].owner

Built(t) == groupHasBuildings(registry, t)

\* One player holds the whole colour group of t, free of mortgages.
WholeGroup(t) ==
  \A u \in groupTiles(t) : ~registry[u].mortgaged /\ registry[u].owner = registry[t].owner

\* Buildings stand only on a whole group: one owner, nothing mortgaged.
BuiltGroupsWhole ==
  \A t \in DOMAIN registry : Built(t) => WholeGroup(t) /\ registry[t].owner # Bank

\* The one way the code leaves a group with buildings broken: a sale of
\* buildings is reversed after another tile of the group was traded away.
SaleReversedAfterTrade(t) ==
  \E i \in OfType("PROPERTY_SELL_BUILDING"), j \in OfType("PROPERTY_TRANSFER") :
    /\ i < j /\ Reversed(i)
    /\ Overlap(log[i].tiles, groupTiles(t)) /\ Overlap(log[j].tiles, groupTiles(t))

\* Buildings stay where the rules let them be through trades, mortgages,
\* bankruptcies and reversals: at levels at most one apart under the
\* even-building rule and, that way out aside, on whole groups.
BuildingsAreSound ==
  \A t \in DOMAIN registry : Built(t) =>
    /\ Rules.buildEvenly =>
         \A u, v \in groupTiles(t) : registry[u].houses - registry[v].houses <= 1
    /\ ~SaleReversedAfterTrade(t) => WholeGroup(t) /\ registry[t].owner # Bank

\* What was asked for moves at most once, only while it was pending, and to
\* the parties it named: an accepted request or trade has exactly its own
\* transaction, a declined or cancelled one has none.
RequestsSettleOnce ==
  /\ \A r \in DOMAIN requests :
       LET q == requests[r]
           moved == {i \in DOMAIN log : log[i].via = r}
       IN /\ Cardinality(moved) <= 1
          /\ q.state = "ACCEPTED" => moved = {q.tx}
          /\ q.state \in {"DECLINED", "CANCELLED"} => moved = {}
          /\ \A i \in moved : DeltaOf(i, q.payer) = -q.amount /\ DeltaOf(i, q.recipient) = q.amount
  /\ \A i \in OfType("PROPERTY_TRANSFER") :
       Cardinality({r \in DOMAIN trades : trades[r].tx = i /\ trades[r].state = "ACCEPTED"}) = 1

\* The loans agree with the repayments recorded for them, a loan is closed as
\* repaid exactly when its principal is covered, nobody has two bank loans and
\* a loan between players exists only for a request its lender accepted.
LoansMatchRepayments ==
  /\ \A l \in DOMAIN loans :
       /\ loans[l].repaid = SumFunction([x \in {y \in repayments : y.loan = l} |-> x.amount])
       /\ loans[l].repaid <= loans[l].principal
       /\ loans[l].state = "REPAID" <=> loans[l].repaid = loans[l].principal
       /\ loans[l].lender # Bank =>
            \E r \in DOMAIN requests :
              requests[r].kind = "LOAN" /\ requests[r].state = "ACCEPTED" /\ requests[r].tx = l
  /\ \A p \in Players : Cardinality(bankLoanOf(p)) <= 1

Reversal == log' # log /\ log'[Len(log')].type = "REVERSAL"

\* Turns only go forward.  The round of a running bank loan, and with it the
\* suggested interest, only ever advances and a cooldown only runs out, whoever
\* acts, pays or goes bankrupt (round-tracking.ts, transactionActor).  A
\* reversal takes turns back; a cooldown starts anew with another repayment,
\* and a bank loan of anybody widens the part of the log that is read.
TurnsOnlyAdvance ==
  [][~Reversal =>
       /\ \A l \in BankLoans : l \in BankLoans' => loanRound(l)' >= loanRound(l)
       /\ repayments' = repayments /\ (BankLoans' = {} \/ BankLoans # {}) =>
            \A p \in Players : roundsLeft(p)' <= roundsLeft(p)]_vars
=============================================================================
