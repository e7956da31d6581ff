------------------------------- MODULE Credit -------------------------------
(***************************************************************************)
(* Loans: between players (asked for with a payment request the lender     *)
(* accepts, repaid in parts) and from the bank (paid out at once, repaid   *)
(* whole with interest).  Rounds and cooldowns are stored nowhere: they    *)
(* are read off the log, from whose operations follow one another.         *)
(***************************************************************************)
EXTENDS Money

Rates == {0, 10, 20}
CooldownRounds == 2

DebitTypes == {"PLAYER_TO_PLAYER", "PAY_RENT", "PLAYER_TO_BANK", "PLAYER_TO_ALL", "TO_JACKPOT"}
CreditTypes == {"BANK_TO_PLAYER", "PASS_GO", "ALL_TO_PLAYER", "JACKPOT_PAYOUT"}

\* Mutant: what a bankrupt player did no longer counts.
ActorUnlessBankrupt(i) ==
  LET side  == IF log[i].type \in DebitTypes THEN -1 ELSE 1
      actor == soleParticipant(log[i], side)
  IN IF Reversed(i) \/ log[i].type \notin DebitTypes \cup CreditTypes \/ actor \in bankrupt
       THEN Bank ELSE actor

\* Whose turn transaction i belongs to; Bank when it tells nothing.
transactionActor(i) ==
  IF Reversed(i) THEN Bank
  ELSE CASE log[i].type \in DebitTypes -> soleParticipant(log[i], -1)
         [] log[i].type \in CreditTypes -> soleParticipant(log[i], 1)
         [] OTHER -> Bank

\* The turns p started after the anchor: its first operations after another
\* player's.  The run right after the anchor is the turn the anchor fell in.
turnsStartedSince(anchor, p) ==
  LET later == {i \in anchor + 1 .. Len(log) : transactionActor(i) # Bank}
      StartsTurn(i) ==
        \E j \in later :
          /\ j < i /\ transactionActor(j) # p
          /\ \A k \in later : k <= j \/ k >= i
  IN Cardinality({i \in later : transactionActor(i) = p /\ StartsTurn(i)})

suggestedRatePercent(round) == IF round <= 1 THEN 0 ELSE IF round = 2 THEN 10 ELSE 20

ActiveLoans == {l \in DOMAIN loans : loans[l].state = "ACTIVE"}
BankLoans == {l \in ActiveLoans : loans[l].lender = Bank}
bankLoanOf(p) == {l \in BankLoans : loans[l].borrower = p}

loanRound(l) == 1 + turnsStartedSince(l, loans[l].borrower)

bankLoanInterest(principal, rate) == (principal * rate + 50) \div 100

\* The latest repayments that closed a bank loan of p: a set of one or none.
latestRepayment(p) ==
  LET ids == {x.tx : x \in {y \in repayments :
                /\ loans[y.loan].lender = Bank
                /\ loans[y.loan].borrower = p
                /\ loans[y.loan].state = "REPAID"}}
  IN {i \in ids : \A j \in ids : j <= i}

\* While nobody has a bank loan only the newest transactions are read, and a
\* repayment before them counts as long past.
InWindow(i) == BankLoans # {} \/ i > Len(log) - ScanWindow

roundsLeft(p) ==
  LET since == {i \in latestRepayment(p) : InWindow(i) /\ p \in Active}
  IN SumFunction([i \in since |-> Max({0, CooldownRounds - turnsStartedSince(i, p)})])
-----------------------------------------------------------------------------
Loan(lender, borrower, a) ==
  [lender |-> lender, borrower |-> borrower, principal |-> a, repaid |-> 0,
   state |-> "ACTIVE"]

\* A player loan is a request to the lender, whatever the payment mode.
createLoanRequest(lender, borrower, a) ==
  /\ lender # borrower
  /\ Available(lender, a)
  /\ Len(requests) < MaxRequests
  /\ requests' = Append(expirePending(requests), Request("LOAN", lender, borrower, a))
  /\ UNCHANGED money /\ UNCHANGED Rest

acceptLoan(r, later) ==
  LET q == requests[r]
  IN /\ q.kind = "LOAN"
     /\ {q.payer, q.recipient} \subseteq Active
     /\ q.due > later
     /\ settle(r, later, Tx("LOAN_ISSUE", Moves(q.payer, q.recipient, q.amount)))
     /\ loans' = Insert(loans, Loan(q.payer, q.recipient, q.amount))

\* Mutant: closed only by more than was lent.
RepaidStrictly(l, amount) ==
  [loans EXCEPT ![l].repaid = @ + amount,
                ![l].state = IF loans[l].repaid + amount > loans[l].principal
                             THEN "REPAID" ELSE @]

Repaid(l, amount) ==
  [loans EXCEPT ![l].repaid = @ + amount,
                ![l].state = IF loans[l].repaid + amount = loans[l].principal
                             THEN "REPAID" ELSE @]

Repayment(l, amount, interest) ==
  [tx |-> NextId, loan |-> l, amount |-> amount, interest |-> interest]

CreditFrame == UNCHANGED <<pot, estate, requests, bankrupt, confirm, trades, now>>

repayLoan(l, a) ==
  LET loan == loans[l]
  IN /\ loan.lender # Bank
     /\ {loan.lender, loan.borrower} \subseteq Active
     /\ a <= loan.principal - loan.repaid
     /\ Commit(Tx("LOAN_REPAYMENT", Moves(loan.borrower, loan.lender, a)))
     /\ loans' = Repaid(l, a)
     /\ repayments' = repayments \cup {Repayment(l, a, 0)}
     /\ CreditFrame

\* One at a time; while the cooldown lasts the player has to acknowledge it.
issueBankLoan(p, a, acknowledged) ==
  /\ a <= BankLoanMax
  /\ bankLoanOf(p) = {}
  /\ roundsLeft(p) = 0 \/ acknowledged
  /\ Commit(Tx("LOAN_ISSUE", Gets(p, a)))
  /\ loans' = Insert(loans, Loan(Bank, p, a))
  /\ UNCHANGED repayments /\ CreditFrame

\* In full, with the interest at the rate the player chose.
repayBankLoan(l, rate) ==
  LET loan     == loans[l]
      owed     == loan.principal - loan.repaid
      interest == bankLoanInterest(owed, rate)
  IN /\ loan.borrower \in Active
     /\ Commit(Tx("LOAN_REPAYMENT", Pays(loan.borrower, owed + interest)))
     /\ loans' = Repaid(l, owed)
     /\ repayments' = repayments \cup {Repayment(l, owed, interest)}
     /\ CreditFrame

LoanStep ==
  \/ \E p, q \in Active, a \in Amounts : createLoanRequest(p, q, a)
  \/ \E r \in DOMAIN requests, later \in now .. now + 1 : acceptLoan(r, later)
  \/ \E l \in ActiveLoans, a \in Amounts : repayLoan(l, a)

BankLoanStep ==
  \/ \E p \in Active, a \in Amounts, acknowledged \in BOOLEAN : issueBankLoan(p, a, acknowledged)
  \/ \E l \in BankLoans, rate \in Rates : repayBankLoan(l, rate)
=============================================================================
