------------------------------- MODULE Ledger -------------------------------
(***************************************************************************)
(* The books of one game: the wallets, the log of transactions and every   *)
(* table a transaction is written with.  The game's object runs one        *)
(* command at a time and D1 applies a batch as a whole, so an operation is *)
(* one step; what an interrupted batch may do is GameSession's subject.    *)
(* Modules Money, Credit and Estate add the operations, Bank puts them     *)
(* together.                                                               *)
(***************************************************************************)
EXTENDS Property, SequencesExt

CONSTANTS
  Players,        \* who sits at the table
  Opening,        \* the starting balance
  PassGoReward,
  BankLoanMax,
  Names,          \* free-text property names, for games without a board
  ScanWindow,     \* COOLDOWN_SCAN_TRANSACTIONS
  Start,          \* registries the log may start from; <<>> without a board
  MaxLog,         \* bound: transactions
  MaxRequests,    \* bound: payment requests, and trade requests
  MaxTime,        \* bound: the clock
  TimeToLive      \* PAYMENT_REQUEST_TTL_MS, in ticks of the clock

\* A row of the registry: what is mortgaged is somebody's, without buildings.
TileState ==
  {s \in [owner : Players \cup {Bank}, mortgaged : BOOLEAN, houses : 0 .. MaxBuildings] :
     s.mortgaged => s.owner # Bank /\ s.houses = 0}

ASSUME LedgerAssumption ==
  /\ Players # {} /\ IsFiniteSet(Players) /\ Bank \notin Players
  /\ {Opening, PassGoReward, BankLoanMax, ScanWindow, MaxLog, MaxRequests,
      MaxTime, TimeToLive} \subseteq Nat
  /\ TimeToLive > 0
  /\ \A reg \in Start : reg \in [Tiles -> TileState] \/ reg = <<>>

\* A log starts without mortgages: no tile is marked as mortgaged.
ASSUME StartAssumption == \A reg \in Start : \A t \in DOMAIN reg : ~reg[t].mortgaged

\* What is built already was built by the rules: on whole groups, evenly if need be.
ASSUME BuiltStartAssumption ==
  \A reg \in Start : \A t \in DOMAIN reg :
    groupHasBuildings(reg, t) =>
      /\ holdsFullGroup(reg, t, reg[t].owner) /\ reg[t].owner # Bank
      /\ Rules.buildEvenly => \A u, v \in groupTiles(t) : reg[u].houses - reg[v].houses <= 1

VARIABLES
  wallet,         \* players.balance
  bankrupt,       \* players.status = 'BANKRUPT'
  pot,            \* games.jackpot_balance
  confirm,        \* games.payment_mode = 'CONFIRMATION'
  log,            \* transactions, oldest first; a row's position is its id
  registry,       \* game_properties
  mortgages,      \* mortgages, by the id of the transaction that made them
  loans,          \* loans, by the id of the transaction that issued them
  repayments,     \* loan_repayments
  requests,       \* payment_requests, in the order they were made
  trades,         \* trade_requests, in the order they were made
  now             \* the database's clock

money == <<wallet, pot, log>>
estate == <<registry, mortgages>>
credit == <<loans, repayments>>
vars == <<money, estate, credit, bankrupt, confirm, requests, trades, now>>

Init ==
  /\ wallet = [p \in Players |-> Opening]
  /\ bankrupt = {}
  /\ pot = 0
  /\ confirm \in BOOLEAN
  /\ log = <<>>
  /\ registry \in Start
  /\ mortgages = <<>> /\ loans = <<>> /\ repayments = {}
  /\ requests = <<>> /\ trades = <<>>
  /\ now = 0
-----------------------------------------------------------------------------
Active == Players \ bankrupt

NextId == Len(log) + 1

\* The row a transaction adds to a table kept by the transaction's id.
Insert(rows, row) ==
  [i \in DOMAIN rows \cup {NextId} |-> IF i = NextId THEN row ELSE rows[i]]

NoChange == [t \in {} |-> 0]
Pays(p, a) == [q \in {p} |-> -a]
Gets(p, a) == [q \in {p} |-> a]
Moves(p, q, a) == [r \in {p, q} |-> IF r = p THEN -a ELSE a]

\* A transaction: its participants' deltas, the tiles it concerns with the
\* registry changes stored beside it, the transaction it reverses (0: none),
\* who proposed it, when it was a trade, and (history only, no column of the
\* table) the payment request it settled (0: none).
Tx(type, delta) ==
  [type |-> type, delta |-> delta, tiles |-> {}, changes |-> NoChange,
   undoes |-> 0, initiator |-> Bank, via |-> 0]

TileTx(type, delta, tiles, changes) ==
  [Tx(type, delta) EXCEPT !.tiles = tiles, !.changes = changes]

After(delta) ==
  [p \in Players |-> IF p \in DOMAIN delta THEN wallet[p] + delta[p] ELSE wallet[p]]

\* Nobody pays what they do not have.
Covered(delta) == \A p \in DOMAIN delta : wallet[p] + delta[p] >= 0

\* The wallets and the transaction, in one batch.
Commit(tx) ==
  /\ Len(log) < MaxLog
  /\ Covered(tx.delta)
  /\ wallet' = After(tx.delta)
  /\ log' = Append(log, tx)

Reversed(i) == \E j \in DOMAIN log : log[j].undoes = i

\* The only participant with a negative (-1) or a positive (1) delta.
soleParticipant(tx, side) ==
  LET matching == {p \in DOMAIN tx.delta : side * tx.delta[p] > 0}
  IN IF Cardinality(matching) = 1 THEN CHOOSE p \in matching : TRUE ELSE Bank

\* Rows of a request table once the ones whose time has come are expired.
expirePending(rows) ==
  [r \in DOMAIN rows |->
    IF rows[r].state = "PENDING" /\ rows[r].due <= now
      THEN [rows[r] EXCEPT !.state = "EXPIRED"] ELSE rows[r]]

\* Mutant: nobody looks at the clock.
PendingAtAnyTime(rows, r) == rows[r].state = "PENDING"

Pending(rows, r) == rows[r].state = "PENDING" /\ rows[r].due > now

Resolve(rows, r, state) == [expirePending(rows) EXCEPT ![r].state = state]

Tick ==
  /\ now < MaxTime
  /\ now' = now + 1
  /\ UNCHANGED <<money, estate, credit, bankrupt, confirm, requests, trades>>
=============================================================================
