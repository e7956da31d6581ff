----------------------------- MODULE BankProofs -----------------------------
(***************************************************************************)
(* What is proved about module Bank, for every board, every table of       *)
(* players and every length of the log.                                    *)
(***************************************************************************)
EXTENDS Bank, SumFacts, SequenceTheorems

-----------------------------------------------------------------------------
(* Types *)

TxTypes ==
  {"PLAYER_TO_PLAYER", "PLAYER_TO_BANK", "BANK_TO_PLAYER", "PASS_GO", "PLAYER_TO_ALL",
   "ALL_TO_PLAYER", "AUCTION_PAYMENT", "TO_JACKPOT", "JACKPOT_PAYOUT", "LOAN_ISSUE",
   "LOAN_REPAYMENT", "PROPERTY_PURCHASE", "PAY_RENT", "PROPERTY_BUILD",
   "PROPERTY_SELL_BUILDING", "MORTGAGE", "MORTGAGE_REDEMPTION", "PROPERTY_TRANSFER",
   "REVERSAL", "BANKRUPTCY_TRANSFER"}

Deltas == UNION {[S -> Int] : S \in SUBSET Players}

TileChange == [before : TileState, after : TileState]
ChangeSets == UNION {[S -> TileChange] : S \in SUBSET Tiles}

LogRow ==
  [type : TxTypes, delta : Deltas, tiles : SUBSET Tiles, changes : ChangeSets,
   undoes : Nat, initiator : Players \cup {Bank}, via : Nat]

MortgageRows ==
  [player : Players, item : Tiles \cup Names, value : Nat,
   state : {"ACTIVE", "REDEEMED", "RELEASED"}, redeemedBy : Nat]

\* No more is repaid than was lent.
LoanRows ==
  {l \in [lender : Players \cup {Bank}, borrower : Players, principal : Nat, repaid : Nat,
          state : {"ACTIVE", "REPAID", "WRITTEN_OFF"}] : l.repaid <= l.principal}

RepaymentRows == [tx : Nat, loan : Nat, amount : Nat, interest : Nat]

RequestStates == {"PENDING", "ACCEPTED", "DECLINED", "CANCELLED", "EXPIRED"}

RequestRows ==
  [kind : {"PAYMENT", "LOAN"}, payer : Players, recipient : Players, amount : Amounts,
   state : RequestStates, due : Nat, tx : Nat]

TradeRows ==
  [from : Players, to : Players, give : SUBSET Tiles, take : SUBSET Tiles,
   cashGive : Cash, cashTake : Cash, state : RequestStates, due : Nat, tx : Nat]

\* A table kept by the id of the transaction that made each row.
Table(rows, Row) == rows \in [DOMAIN rows -> Row] /\ DOMAIN rows \subseteq 1 .. Len(log)

MoneyTyped ==
  /\ wallet \in [Players -> Nat] /\ pot \in Nat
  /\ log \in Seq(LogRow) /\ Len(log) <= MaxLog

EstateTyped ==
  /\ registry \in [Tiles -> TileState] \/ registry = <<>>
  /\ Table(mortgages, MortgageRows)

CreditTyped ==
  /\ Table(loans, LoanRows)
  /\ repayments \subseteq RepaymentRows /\ IsFiniteSet(repayments)

AskedTyped ==
  /\ requests \in Seq(RequestRows) /\ Len(requests) <= MaxRequests
  /\ trades \in Seq(TradeRows) /\ Len(trades) <= MaxRequests

TableTyped == bankrupt \subseteq Players /\ confirm \in BOOLEAN /\ now \in 0 .. MaxTime

TypeInv == MoneyTyped /\ EstateTyped /\ CreditTyped /\ AskedTyped /\ TableTyped

\* The type invariant of the runs, from this one.
LEMMA TypeInvTypeOK == TypeInv => TypeOK
<1> SUFFICES ASSUME TypeInv PROVE TypeOK
  OBVIOUS
<1>1. /\ wallet \in [Players -> Int] /\ pot \in Nat
      /\ bankrupt \subseteq Players /\ confirm \in BOOLEAN
      /\ Len(log) <= MaxLog
      /\ Len(requests) <= MaxRequests /\ Len(trades) <= MaxRequests
      /\ now \in 0 .. MaxTime
  BY DEF TypeInv, MoneyTyped, AskedTyped, TableTyped
<1>2. \A t \in DOMAIN registry :
        /\ registry[t].owner \in Players \cup {Bank}
        /\ registry[t].houses \in 0 .. MaxBuildings /\ registry[t].mortgaged \in BOOLEAN
  <2>1. \A t \in DOMAIN registry : registry[t] \in TileState
    BY DEF TypeInv, EstateTyped
  <2> QED BY <2>1 DEF TileState
<1>3. DOMAIN log = 1 .. Len(log)
  BY LenProperties DEF TypeInv, MoneyTyped
<1>4. /\ DOMAIN mortgages \cup DOMAIN loans \subseteq DOMAIN log
      /\ \A m \in DOMAIN mortgages :
           /\ mortgages[m].player \in Players
           /\ mortgages[m].state \in {"ACTIVE", "REDEEMED", "RELEASED"}
  <2>1. /\ DOMAIN mortgages \subseteq 1 .. Len(log) /\ DOMAIN loans \subseteq 1 .. Len(log)
        /\ \A m \in DOMAIN mortgages : mortgages[m] \in MortgageRows
    BY DEF TypeInv, EstateTyped, CreditTyped, Table
  <2> QED BY <1>3, <2>1 DEF MortgageRows
<1>5. \A l \in DOMAIN loans :
        /\ loans[l].borrower \in Players /\ loans[l].lender \in Players \cup {Bank}
        /\ loans[l].state \in {"ACTIVE", "REPAID", "WRITTEN_OFF"}
  <2>1. \A l \in DOMAIN loans : loans[l] \in LoanRows
    BY DEF TypeInv, CreditTyped, Table
  <2> QED BY <2>1 DEF LoanRows
<1>6. \A r \in DOMAIN trades : {trades[r].from, trades[r].to} \subseteq Players
  <2>1. \A r \in DOMAIN trades : trades[r] \in TradeRows
    BY LenProperties DEF TypeInv, AskedTyped
  <2> QED BY <2>1 DEF TradeRows
<1> QED BY <1>1, <1>2, <1>4, <1>5, <1>6 DEF TypeOK

-----------------------------------------------------------------------------
(* The board and the registry *)

\* The product of natural numbers is one.
LEMMA ProductNat == \A a, b \in Nat : a * b \in Nat
  OBVIOUS

\* What the bank charges and refunds on a tile.
LEMMA BoardFacts ==
    /\ \A v \in Nat : redemptionCost(v) \in Nat /\ redemptionCost(v) >= v
    /\ \A t \in Tiles : /\ Tile[t].price \in Nat /\ Tile[t].mortgage \in Nat
                        /\ Tile[t].houseCost \in Nat
                        /\ mortgageTransferFee(t) \in Nat /\ sellRefund(t) \in Nat
<1>1. \A v \in Nat : redemptionCost(v) \in Nat /\ redemptionCost(v) >= v
  BY DEF redemptionCost
<1>2. ASSUME NEW t \in Tiles
      PROVE  /\ Tile[t].price \in Nat /\ Tile[t].mortgage \in Nat /\ Tile[t].houseCost \in Nat
             /\ mortgageTransferFee(t) \in Nat /\ sellRefund(t) \in Nat
  <2>1. /\ Tile[t].price \in Nat /\ Tile[t].mortgage \in Nat /\ Tile[t].houseCost \in Nat
        /\ Rules.refundPercent \in Nat
    BY BoardAssumption
  <2>2. mortgageTransferFee(t) \in Nat
    BY <1>1, <2>1 DEF mortgageTransferFee
  <2>3. sellRefund(t) \in Nat
    <3>1. Tile[t].houseCost * Rules.refundPercent \in Nat
      BY <2>1, ProductNat
    <3> QED BY <3>1 DEF sellRefund
  <2> QED BY <2>1, <2>2, <2>3
<1> QED BY <1>1, <1>2

\* The rent of a street is a natural number.
LEMMA StreetRentNat ==
    ASSUME EstateTyped, NEW t \in DOMAIN registry, Tile[t].kind = "street"
    PROVE  streetRent(registry, t) \in Nat
<1>1. t \in Tiles /\ registry[t] \in TileState
  BY DEF EstateTyped
<1>2. registry[t].houses \in 0 .. MaxBuildings
  BY <1>1 DEF TileState
<1>3. \A n \in 0 .. MaxBuildings : Tile[t].rent[n] \in Nat
  BY <1>1, BoardAssumption
<1>4. Rules.monopolyBaseRentMultiplier \in Nat
  BY BoardAssumption
<1>5. Tile[t].rent[0] \in Nat /\ Tile[t].rent[registry[t].houses] \in Nat
  BY <1>2, <1>3 DEF MaxBuildings
<1>6. Tile[t].rent[0] * Rules.monopolyBaseRentMultiplier \in Nat
  BY <1>4, <1>5, ProductNat
<1> QED BY <1>5, <1>6 DEF streetRent

\* So is every rent the rules know.
LEMMA RentNat ==
    ASSUME EstateTyped, NEW t \in DOMAIN registry, NEW dice \in Dice, rentKnown(registry, t)
    PROVE  rentFor(registry, t, dice) \in Nat
<1>1. Tile[t].kind \in {"street", "railway", "utility"}
  BY BoardAssumption DEF EstateTyped
<1>2. CASE Tile[t].kind = "street"
  BY <1>2, StreetRentNat DEF rentFor
<1>3. CASE Tile[t].kind = "railway"
  BY <1>3, BoardAssumption DEF rentFor, rentKnown
<1>4. CASE Tile[t].kind = "utility"
  <2> DEFINE m == Rules.utilityDiceMultiplier[ownedCount(registry, t, registry[t].owner)]
  <2>1. m \in Nat /\ dice \in Nat
    BY <1>4, BoardAssumption, EstateAssumption DEF rentKnown
  <2>2. m * dice \in Nat
    BY <2>1, ProductNat
  <2>3. rentFor(registry, t, dice) = m * dice * UtilityRentUnit
    BY <1>4 DEF rentFor
  <2> HIDE DEF m
  <2> QED BY <2>2, <2>3 DEF UtilityRentUnit
<1> QED BY <1>1, <1>2, <1>3, <1>4

\* The registry is empty or covers the board.
LEMMA RegistryFacts ==
    ASSUME EstateTyped
    PROVE  /\ DOMAIN registry \subseteq Tiles /\ IsFiniteSet(DOMAIN registry)
           /\ \A t \in DOMAIN registry : registry[t] \in TileState
           /\ registry # <<>> => registry \in [Tiles -> TileState]
           /\ DOMAIN registry # {} => registry \in [Tiles -> TileState]
<1>1. IsFiniteSet(Tiles)
  BY BoardAssumption
<1>2. DOMAIN registry \subseteq Tiles
  BY DEF EstateTyped
<1> QED BY <1>1, <1>2, FS_Subset DEF EstateTyped

\* A set of changes, and what it is made of.
LEMMA ChangeSetFacts ==
    /\ \A S \in SUBSET Tiles : [S -> TileChange] \subseteq ChangeSets
    /\ \A c \in ChangeSets :
         /\ c \in [DOMAIN c -> TileChange] /\ DOMAIN c \subseteq Tiles
         /\ \A t \in DOMAIN c : c[t].before \in TileState /\ c[t].after \in TileState
  BY DEF ChangeSets, TileChange

\* The changes of an operation that touches no tile.
LEMMA NoChangeFact == NoChange \in ChangeSets
<1>1. NoChange \in [{} -> TileChange]
  BY DEF NoChange
<1> QED BY <1>1, ChangeSetFacts


\* Taking changes back is a set of changes.
LEMMA InvertTyped == \A c \in ChangeSets : invertChanges(c) \in ChangeSets
<1> SUFFICES ASSUME NEW c \in ChangeSets PROVE invertChanges(c) \in ChangeSets
  OBVIOUS
<1>1. invertChanges(c) \in [DOMAIN c -> TileChange]
  BY ChangeSetFacts DEF invertChanges, Change, TileChange
<1> QED BY <1>1, ChangeSetFacts

\* A registry stays one under changes.
LEMMA ApplyTyped ==
    ASSUME EstateTyped, NEW c \in ChangeSets
    PROVE  /\ applyChanges(registry, c) \in [Tiles -> TileState] \/ applyChanges(registry, c) = <<>>
           /\ DOMAIN applyChanges(registry, c) = DOMAIN registry
<1>1. \A t \in DOMAIN c : c[t].after \in TileState
  BY ChangeSetFacts
<1>2. DOMAIN applyChanges(registry, c) = DOMAIN registry
  BY DEF applyChanges
<1>3. CASE registry \in [Tiles -> TileState]
  BY <1>1, <1>2, <1>3 DEF applyChanges
<1>4. CASE registry = <<>>
  <2>1. applyChanges(registry, c) = <<>>
    BY <1>4 DEF applyChanges
  <2> QED BY <1>2, <2>1
<1> QED BY <1>3, <1>4 DEF EstateTyped

-----------------------------------------------------------------------------
(* Transactions *)

\* A delta gives some of the players a number each.
LEMMA DeltaFacts ==
    /\ \A S \in SUBSET Players : [S -> Int] \subseteq Deltas
    /\ \A d \in Deltas : d \in [DOMAIN d -> Int] /\ DOMAIN d \subseteq Players
  BY DEF Deltas

\* Who pays and who is paid.
LEMMA PaymentTyped ==
    ASSUME NEW p \in Players, NEW q \in Players, NEW a \in Int
    PROVE  /\ Pays(p, a) \in Deltas /\ Gets(p, a) \in Deltas /\ Moves(p, q, a) \in Deltas
           /\ DOMAIN Pays(p, a) = {p} /\ DOMAIN Gets(p, a) = {p}
           /\ DOMAIN Moves(p, q, a) = {p, q}
<1>1. Pays(p, a) \in [{p} -> Int] /\ Gets(p, a) \in [{p} -> Int] /\ Moves(p, q, a) \in [{p, q} -> Int]
  BY DEF Pays, Gets, Moves
<1> QED BY <1>1, DeltaFacts

\* So is a payment to, or from, everybody.
LEMMA FanTyped ==
    ASSUME NEW p, NEW a \in Int
    PROVE  FanDelta(p, a) \in Deltas /\ DOMAIN FanDelta(p, a) = Active
<1>1. Active \in SUBSET Players
  BY DEF Active
<1>2. Cardinality(Active) \in Int
  BY <1>1, FS_Subset, FS_CardinalityType, LedgerAssumption
<1>3. a * (1 - Cardinality(Active)) \in Int
  BY <1>2
<1>4. FanDelta(p, a) \in [Active -> Int]
  BY <1>3 DEF FanDelta
<1> QED BY <1>1, <1>4, DeltaFacts

\* Transactions are rows of the log.
LEMMA RowTyped ==
    ASSUME NEW type \in TxTypes, NEW d \in Deltas
    PROVE  /\ Tx(type, d) \in LogRow
           /\ \A tiles \in SUBSET Tiles, c \in ChangeSets : TileTx(type, d, tiles, c) \in LogRow
  BY NoChangeFact DEF Tx, TileTx, LogRow

\* Adding a row to the log.
LEMMA LogGrows ==
    ASSUME MoneyTyped, NEW tx \in LogRow, Len(log) < MaxLog, log' = Append(log, tx)
    PROVE  /\ log' \in Seq(LogRow) /\ Len(log') = Len(log) + 1 /\ Len(log') <= MaxLog
           /\ DOMAIN log' = DOMAIN log \cup {NextId}
           /\ NextId \notin DOMAIN log /\ NextId \in Nat
           /\ log'[NextId] = tx /\ \A i \in DOMAIN log : log'[i] = log[i]
<1>1. log \in Seq(LogRow) /\ Len(log) \in Nat /\ DOMAIN log = 1 .. Len(log) /\ MaxLog \in Nat
  BY LenProperties, LedgerAssumption DEF MoneyTyped
<1>2. log' \in Seq(LogRow) /\ Len(log') = Len(log) + 1
  BY <1>1
<1>3. DOMAIN log' = 1 .. Len(log) + 1
  BY <1>2, LenProperties
<1>4. log'[NextId] = tx /\ \A i \in DOMAIN log : log'[i] = log[i]
  BY <1>1 DEF NextId
<1> QED BY <1>1, <1>2, <1>3, <1>4 DEF NextId

\* A covered transaction overdraws nobody.
LEMMA CommitTyped ==
    ASSUME MoneyTyped, NEW tx \in LogRow, Commit(tx)
    PROVE  /\ wallet' \in [Players -> Nat]
           /\ log' \in Seq(LogRow) /\ Len(log') = Len(log) + 1 /\ Len(log') <= MaxLog
<1>1. tx.delta \in [DOMAIN tx.delta -> Int]
  BY DeltaFacts DEF LogRow
<1>2. wallet' = [p \in Players |-> IF p \in DOMAIN tx.delta THEN wallet[p] + tx.delta[p]
                                                       ELSE wallet[p]]
  BY DEF Commit, After
<1>3. ASSUME NEW p \in Players
      PROVE  (IF p \in DOMAIN tx.delta THEN wallet[p] + tx.delta[p] ELSE wallet[p]) \in Nat
  <2>1. wallet[p] \in Nat
    BY DEF MoneyTyped
  <2>2. p \in DOMAIN tx.delta => tx.delta[p] \in Int /\ wallet[p] + tx.delta[p] >= 0
    BY <1>1 DEF Commit, Covered
  <2> QED BY <2>1, <2>2
<1>4. wallet' \in [Players -> Nat]
  BY <1>2, <1>3
<1> QED BY <1>4, LogGrows DEF Commit

-----------------------------------------------------------------------------
(* Tables *)

\* A table stays one while the log grows.
LEMMA TableKept ==
    ASSUME MoneyTyped, NEW rows, NEW Row, Table(rows, Row), NEW more,
           more \in [DOMAIN rows -> Row], Len(log) <= Len(log'), Len(log') \in Nat
    PROVE  more \in [DOMAIN more -> Row] /\ DOMAIN more \subseteq 1 .. Len(log')
<1>1. Len(log) \in Nat
  BY LenProperties DEF MoneyTyped
<1> QED BY <1>1 DEF Table

\* So it does with the row of the new transaction.
LEMMA TableInsert ==
    ASSUME MoneyTyped, NEW rows, NEW Row, Table(rows, Row), NEW row \in Row,
           Len(log') = Len(log) + 1
    PROVE  LET more == Insert(rows, row)
           IN /\ more \in [DOMAIN more -> Row] /\ DOMAIN more \subseteq 1 .. Len(log')
              /\ DOMAIN more = DOMAIN rows \cup {NextId} /\ NextId \notin DOMAIN rows
              /\ more[NextId] = row /\ \A i \in DOMAIN rows : more[i] = rows[i]
<1>1. Len(log) \in Nat
  BY LenProperties DEF MoneyTyped
<1>2. NextId = Len(log) + 1 /\ NextId \notin DOMAIN rows
  BY <1>1 DEF NextId, Table
<1>3. Insert(rows, row) \in [DOMAIN rows \cup {NextId} -> Row]
  BY DEF Insert, Table
<1>4. DOMAIN Insert(rows, row) \subseteq 1 .. Len(log')
  BY <1>1, <1>2, <1>3 DEF Table
<1> QED BY <1>2, <1>3, <1>4 DEF Insert

\* The rows of a request table whose time has come are expired, the rest stays.
LEMMA ExpireFacts ==
    ASSUME NEW Row, NEW rows \in Seq(Row)
    PROVE  \A r \in 1 .. Len(rows) :
             expirePending(rows)[r] =
               IF rows[r].state = "PENDING" /\ rows[r].due <= now
                 THEN [rows[r] EXCEPT !.state = "EXPIRED"] ELSE rows[r]
<1>1. DOMAIN rows = 1 .. Len(rows)
  BY LenProperties
<1> QED BY <1>1 DEF expirePending

\* Expired requests are requests.
LEMMA RequestsExpire ==
    ASSUME requests \in Seq(RequestRows)
    PROVE  /\ expirePending(requests) \in Seq(RequestRows)
           /\ Len(expirePending(requests)) = Len(requests)
<1> DEFINE n == Len(requests)
<1>1. n \in Nat /\ DOMAIN requests = 1 .. n /\ \A r \in 1 .. n : requests[r] \in RequestRows
  BY LenProperties
<1>2. \A r \in 1 .. n : expirePending(requests)[r] \in RequestRows
  <2> SUFFICES ASSUME NEW r \in 1 .. n PROVE expirePending(requests)[r] \in RequestRows
    OBVIOUS
  <2>1. [requests[r] EXCEPT !.state = "EXPIRED"] \in RequestRows
    BY <1>1 DEF RequestRows, RequestStates
  <2> QED BY <1>1, <2>1, ExpireFacts
<1>3. expirePending(requests) \in [1 .. n -> RequestRows]
  BY <1>1, <1>2 DEF expirePending
<1> HIDE DEF n
<1>4. Len(expirePending(requests)) = n
  BY <1>1, <1>3
<1>5. expirePending(requests) \in Seq(RequestRows)
  BY <1>1, <1>3, SeqDef
<1> QED BY <1>4, <1>5 DEF n

\* Expired trades are trades.
LEMMA TradesExpire ==
    ASSUME trades \in Seq(TradeRows)
    PROVE  /\ expirePending(trades) \in Seq(TradeRows)
           /\ Len(expirePending(trades)) = Len(trades)
<1> DEFINE n == Len(trades)
<1>1. n \in Nat /\ DOMAIN trades = 1 .. n /\ \A r \in 1 .. n : trades[r] \in TradeRows
  BY LenProperties
<1>2. \A r \in 1 .. n : expirePending(trades)[r] \in TradeRows
  <2> SUFFICES ASSUME NEW r \in 1 .. n PROVE expirePending(trades)[r] \in TradeRows
    OBVIOUS
  <2>1. [trades[r] EXCEPT !.state = "EXPIRED"] \in TradeRows
    BY <1>1 DEF TradeRows, RequestStates
  <2> QED BY <1>1, <2>1, ExpireFacts
<1>3. expirePending(trades) \in [1 .. n -> TradeRows]
  BY <1>1, <1>2 DEF expirePending
<1> HIDE DEF n
<1>4. Len(expirePending(trades)) = n
  BY <1>1, <1>3
<1>5. expirePending(trades) \in Seq(TradeRows)
  BY <1>1, <1>3, SeqDef
<1> QED BY <1>4, <1>5 DEF n

\* A request that is settled or resolved is one afterwards.
LEMMA RequestResolved ==
    ASSUME requests \in Seq(RequestRows), NEW r \in DOMAIN requests,
           NEW state \in RequestStates, NEW tx \in Nat
    PROVE  LET after == [expirePending(requests) EXCEPT ![r].state = state, ![r].tx = tx]
           IN after \in Seq(RequestRows) /\ Len(after) = Len(requests)
<1> DEFINE e == expirePending(requests)
           row == [e[r] EXCEPT !.state = state, !.tx = tx]
<1>1. e \in Seq(RequestRows) /\ Len(e) = Len(requests) /\ r \in 1 .. Len(e)
  BY RequestsExpire, LenProperties
<1>2. e[r] \in RequestRows
  BY <1>1, LenProperties
<1>3. row \in RequestRows
  BY <1>2 DEF RequestRows
<1>4. [e EXCEPT ![r].state = state, ![r].tx = tx] = [e EXCEPT ![r] = row]
  BY <1>1, <1>2, LenProperties DEF RequestRows
<1> HIDE DEF e, row
<1>5. [e EXCEPT ![r] = row] \in Seq(RequestRows) /\ Len([e EXCEPT ![r] = row]) = Len(e)
  BY <1>1, <1>3, ExceptSeq
<1> QED BY <1>1, <1>4, <1>5 DEF e

\* The same for a request that is only resolved.
LEMMA RequestStateSet ==
    ASSUME requests \in Seq(RequestRows), NEW r \in DOMAIN requests, NEW state \in RequestStates
    PROVE  LET after == Resolve(requests, r, state)
           IN after \in Seq(RequestRows) /\ Len(after) = Len(requests)
<1> DEFINE e == expirePending(requests)
           row == [e[r] EXCEPT !.state = state]
<1>1. e \in Seq(RequestRows) /\ Len(e) = Len(requests) /\ r \in 1 .. Len(e)
  BY RequestsExpire, LenProperties
<1>2. e[r] \in RequestRows
  BY <1>1, LenProperties
<1>3. row \in RequestRows
  BY <1>2 DEF RequestRows
<1>4. Resolve(requests, r, state) = [e EXCEPT ![r] = row]
  BY <1>1, <1>2, LenProperties DEF Resolve, RequestRows
<1> HIDE DEF e, row
<1>5. [e EXCEPT ![r] = row] \in Seq(RequestRows) /\ Len([e EXCEPT ![r] = row]) = Len(e)
  BY <1>1, <1>3, ExceptSeq
<1> QED BY <1>1, <1>4, <1>5 DEF e

\* And for trades.
LEMMA TradeResolved ==
    ASSUME trades \in Seq(TradeRows), NEW r \in DOMAIN trades,
           NEW state \in RequestStates, NEW tx \in Nat
    PROVE  LET after == [expirePending(trades) EXCEPT ![r].state = state, ![r].tx = tx]
           IN after \in Seq(TradeRows) /\ Len(after) = Len(trades)
<1> DEFINE e == expirePending(trades)
           row == [e[r] EXCEPT !.state = state, !.tx = tx]
<1>1. e \in Seq(TradeRows) /\ Len(e) = Len(trades) /\ r \in 1 .. Len(e)
  BY TradesExpire, LenProperties
<1>2. e[r] \in TradeRows
  BY <1>1, LenProperties
<1>3. row \in TradeRows
  BY <1>2 DEF TradeRows
<1>4. [e EXCEPT ![r].state = state, ![r].tx = tx] = [e EXCEPT ![r] = row]
  BY <1>1, <1>2, LenProperties DEF TradeRows
<1> HIDE DEF e, row
<1>5. [e EXCEPT ![r] = row] \in Seq(TradeRows) /\ Len([e EXCEPT ![r] = row]) = Len(e)
  BY <1>1, <1>3, ExceptSeq
<1> QED BY <1>1, <1>4, <1>5 DEF e

\* A trade that is only resolved.
LEMMA TradeStateSet ==
    ASSUME trades \in Seq(TradeRows), NEW r \in DOMAIN trades, NEW state \in RequestStates
    PROVE  LET after == Resolve(trades, r, state)
           IN after \in Seq(TradeRows) /\ Len(after) = Len(trades)
<1> DEFINE e == expirePending(trades)
           row == [e[r] EXCEPT !.state = state]
<1>1. e \in Seq(TradeRows) /\ Len(e) = Len(trades) /\ r \in 1 .. Len(e)
  BY TradesExpire, LenProperties
<1>2. e[r] \in TradeRows
  BY <1>1, LenProperties
<1>3. row \in TradeRows
  BY <1>2 DEF TradeRows
<1>4. Resolve(trades, r, state) = [e EXCEPT ![r] = row]
  BY <1>1, <1>2, LenProperties DEF Resolve, TradeRows
<1> HIDE DEF e, row
<1>5. [e EXCEPT ![r] = row] \in Seq(TradeRows) /\ Len([e EXCEPT ![r] = row]) = Len(e)
  BY <1>1, <1>3, ExceptSeq
<1> QED BY <1>1, <1>4, <1>5 DEF e

\* What a step leaves alone keeps its type.
LEMMA KeptTyped ==
    ASSUME TypeInv, Len(log) <= Len(log'), Len(log') \in Nat
    PROVE  /\ UNCHANGED estate => EstateTyped'
           /\ UNCHANGED credit => CreditTyped'
           /\ UNCHANGED <<requests, trades>> => AskedTyped'
           /\ UNCHANGED <<bankrupt, confirm, now>> => TableTyped'
           /\ UNCHANGED money => MoneyTyped'
<1>1. Len(log) \in Nat
  BY LenProperties DEF TypeInv, MoneyTyped
<1>2. UNCHANGED estate => EstateTyped'
  BY <1>1 DEF TypeInv, EstateTyped, estate, Table
<1>3. UNCHANGED credit => CreditTyped'
  BY <1>1 DEF TypeInv, CreditTyped, credit, Table
<1>4. UNCHANGED <<requests, trades>> => AskedTyped'
  BY DEF TypeInv, AskedTyped
<1>5. UNCHANGED <<bankrupt, confirm, now>> => TableTyped'
  BY DEF TypeInv, TableTyped
<1>6. UNCHANGED money => MoneyTyped'
  BY DEF TypeInv, MoneyTyped, money
<1> QED BY <1>2, <1>3, <1>4, <1>5, <1>6

-----------------------------------------------------------------------------
(* Steps on wallets and requests keep the types *)

\* A transaction that moves nothing but money.
LEMMA PlainTyped ==
    ASSUME TypeInv, NEW type \in TxTypes, NEW d \in Deltas, Plain(Tx(type, d))
    PROVE  TypeInv'
<1>1. Tx(type, d) \in LogRow
  BY RowTyped
<1>2. Len(log) \in Nat
  BY LenProperties DEF TypeInv, MoneyTyped
<1>3. MoneyTyped' /\ Len(log) <= Len(log') /\ Len(log') \in Nat
  BY <1>1, <1>2, CommitTyped DEF TypeInv, MoneyTyped, Plain
<1>4. EstateTyped' /\ CreditTyped' /\ AskedTyped' /\ TableTyped'
  BY <1>3, KeptTyped DEF Plain, Rest, estate, credit
<1> QED BY <1>3, <1>4 DEF TypeInv

\* A payment into or out of the pot.
LEMMA PotTyped ==
    ASSUME TypeInv, NEW type \in TxTypes, NEW d \in Deltas, Commit(Tx(type, d)), pot' \in Nat,
           UNCHANGED requests, UNCHANGED Rest
    PROVE  TypeInv'
<1>1. Tx(type, d) \in LogRow
  BY RowTyped
<1>2. Len(log) \in Nat
  BY LenProperties DEF TypeInv, MoneyTyped
<1>3. MoneyTyped' /\ Len(log) <= Len(log') /\ Len(log') \in Nat
  BY <1>1, <1>2, CommitTyped DEF TypeInv, MoneyTyped
<1>4. EstateTyped' /\ CreditTyped' /\ AskedTyped' /\ TableTyped'
  BY <1>3, KeptTyped DEF Rest, estate, credit
<1> QED BY <1>3, <1>4 DEF TypeInv

\* Every payment keeps the types.
LEMMA MoneyTypes == ASSUME TypeInv, MoneyStep PROVE TypeInv'
<1>1. PICK p \in Active :
        \/ passGo(p, FALSE) \/ passGo(p, TRUE) \/ jackpotPayout(p)
        \/ \E a \in Amounts :
             \/ playerToBank(p, a) \/ bankToPlayer(p, a) \/ playerToAll(p, a)
             \/ allToPlayer(p, a) \/ auctionPayment(p, a) \/ toJackpot(p, a)
             \/ \E q \in Active : playerToPlayer(p, q, a)
  BY DEF MoneyStep
<1>2. p \in Players /\ PassGoReward \in Int /\ pot \in Int /\ pot \in Nat
  BY LedgerAssumption DEF Active, TypeInv, MoneyTyped
<1>3. ASSUME NEW exact \in BOOLEAN, passGo(p, exact) PROVE TypeInv'
  <2> DEFINE a == IF exact THEN 2 * PassGoReward ELSE PassGoReward
             d == Gets(p, a)
  <2>0. a \in Int
    BY <1>2
  <2>1. d \in Deltas
    <3> HIDE DEF a
    <3> QED BY <1>2, <2>0, PaymentTyped
  <2>2. Plain(Tx("PASS_GO", d))
    BY <1>3 DEF passGo
  <2> HIDE DEF d
  <2> QED BY <2>1, <2>2, PlainTyped DEF TxTypes
<1>4. ASSUME jackpotPayout(p) PROVE TypeInv'
  <2>1. Gets(p, pot) \in Deltas
    BY <1>2, PaymentTyped
  <2>2. /\ Commit(Tx("JACKPOT_PAYOUT", Gets(p, pot))) /\ pot' \in Nat
        /\ UNCHANGED requests /\ UNCHANGED Rest
    BY <1>4 DEF jackpotPayout
  <2> QED BY <2>1, <2>2, PotTyped DEF TxTypes
<1>5. ASSUME NEW a \in Amounts PROVE a \in Int /\ -a \in Int /\ a \in Nat
  BY AmountsAssumption
<1>6. ASSUME NEW a \in Amounts, playerToBank(p, a) \/ bankToPlayer(p, a) \/ auctionPayment(p, a)
      PROVE  TypeInv'
  <2>1. Pays(p, a) \in Deltas /\ Gets(p, a) \in Deltas
    BY <1>2, <1>5, PaymentTyped
  <2>2. \/ Plain(Tx("PLAYER_TO_BANK", Pays(p, a))) \/ Plain(Tx("BANK_TO_PLAYER", Gets(p, a)))
        \/ Plain(Tx("AUCTION_PAYMENT", Pays(p, a)))
    BY <1>6 DEF playerToBank, bankToPlayer, auctionPayment
  <2> QED BY <2>1, <2>2, PlainTyped DEF TxTypes
<1>7. ASSUME NEW a \in Amounts, playerToAll(p, a) \/ allToPlayer(p, a) PROVE TypeInv'
  <2>1. FanDelta(p, a) \in Deltas /\ FanDelta(p, -a) \in Deltas
    BY <1>5, FanTyped
  <2>2. Plain(Tx("PLAYER_TO_ALL", FanDelta(p, a))) \/ Plain(Tx("ALL_TO_PLAYER", FanDelta(p, -a)))
    BY <1>7 DEF playerToAll, allToPlayer
  <2> QED BY <2>1, <2>2, PlainTyped DEF TxTypes
<1>8. ASSUME NEW a \in Amounts, toJackpot(p, a) PROVE TypeInv'
  <2>1. Pays(p, a) \in Deltas
    BY <1>2, <1>5, PaymentTyped
  <2>2. /\ Commit(Tx("TO_JACKPOT", Pays(p, a))) /\ pot' \in Nat
        /\ UNCHANGED requests /\ UNCHANGED Rest
    BY <1>2, <1>5, <1>8 DEF toJackpot
  <2> QED BY <2>1, <2>2, PotTyped DEF TxTypes
<1>9. ASSUME NEW a \in Amounts, NEW q \in Active, playerToPlayer(p, q, a) PROVE TypeInv'
  <2>1. Moves(p, q, a) \in Deltas
    BY <1>2, <1>5, PaymentTyped DEF Active
  <2>2. Plain(Tx("PLAYER_TO_PLAYER", Moves(p, q, a)))
    BY <1>9 DEF playerToPlayer
  <2> QED BY <2>1, <2>2, PlainTyped DEF TxTypes
<1> QED BY <1>1, <1>3, <1>4, <1>6, <1>7, <1>8, <1>9

\* A step that touches nothing but the requests keeps the types.
LEMMA OnlyRequestsTyped ==
    ASSUME TypeInv, UNCHANGED money, UNCHANGED Rest,
           requests' \in Seq(RequestRows), Len(requests') <= MaxRequests
    PROVE  TypeInv'
<1>1. Len(log) <= Len(log') /\ Len(log') \in Nat
  BY LenProperties DEF TypeInv, MoneyTyped, money
<1>2. MoneyTyped' /\ EstateTyped' /\ CreditTyped' /\ TableTyped'
  BY <1>1, KeptTyped DEF money, Rest, estate, credit
<1>3. AskedTyped'
  BY DEF TypeInv, AskedTyped, Rest
<1> QED BY <1>2, <1>3 DEF TypeInv

\* A request as it is made.
LEMMA NewRequestTyped ==
    ASSUME TypeInv, NEW kind \in {"PAYMENT", "LOAN"}, NEW p \in Players, NEW q \in Players,
           NEW a \in Amounts
    PROVE  Request(kind, p, q, a) \in RequestRows
<1>1. now + TimeToLive \in Nat
  BY LedgerAssumption DEF TypeInv, TableTyped
<1> QED BY <1>1 DEF Request, RequestRows, RequestStates

\* The rows of the requests made of some players.
Asked(made, p, a) == {Request("PAYMENT", q, p, a) : q \in made}

\* As many as there are players, at most, and no two the same.
LEMMA ManyRequests ==
    ASSUME NEW made \in SUBSET Players, NEW p, NEW a,
           NEW rows \in SetToSeqs(Asked(made, p, a))
    PROVE  /\ Len(rows) \in Nat /\ Len(rows) <= Cardinality(made)
           /\ rows \in [1 .. Len(rows) -> Asked(made, p, a)]
           /\ \A i, j \in 1 .. Len(rows) : i # j => rows[i] # rows[j]
<1> DEFINE R == Asked(made, p, a)
           f == [q \in made |-> Request("PAYMENT", q, p, a)]
<1>1. f \in Surjection(made, R)
  BY DEF Surjection, Asked
<1>2. IsFiniteSet(made)
  BY LedgerAssumption, FS_Subset
<1>3. IsFiniteSet(R) /\ Cardinality(R) <= Cardinality(made) /\ Cardinality(R) \in Nat
  <2> HIDE DEF R, f
  <2> QED BY <1>1, <1>2, FS_Surjection, FS_CardinalityType
<1>4. /\ rows \in [1 .. Cardinality(R) -> R]
      /\ \A i, j \in 1 .. Cardinality(R) : i # j => rows[i] # rows[j]
  BY DEF SetToSeqs
<1> HIDE DEF R, f
<1>5. Len(rows) = Cardinality(R)
  BY <1>3, <1>4
<1> QED BY <1>3, <1>4, <1>5 DEF R

\* Making requests keeps the types.
LEMMA ConfirmationTypes ==
    ASSUME TypeInv, NEW payers \in SUBSET Players, NEW p \in Players, NEW a \in Amounts,
           createConfirmationRequests(payers, p, a)
    PROVE  TypeInv'
<1>1. PICK made \in (SUBSET payers) \ {{}} :
        /\ Len(requests) + Cardinality(made) <= MaxRequests
        /\ \E rows \in SetToSeqs(Asked(made, p, a)) :
             requests' = expirePending(requests) \o rows
  BY DEF createConfirmationRequests, Asked
<1>2. PICK rows \in SetToSeqs(Asked(made, p, a)) :
        requests' = expirePending(requests) \o rows
  BY <1>1
<1>3. made \in SUBSET Players
  OBVIOUS
<1>4. /\ Len(rows) \in Nat /\ Len(rows) <= Cardinality(made)
      /\ rows \in [1 .. Len(rows) -> Asked(made, p, a)]
  BY <1>3, ManyRequests
<1>5. rows \in Seq(RequestRows)
  <2>1. Asked(made, p, a) \subseteq RequestRows
    BY <1>3, NewRequestTyped DEF Asked
  <2>2. rows \in [1 .. Len(rows) -> RequestRows]
    BY <1>4, <2>1
  <2> QED BY <1>4, <2>2, SeqDef
<1>6. /\ expirePending(requests) \in Seq(RequestRows)
      /\ Len(expirePending(requests)) = Len(requests) /\ Len(requests) \in Nat
  BY RequestsExpire, LenProperties DEF TypeInv, AskedTyped
<1>7. /\ requests' \in Seq(RequestRows)
      /\ Len(requests') = Len(requests) + Len(rows)
  BY <1>2, <1>5, <1>6, ConcatProperties
<1>8. Cardinality(made) \in Nat
  BY <1>3, FS_Subset, FS_CardinalityType, LedgerAssumption
<1>9. Len(requests') <= MaxRequests
  BY <1>1, <1>4, <1>6, <1>7, <1>8, LedgerAssumption
<1> QED BY <1>7, <1>9, OnlyRequestsTyped DEF createConfirmationRequests

\* Settling a request keeps the types of all but the loans.
LEMMA SettleTypes ==
    ASSUME TypeInv, NEW r \in DOMAIN requests, NEW later, NEW type \in TxTypes, NEW d \in Deltas,
           settle(r, later, Tx(type, d))
    PROVE  /\ MoneyTyped' /\ EstateTyped' /\ AskedTyped' /\ TableTyped'
           /\ Len(log') = Len(log) + 1 /\ Len(log) \in Nat /\ UNCHANGED repayments
<1> DEFINE tx == [Tx(type, d) EXCEPT !.via = r]
<1>1. r \in Nat /\ Len(log) \in Nat /\ NextId \in Nat
  BY LenProperties DEF TypeInv, AskedTyped, MoneyTyped, NextId
<1>2. tx \in LogRow
  <2>1. Tx(type, d) \in LogRow
    BY RowTyped
  <2> QED BY <1>1, <2>1 DEF LogRow
<1>3. Commit(tx)
  BY DEF settle
<1>4. MoneyTyped' /\ Len(log') = Len(log) + 1
  <2> HIDE DEF tx
  <2> QED BY <1>2, <1>3, CommitTyped DEF TypeInv, MoneyTyped, settle
<1>5. EstateTyped'
  BY <1>1, <1>4, KeptTyped DEF settle, estate
<1>6. AskedTyped'
  <2>1. requests' \in Seq(RequestRows) /\ Len(requests') = Len(requests)
    BY <1>1, RequestResolved, RequestsExpire DEF settle, TypeInv, AskedTyped, RequestStates
  <2> QED BY <2>1 DEF settle, TypeInv, AskedTyped
<1>7. TableTyped'
  BY LedgerAssumption DEF settle, TypeInv, TableTyped
<1> QED BY <1>1, <1>4, <1>5, <1>6, <1>7 DEF settle

\* The delta of a request.
LEMMA RequestDelta ==
    ASSUME TypeInv, NEW r \in DOMAIN requests
    PROVE  /\ requests[r] \in RequestRows
           /\ requests[r].payer \in Players /\ requests[r].recipient \in Players
           /\ requests[r].amount \in Nat \ {0}
           /\ Moves(requests[r].payer, requests[r].recipient, requests[r].amount) \in Deltas
<1>1. requests[r] \in RequestRows
  BY LenProperties DEF TypeInv, AskedTyped
<1>2. /\ requests[r].payer \in Players /\ requests[r].recipient \in Players
      /\ requests[r].amount \in Amounts
  BY <1>1 DEF RequestRows
<1>3. requests[r].amount \in Nat \ {0}
  BY <1>2, AmountsAssumption, Zenon
<1>4. requests[r].amount \in Int
  BY <1>3
<1> QED BY <1>1, <1>2, <1>3, <1>4, PaymentTyped

\* Every step on payment requests keeps the types.
LEMMA RequestTypes == ASSUME TypeInv, RequestStep PROVE TypeInv'
<1>1. requests \in Seq(RequestRows) /\ Len(requests) <= MaxRequests
  BY DEF TypeInv, AskedTyped
<1>2. ASSUME NEW p \in Players, NEW q \in Players, NEW a \in Amounts, requestPayment(p, q, a)
      PROVE  TypeInv'
  <2>1. {p} \in SUBSET Players
    OBVIOUS
  <2> QED BY <1>2, <2>1, ConfirmationTypes DEF requestPayment
<1>3. ASSUME NEW p \in Players, NEW a \in Amounts, requestFromAll(p, a) PROVE TypeInv'
  <2>1. Active \ {p} \in SUBSET Players
    BY DEF Active
  <2> QED BY <1>3, <2>1, ConfirmationTypes DEF requestFromAll
<1>4. ASSUME NEW r \in DOMAIN requests, NEW later, acceptPayment(r, later) PROVE TypeInv'
  <2> DEFINE d == Moves(requests[r].payer, requests[r].recipient, requests[r].amount)
  <2>1. d \in Deltas
    BY RequestDelta
  <2>2. settle(r, later, Tx("PLAYER_TO_PLAYER", d)) /\ UNCHANGED loans
    BY <1>4 DEF acceptPayment
  <2> HIDE DEF d
  <2>3. /\ MoneyTyped' /\ EstateTyped' /\ AskedTyped' /\ TableTyped'
        /\ Len(log') = Len(log) + 1 /\ Len(log) \in Nat /\ UNCHANGED repayments
    BY <2>1, <2>2, SettleTypes DEF TxTypes
  <2>4. CreditTyped'
    BY <2>2, <2>3, KeptTyped DEF credit
  <2> QED BY <2>3, <2>4 DEF TypeInv
<1>5. ASSUME NEW r \in DOMAIN requests, NEW state \in {"DECLINED", "CANCELLED"},
             resolvePaymentRequest(r, state)
      PROVE  TypeInv'
  <2>1. state \in RequestStates
    BY DEF RequestStates
  <2>2. requests' \in Seq(RequestRows) /\ Len(requests') = Len(requests)
    BY <1>1, <1>5, <2>1, RequestStateSet DEF resolvePaymentRequest
  <2> QED BY <1>1, <1>5, <2>2, OnlyRequestsTyped DEF resolvePaymentRequest
<1>6. ASSUME listPaymentRequests PROVE TypeInv'
  <2>1. requests' \in Seq(RequestRows) /\ Len(requests') = Len(requests)
    BY <1>1, <1>6, RequestsExpire DEF listPaymentRequests
  <2> QED BY <1>1, <1>6, <2>1, OnlyRequestsTyped DEF listPaymentRequests
<1> QED BY <1>2, <1>3, <1>4, <1>5, <1>6 DEF RequestStep

-----------------------------------------------------------------------------
(* Steps on loans keep the types *)

\* Money and the credit tables move, the rest stays.
LEMMA CreditStepTyped ==
    ASSUME TypeInv, NEW tx \in LogRow, Commit(tx), CreditFrame,
           loans' \in [DOMAIN loans' -> LoanRows], DOMAIN loans' \subseteq 1 .. Len(log'),
           repayments' \subseteq RepaymentRows, IsFiniteSet(repayments')
    PROVE  TypeInv'
<1>1. Len(log) \in Nat
  BY LenProperties DEF TypeInv, MoneyTyped
<1>2. MoneyTyped' /\ Len(log) <= Len(log') /\ Len(log') \in Nat
  BY <1>1, CommitTyped DEF TypeInv, MoneyTyped, CreditFrame
<1>3. EstateTyped' /\ AskedTyped' /\ TableTyped'
  BY <1>2, KeptTyped DEF CreditFrame
<1>4. CreditTyped'
  BY DEF CreditTyped, Table
<1> QED BY <1>2, <1>3, <1>4 DEF TypeInv

\* A loan of the table.
LEMMA LoanFacts ==
    ASSUME CreditTyped, NEW l \in DOMAIN loans
    PROVE  /\ loans[l] \in LoanRows
           /\ loans[l].lender \in Players \cup {Bank} /\ loans[l].borrower \in Players
           /\ loans[l].principal \in Nat /\ loans[l].repaid \in Nat
           /\ loans[l].repaid <= loans[l].principal
           /\ l \in Nat
<1>1. loans[l] \in LoanRows /\ l \in 1 .. Len(log)
  BY DEF CreditTyped, Table
<1> QED BY <1>1 DEF LoanRows

\* Interest is a natural number.
LEMMA InterestNat ==
    ASSUME NEW principal \in Nat, NEW rate \in Rates
    PROVE  bankLoanInterest(principal, rate) \in Nat
<1>1. CASE rate = 0
  BY <1>1 DEF bankLoanInterest
<1>2. CASE rate = 10
  BY <1>2 DEF bankLoanInterest
<1>3. CASE rate = 20
  BY <1>3 DEF bankLoanInterest
<1> QED BY <1>1, <1>2, <1>3 DEF Rates

\* Repaying part of a loan keeps the table of loans.
LEMMA RepaidTyped ==
    ASSUME CreditTyped, NEW l \in DOMAIN loans, NEW a \in Nat,
           a <= loans[l].principal - loans[l].repaid
    PROVE  Repaid(l, a) \in [DOMAIN loans -> LoanRows]
<1> DEFINE s == IF loans[l].repaid + a = loans[l].principal THEN "REPAID" ELSE loans[l].state
           row == [loans[l] EXCEPT !.repaid = loans[l].repaid + a, !.state = s]
<1>1. /\ loans[l] \in LoanRows /\ loans[l].principal \in Nat /\ loans[l].repaid \in Nat
      /\ loans \in [DOMAIN loans -> LoanRows]
  BY LoanFacts DEF CreditTyped, Table
<1>2. s \in {"ACTIVE", "REPAID", "WRITTEN_OFF"}
  BY <1>1 DEF LoanRows
<1>3. loans[l].repaid + a \in Nat /\ loans[l].repaid + a <= loans[l].principal
  BY <1>1
<1>4. Repaid(l, a) = [loans EXCEPT ![l] = row]
  BY <1>1 DEF Repaid, LoanRows
<1>5. row \in LoanRows
  <2> HIDE DEF s
  <2> QED BY <1>1, <1>2, <1>3 DEF LoanRows
<1> HIDE DEF row
<1> QED BY <1>1, <1>4, <1>5

\* One more repayment.
LEMMA RepaymentTyped ==
    ASSUME TypeInv, NEW l \in DOMAIN loans, NEW a \in Nat, NEW interest \in Nat
    PROVE  /\ repayments \cup {Repayment(l, a, interest)} \subseteq RepaymentRows
           /\ IsFiniteSet(repayments \cup {Repayment(l, a, interest)})
<1>1. l \in Nat /\ NextId \in Nat
  BY LenProperties, LoanFacts DEF TypeInv, MoneyTyped, NextId
<1>2. Repayment(l, a, interest) \in RepaymentRows
  BY <1>1 DEF Repayment, RepaymentRows
<1> QED BY <1>2, FS_AddElement DEF TypeInv, CreditTyped

\* Every step on loans between players keeps the types.
LEMMA LendingTypes == ASSUME TypeInv, LoanStep PROVE TypeInv'
<1>1. requests \in Seq(RequestRows) /\ Len(requests) <= MaxRequests /\ Len(log) \in Nat
  BY LenProperties DEF TypeInv, AskedTyped, MoneyTyped
<1>2. ASSUME NEW p \in Active, NEW q \in Active, NEW a \in Amounts, createLoanRequest(p, q, a)
      PROVE  TypeInv'
  <2>1. Request("LOAN", p, q, a) \in RequestRows
    BY NewRequestTyped DEF Active
  <2>2. /\ expirePending(requests) \in Seq(RequestRows)
        /\ Len(expirePending(requests)) = Len(requests) /\ Len(requests) \in Nat
    BY <1>1, RequestsExpire, LenProperties
  <2>3. requests' \in Seq(RequestRows) /\ Len(requests') = Len(requests) + 1
    BY <1>2, <2>1, <2>2, AppendProperties DEF createLoanRequest
  <2>4. Len(requests') <= MaxRequests
    BY <1>2, <2>2, <2>3, LedgerAssumption DEF createLoanRequest
  <2> QED BY <1>2, <2>3, <2>4, OnlyRequestsTyped DEF createLoanRequest
<1>3. ASSUME NEW r \in DOMAIN requests, NEW later, acceptLoan(r, later) PROVE TypeInv'
  <2> DEFINE q == requests[r]
             d == Moves(q.payer, q.recipient, q.amount)
             loan == Loan(q.payer, q.recipient, q.amount)
  <2>1. d \in Deltas /\ q.payer \in Players /\ q.recipient \in Players /\ q.amount \in Nat
    BY RequestDelta
  <2>2. settle(r, later, Tx("LOAN_ISSUE", d)) /\ loans' = Insert(loans, loan)
    BY <1>3 DEF acceptLoan
  <2>3. loan \in LoanRows
    BY <2>1 DEF Loan, LoanRows
  <2> HIDE DEF d, loan, q
  <2>4. /\ MoneyTyped' /\ EstateTyped' /\ AskedTyped' /\ TableTyped'
        /\ Len(log') = Len(log) + 1 /\ UNCHANGED repayments
    BY <2>1, <2>2, SettleTypes DEF TxTypes
  <2>5. loans' \in [DOMAIN loans' -> LoanRows] /\ DOMAIN loans' \subseteq 1 .. Len(log')
    BY <2>2, <2>3, <2>4, TableInsert DEF TypeInv, CreditTyped
  <2>6. CreditTyped'
    BY <2>4, <2>5 DEF TypeInv, CreditTyped, Table
  <2> QED BY <2>4, <2>6 DEF TypeInv
<1>4. ASSUME NEW l \in ActiveLoans, NEW a \in Amounts, repayLoan(l, a) PROVE TypeInv'
  <2> DEFINE d == Moves(loans[l].borrower, loans[l].lender, a)
  <2>1. l \in DOMAIN loans /\ CreditTyped
    BY DEF ActiveLoans, TypeInv
  <2>2. a \in Nat /\ a \in Int
    BY AmountsAssumption
  <2>3. loans[l].borrower \in Players /\ loans[l].lender \in Players
    BY <1>4 DEF repayLoan, Active
  <2>4. d \in Deltas
    BY <2>2, <2>3, PaymentTyped
  <2>5. Tx("LOAN_REPAYMENT", d) \in LogRow
    <3> HIDE DEF d
    <3> QED BY <2>4, RowTyped DEF TxTypes
  <2>6. Commit(Tx("LOAN_REPAYMENT", d)) /\ CreditFrame
    BY <1>4 DEF repayLoan
  <2>7. loans' \in [DOMAIN loans -> LoanRows]
    BY <1>4, <2>1, <2>2, RepaidTyped DEF repayLoan
  <2>8. Len(log') = Len(log) + 1
    <3> HIDE DEF d
    <3> QED BY <2>5, <2>6, CommitTyped DEF TypeInv
  <2>9. loans' \in [DOMAIN loans' -> LoanRows] /\ DOMAIN loans' \subseteq 1 .. Len(log')
    BY <1>1, <2>7, <2>8 DEF TypeInv, CreditTyped, Table
  <2>10. repayments' \subseteq RepaymentRows /\ IsFiniteSet(repayments')
    BY <1>4, <2>1, <2>2, RepaymentTyped DEF repayLoan
  <2> HIDE DEF d
  <2> QED BY <2>5, <2>6, <2>9, <2>10, CreditStepTyped
<1> QED BY <1>2, <1>3, <1>4 DEF LoanStep

\* So does every step on loans of the bank.
LEMMA BankLoanTypes == ASSUME TypeInv, BankLoanStep PROVE TypeInv'
<1>1. Len(log) \in Nat /\ CreditTyped
  BY LenProperties DEF TypeInv, MoneyTyped
<1>2. ASSUME NEW p \in Active, NEW a \in Amounts, NEW ack, issueBankLoan(p, a, ack)
      PROVE  TypeInv'
  <2> DEFINE d == Gets(p, a)
             loan == Loan(Bank, p, a)
  <2>1. a \in Nat /\ a \in Int /\ p \in Players
    BY AmountsAssumption DEF Active
  <2>2. d \in Deltas
    BY <2>1, PaymentTyped
  <2>3. Commit(Tx("LOAN_ISSUE", d)) /\ loans' = Insert(loans, loan) /\ UNCHANGED repayments
        /\ CreditFrame
    BY <1>2 DEF issueBankLoan
  <2>4. loan \in LoanRows
    BY <2>1 DEF Loan, LoanRows
  <2> HIDE DEF d, loan
  <2>5. Tx("LOAN_ISSUE", d) \in LogRow
    BY <2>2, RowTyped DEF TxTypes
  <2>6. Len(log') = Len(log) + 1
    BY <2>3, <2>5, CommitTyped DEF TypeInv
  <2>7. loans' \in [DOMAIN loans' -> LoanRows] /\ DOMAIN loans' \subseteq 1 .. Len(log')
    BY <2>3, <2>4, <2>6, TableInsert DEF TypeInv, CreditTyped
  <2> QED BY <2>3, <2>5, <2>7, CreditStepTyped DEF TypeInv, CreditTyped
<1>3. ASSUME NEW l \in BankLoans, NEW rate \in Rates, repayBankLoan(l, rate) PROVE TypeInv'
  <2> DEFINE owed == loans[l].principal - loans[l].repaid
             interest == bankLoanInterest(owed, rate)
             p == loans[l].borrower
             d == Pays(p, owed + interest)
  <2>1. l \in DOMAIN loans
    BY DEF BankLoans, ActiveLoans
  <2>2. owed \in Nat /\ p \in Players
    BY <1>1, <2>1, LoanFacts
  <2>3. /\ Commit(Tx("LOAN_REPAYMENT", d)) /\ loans' = Repaid(l, owed) /\ CreditFrame
        /\ repayments' = repayments \cup {Repayment(l, owed, interest)}
    BY <1>3 DEF repayBankLoan
  <2>4. Repaid(l, owed) \in [DOMAIN loans -> LoanRows]
    BY <1>1, <2>1, <2>2, RepaidTyped
  <2> HIDE DEF owed, p
  <2>5. interest \in Nat
    BY <2>2, InterestNat
  <2> HIDE DEF interest
  <2>6. d \in Deltas
    <3>1. owed + interest \in Int
      BY <2>2, <2>5
    <3> QED BY <2>2, <3>1, PaymentTyped
  <2> HIDE DEF d
  <2>7. Tx("LOAN_REPAYMENT", d) \in LogRow
    BY <2>6, RowTyped DEF TxTypes
  <2>8. Len(log') = Len(log) + 1
    BY <2>3, <2>7, CommitTyped DEF TypeInv
  <2>9. loans' \in [DOMAIN loans' -> LoanRows] /\ DOMAIN loans' \subseteq 1 .. Len(log')
    BY <1>1, <2>3, <2>4, <2>8 DEF CreditTyped, Table
  <2>10. repayments' \subseteq RepaymentRows /\ IsFiniteSet(repayments')
    BY <2>1, <2>2, <2>3, <2>5, RepaymentTyped
  <2> QED BY <2>3, <2>7, <2>9, <2>10, CreditStepTyped
<1> QED BY <1>2, <1>3 DEF BankLoanStep

-----------------------------------------------------------------------------
(* Steps on tiles keep the types *)

\* Money and the estate move, the rest stays.
LEMMA EstateStepTyped ==
    ASSUME TypeInv, NEW tx \in LogRow, Commit(tx), Frame,
           registry' \in [Tiles -> TileState] \/ registry' = <<>>,
           mortgages' \in [DOMAIN mortgages' -> MortgageRows],
           DOMAIN mortgages' \subseteq 1 .. Len(log'),
           trades' \in Seq(TradeRows), Len(trades') <= MaxRequests
    PROVE  TypeInv'
<1>1. Len(log) \in Nat
  BY LenProperties DEF TypeInv, MoneyTyped
<1>2. MoneyTyped' /\ Len(log) <= Len(log') /\ Len(log') \in Nat
  BY <1>1, CommitTyped DEF TypeInv, MoneyTyped, Frame
<1>3. CreditTyped' /\ TableTyped'
  BY <1>2, KeptTyped DEF Frame
<1>4. AskedTyped'
  BY DEF Frame, TypeInv, AskedTyped
<1>5. EstateTyped'
  BY DEF EstateTyped, Table
<1> QED BY <1>2, <1>3, <1>4, <1>5 DEF TypeInv

\* The mortgages as they were still fit the log.
LEMMA MortgagesKept ==
    ASSUME TypeInv, Len(log') = Len(log) + 1, NEW more \in [DOMAIN mortgages -> MortgageRows]
    PROVE  more \in [DOMAIN more -> MortgageRows] /\ DOMAIN more \subseteq 1 .. Len(log')
<1>1. Len(log) \in Nat
  BY LenProperties DEF TypeInv, MoneyTyped
<1> QED BY <1>1 DEF TypeInv, EstateTyped, Table

\* A deal keeps the types if the mortgages are kept by it.
LEMMA DealTyped ==
    ASSUME TypeInv, NEW type \in TxTypes, NEW d \in Deltas, NEW tiles \in SUBSET Tiles,
           NEW c \in ChangeSets, Deal(type, d, tiles, c),
           \/ mortgages' \in [DOMAIN mortgages -> MortgageRows]
           \/ \E row \in MortgageRows : mortgages' = Insert(mortgages, row)
    PROVE  TypeInv'
<1> DEFINE tx == TileTx(type, d, tiles, c)
<1>1. tx \in LogRow
  BY RowTyped
<1>2. Commit(tx) /\ Frame /\ registry' = applyChanges(registry, c) /\ UNCHANGED trades
  BY DEF Deal
<1> HIDE DEF tx
<1>3. Len(log') = Len(log) + 1
  BY <1>1, <1>2, CommitTyped DEF TypeInv
<1>4. registry' \in [Tiles -> TileState] \/ registry' = <<>>
  BY <1>2, ApplyTyped DEF TypeInv
<1>5. mortgages' \in [DOMAIN mortgages' -> MortgageRows] /\ DOMAIN mortgages' \subseteq 1 .. Len(log')
  <2>1. CASE mortgages' \in [DOMAIN mortgages -> MortgageRows]
    BY <1>3, <2>1, MortgagesKept
  <2>2. CASE \E row \in MortgageRows : mortgages' = Insert(mortgages, row)
    <3>1. PICK row \in MortgageRows : mortgages' = Insert(mortgages, row)
      BY <2>2
    <3> QED BY <1>3, <3>1, TableInsert DEF TypeInv, EstateTyped
  <2> QED BY <2>1, <2>2
<1>6. trades' \in Seq(TradeRows) /\ Len(trades') <= MaxRequests
  BY <1>2 DEF TypeInv, AskedTyped
<1> QED BY <1>1, <1>2, <1>4, <1>5, <1>6, EstateStepTyped

\* A mortgage of the table.
LEMMA MortgageFacts ==
    ASSUME EstateTyped, NEW m \in DOMAIN mortgages
    PROVE  /\ mortgages[m] \in MortgageRows
           /\ mortgages[m].player \in Players /\ mortgages[m].item \in Tiles \cup Names
           /\ mortgages[m].value \in Nat
<1>1. mortgages[m] \in MortgageRows
  BY DEF EstateTyped, Table
<1> QED BY <1>1 DEF MortgageRows

\* What may happen to a tile.
LEMMA TileStateFacts ==
    ASSUME NEW s \in TileState
    PROVE  /\ s.owner \in Players \cup {Bank} /\ s.mortgaged \in BOOLEAN
           /\ s.houses \in 0 .. MaxBuildings
           /\ s.mortgaged => s.owner \in Players /\ s.houses = 0
           /\ \A p \in Players \cup {Bank} : ownerChange(s, p) \in TileChange
           /\ ~s.mortgaged => \A n \in 0 .. MaxBuildings : buildingChange(s, n) \in TileChange
           /\ s.owner # Bank /\ s.houses = 0 =>
                \A flag \in BOOLEAN : mortgageChange(s, flag) \in TileChange
<1>1. /\ s \in [owner : Players \cup {Bank}, mortgaged : BOOLEAN, houses : 0 .. MaxBuildings]
      /\ s.mortgaged => s.owner # Bank /\ s.houses = 0
  BY DEF TileState
<1>2. ASSUME NEW p \in Players \cup {Bank} PROVE ownerChange(s, p) \in TileChange
  <2>1. Unowned \in TileState
    BY DEF Unowned, TileState, MaxBuildings
  <2>2. p # Bank => [s EXCEPT !.owner = p] \in TileState
    BY <1>1 DEF TileState
  <2> QED BY <2>1, <2>2 DEF ownerChange, Change, TileChange
<1>3. ASSUME ~s.mortgaged, NEW n \in 0 .. MaxBuildings PROVE buildingChange(s, n) \in TileChange
  <2>1. [s EXCEPT !.houses = n] \in TileState
    BY <1>1, <1>3 DEF TileState
  <2> QED BY <2>1 DEF buildingChange, Change, TileChange
<1>4. ASSUME s.owner # Bank, s.houses = 0, NEW flag \in BOOLEAN
      PROVE  mortgageChange(s, flag) \in TileChange
  <2>1. [s EXCEPT !.mortgaged = flag] \in TileState
    BY <1>1, <1>4 DEF TileState
  <2> QED BY <2>1 DEF mortgageChange, Change, TileChange
<1> QED BY <1>1, <1>2, <1>3, <1>4

\* A change of one tile.
LEMMA OneTileChange ==
    ASSUME NEW t \in Tiles, NEW c \in TileChange
    PROVE  One(t, c) \in ChangeSets
<1>1. One(t, c) \in [{t} -> TileChange]
  BY DEF One
<1> QED BY <1>1, ChangeSetFacts

\* Buying a tile and paying rent keep the types.
LEMMA TileTypes == ASSUME TypeInv, TileStep PROVE TypeInv'
<1>1. PICK p \in Active, t \in DOMAIN registry :
        \/ \E price \in {Tile[t].price} \cup Overrides : propertyPurchase(p, t, price)
        \/ \E dice \in Dice : payRent(p, t, dice)
  BY DEF TileStep
<1>2. p \in Players /\ EstateTyped /\ mortgages \in [DOMAIN mortgages -> MortgageRows]
  BY DEF Active, TypeInv, EstateTyped, Table
<1>3. t \in Tiles /\ registry[t] \in TileState /\ {t} \in SUBSET Tiles
  BY <1>2, RegistryFacts
<1>4. ASSUME NEW price \in {Tile[t].price} \cup Overrides, propertyPurchase(p, t, price)
      PROVE  TypeInv'
  <2> DEFINE c == One(t, ownerChange(registry[t], p))
             d == Pays(p, price)
  <2>1. price \in Int
    BY <1>3, BoardFacts, EstateAssumption
  <2>2. d \in Deltas
    BY <1>2, <2>1, PaymentTyped
  <2>3. c \in ChangeSets
    BY <1>2, <1>3, TileStateFacts, OneTileChange
  <2>4. Deal("PROPERTY_PURCHASE", d, {t}, c) /\ mortgages' = mortgages
    BY <1>4 DEF propertyPurchase
  <2> HIDE DEF c, d
  <2>5. mortgages' \in [DOMAIN mortgages -> MortgageRows]
    BY <1>2, <2>4
  <2> QED BY <1>3, <2>2, <2>3, <2>4, <2>5, DealTyped DEF TxTypes
<1>5. ASSUME NEW dice \in Dice, payRent(p, t, dice) PROVE TypeInv'
  <2> DEFINE a == rentFor(registry, t, dice)
             d == Moves(p, registry[t].owner, a)
  <2>1. a \in Int
    <3>1. a \in Nat
      BY <1>2, <1>5, RentNat DEF payRent
    <3> HIDE DEF a
    <3> QED BY <3>1
  <2>2. registry[t].owner \in Players
    BY <1>5 DEF payRent, Active
  <2>3. Deal("PAY_RENT", d, {t}, NoChange) /\ mortgages' = mortgages
    BY <1>5 DEF payRent
  <2> HIDE DEF a
  <2>4. d \in Deltas
    BY <1>2, <2>1, <2>2, PaymentTyped
  <2> HIDE DEF d
  <2>5. mortgages' \in [DOMAIN mortgages -> MortgageRows]
    BY <1>2, <2>3
  <2> QED BY <1>3, <2>3, <2>4, <2>5, NoChangeFact, DealTyped DEF TxTypes
<1> QED BY <1>1, <1>4, <1>5

\* The product of integers is one.
LEMMA ProductInt == \A a, b \in Int : a * b \in Int
  OBVIOUS

\* What the buildings of a plan cost or bring.
LEMMA MovedSums ==
    ASSUME NEW c \in ChangeSets
    PROVE  LET moved == Moved(c)
           IN /\ SumFunction([t \in DOMAIN moved |-> moved[t] * Tile[t].houseCost]) \in Int
              /\ SumFunction([t \in DOMAIN moved |-> moved[t] * sellRefund(t)]) \in Int
<1> DEFINE moved == Moved(c)
           S == DOMAIN c
           f == [t \in S |-> moved[t] * Tile[t].houseCost]
           g == [t \in S |-> moved[t] * sellRefund(t)]
<1>1. S \subseteq Tiles /\ \A t \in S : c[t].before \in TileState /\ c[t].after \in TileState
  BY ChangeSetFacts
<1>2. IsFiniteSet(S)
  BY <1>1, BoardAssumption, FS_Subset
<1>3. ASSUME NEW t \in S PROVE moved[t] \in Int /\ t \in Tiles
  <2>1. c[t].before.houses \in Int /\ c[t].after.houses \in Int
    BY <1>1, <1>3, TileStateFacts
  <2> QED BY <1>1, <2>1 DEF Moved
<1>4. DOMAIN moved = S
  BY DEF Moved
<1> HIDE DEF moved, S
<1>5. f \in [S -> Int]
  <2>1. \A t \in S : Tile[t].houseCost \in Int
    BY <1>3, BoardFacts
  <2> QED BY <1>3, <2>1, ProductInt
<1>6. g \in [S -> Int]
  <2>1. \A t \in S : sellRefund(t) \in Int
    BY <1>3, BoardFacts
  <2> QED BY <1>3, <2>1, ProductInt
<1>7. SumFunction(f) \in Int /\ SumFunction(g) \in Int
  <2> HIDE DEF f, g
  <2> QED BY <1>2, <1>5, <1>6, FunctionSumType
<1> QED BY <1>4, <1>7 DEF moved

\* The changes of a plan of buildings.
LEMMA LevelChangesTyped ==
    ASSUME EstateTyped, NEW p, NEW targets, NEW direction, registry # <<>>,
           planBuildings(registry, p, targets, direction)
    PROVE  LevelChanges(targets) \in ChangeSets
<1>1. registry \in [Tiles -> TileState]
  BY RegistryFacts
<1>2. PICK g \in DOMAIN targets :
        /\ DOMAIN targets \subseteq groupTiles(g)
        /\ \A t \in DOMAIN targets : targets[t] \in 0 .. MaxBuildings
        /\ \A u \in groupTiles(g) : ~registry[u].mortgaged
  BY DEF planBuildings
<1>3. \A t \in DOMAIN targets : t \in Tiles /\ ~registry[t].mortgaged /\ registry[t] \in TileState
  BY <1>1, <1>2 DEF groupTiles
<1>4. \A t \in DOMAIN targets : buildingChange(registry[t], targets[t]) \in TileChange
  BY <1>2, <1>3, TileStateFacts
<1> DEFINE S == {u \in DOMAIN targets : targets[u] # registry[u].houses}
<1>5. LevelChanges(targets) \in [S -> TileChange]
  BY <1>4 DEF LevelChanges
<1>6. S \in SUBSET Tiles
  BY <1>3
<1> QED BY <1>5, <1>6, ChangeSetFacts

\* Building and selling buildings keeps the types.
LEMMA BuildingTypes == ASSUME TypeInv, BuildingStep PROVE TypeInv'
<1>1. PICK p, targets, direction : p \in Active /\ building(p, targets, direction)
  BY DEF BuildingStep
<1> DEFINE c == LevelChanges(targets)
           moved == Moved(c)
           cost == SumFunction([t \in DOMAIN moved |-> moved[t] * Tile[t].houseCost])
           refund == - SumFunction([t \in DOMAIN moved |-> moved[t] * sellRefund(t)])
<1>2. /\ registry # <<>> /\ planBuildings(registry, p, targets, direction)
      /\ mortgages' = mortgages
      /\ \/ Deal("PROPERTY_BUILD", Pays(p, cost), DOMAIN c, c)
         \/ Deal("PROPERTY_SELL_BUILDING", Gets(p, refund), DOMAIN c, c)
  BY <1>1 DEF building
<1>3. p \in Players /\ EstateTyped /\ mortgages \in [DOMAIN mortgages -> MortgageRows]
  BY <1>1 DEF Active, TypeInv, EstateTyped, Table
<1>4. c \in ChangeSets
  BY <1>2, <1>3, LevelChangesTyped
<1> HIDE DEF c
<1>5. cost \in Int /\ refund \in Int
  <2>1. /\ SumFunction([t \in DOMAIN moved |-> moved[t] * Tile[t].houseCost]) \in Int
        /\ SumFunction([t \in DOMAIN moved |-> moved[t] * sellRefund(t)]) \in Int
    BY <1>4, MovedSums
  <2> QED BY <2>1
<1> HIDE DEF cost, refund
<1>6. Pays(p, cost) \in Deltas /\ Gets(p, refund) \in Deltas /\ DOMAIN c \in SUBSET Tiles
  BY <1>3, <1>4, <1>5, PaymentTyped, ChangeSetFacts
<1>7. mortgages' \in [DOMAIN mortgages -> MortgageRows]
  BY <1>2, <1>3
<1>8. CASE Deal("PROPERTY_BUILD", Pays(p, cost), DOMAIN c, c)
  BY <1>4, <1>6, <1>7, <1>8, DealTyped DEF TxTypes
<1>9. CASE Deal("PROPERTY_SELL_BUILDING", Gets(p, refund), DOMAIN c, c)
  BY <1>4, <1>6, <1>7, <1>9, DealTyped DEF TxTypes
<1> QED BY <1>2, <1>8, <1>9

\* A new mortgage and a redeemed one.
LEMMA MortgageRowTyped ==
    ASSUME NEW p \in Players, NEW item \in Tiles \cup Names, NEW value \in Nat
    PROVE  MortgageRow(p, item, value) \in MortgageRows
  BY DEF MortgageRow, MortgageRows

\* And so is a redeemed one.
LEMMA RedeemedTyped ==
    ASSUME TypeInv, NEW m \in DOMAIN mortgages
    PROVE  Redeemed(m) \in [DOMAIN mortgages -> MortgageRows]
<1> DEFINE row == [mortgages[m] EXCEPT !.state = "REDEEMED", !.redeemedBy = NextId]
<1>1. mortgages \in [DOMAIN mortgages -> MortgageRows] /\ NextId \in Nat
  BY LenProperties DEF TypeInv, EstateTyped, Table, MoneyTyped, NextId
<1>2. row \in MortgageRows
  BY <1>1 DEF MortgageRows
<1>3. Redeemed(m) = [mortgages EXCEPT ![m] = row]
  BY <1>1 DEF Redeemed, MortgageRows
<1> HIDE DEF row
<1> QED BY <1>1, <1>2, <1>3

\* A mortgage handed over with its tile stays one.
LEMMA HandOverTyped ==
    ASSUME TypeInv, NEW c \in ChangeSets
    PROVE  HandOver(c) \in [DOMAIN mortgages -> MortgageRows]
<1>1. mortgages \in [DOMAIN mortgages -> MortgageRows]
  BY DEF TypeInv, EstateTyped, Table
<1>2. ASSUME NEW m \in DOMAIN mortgages PROVE HandOver(c)[m] \in MortgageRows
  <2> DEFINE t == mortgages[m].item
             handed == /\ mortgages[m].state = "ACTIVE" /\ t \in DOMAIN c
                       /\ c[t].before.mortgaged /\ c[t].after.mortgaged
  <2>1. HandOver(c)[m] = IF handed THEN [mortgages[m] EXCEPT !.player = c[t].after.owner]
                                   ELSE mortgages[m]
    BY DEF HandOver
  <2>2. mortgages[m] \in MortgageRows
    BY <1>1
  <2>3. handed => c[t].after.owner \in Players
    BY ChangeSetFacts, TileStateFacts
  <2> HIDE DEF t
  <2>4. c[t].after.owner \in Players => [mortgages[m] EXCEPT !.player = c[t].after.owner] \in MortgageRows
    BY <2>2 DEF MortgageRows
  <2> QED BY <2>1, <2>2, <2>3, <2>4
<1>3. HandOver(c) = [m \in DOMAIN mortgages |-> HandOver(c)[m]]
  BY DEF HandOver
<1> QED BY <1>2, <1>3

\* Mortgaging and redeeming keep the types.
LEMMA MortgageTypes == ASSUME TypeInv, MortgageStep PROVE TypeInv'
<1>1. EstateTyped /\ Active \subseteq Players /\ Values \subseteq Nat
  BY EstateAssumption DEF TypeInv, Active
<1>2. ASSUME NEW p \in Active, NEW t \in DOMAIN registry, mortgageTile(p, t) PROVE TypeInv'
  <2> DEFINE c == One(t, mortgageChange(registry[t], TRUE))
             d == Gets(p, Tile[t].mortgage)
             row == MortgageRow(p, t, Tile[t].mortgage)
  <2>1. t \in Tiles /\ {t} \in SUBSET Tiles /\ registry[t] \in TileState /\ p \in Players
        /\ registry \in [Tiles -> TileState] /\ p # Bank
    BY <1>1, RegistryFacts, LedgerAssumption
  <2>2. Tile[t].mortgage \in Nat /\ Tile[t].mortgage \in Int
    BY <2>1, BoardFacts
  <2>3. registry[t].owner = p /\ registry[t].houses = 0
    <3>1. registry[t].owner = p /\ ~(registry[t].houses > 0)
      BY <1>2, <2>1 DEF mortgageTile, canMortgage, groupHasBuildings, groupTiles
    <3> QED BY <2>1, <3>1, TileStateFacts DEF MaxBuildings
  <2>4. c \in ChangeSets
    <3>1. mortgageChange(registry[t], TRUE) \in TileChange
      BY <2>1, <2>3, TileStateFacts
    <3> QED BY <2>1, <3>1, OneTileChange
  <2>5. d \in Deltas /\ row \in MortgageRows
    BY <2>1, <2>2, PaymentTyped, MortgageRowTyped
  <2>6. Deal("MORTGAGE", d, {t}, c) /\ mortgages' = Insert(mortgages, row)
    BY <1>2 DEF mortgageTile
  <2> HIDE DEF c, d, row
  <2> QED BY <2>1, <2>4, <2>5, <2>6, DealTyped DEF TxTypes
<1>3. ASSUME NEW p \in Active, NEW name \in Names, NEW value \in Values,
             mortgageProperty(p, name, value)
      PROVE  TypeInv'
  <2> DEFINE tx == Tx("MORTGAGE", Gets(p, value))
             row == MortgageRow(p, name, value)
  <2>1. p \in Players /\ value \in Nat /\ value \in Int
    BY <1>1
  <2>2. Gets(p, value) \in Deltas /\ row \in MortgageRows
    BY <2>1, PaymentTyped, MortgageRowTyped
  <2>3. tx \in LogRow
    BY <2>2, RowTyped DEF TxTypes
  <2>4. Commit(tx) /\ mortgages' = Insert(mortgages, row) /\ UNCHANGED <<registry, trades>> /\ Frame
    BY <1>3 DEF mortgageProperty
  <2> HIDE DEF tx, row
  <2>5. Len(log') = Len(log) + 1
    BY <2>3, <2>4, CommitTyped DEF TypeInv
  <2>6. mortgages' \in [DOMAIN mortgages' -> MortgageRows] /\ DOMAIN mortgages' \subseteq 1 .. Len(log')
    BY <2>2, <2>4, <2>5, TableInsert DEF TypeInv, EstateTyped
  <2>7. /\ registry' \in [Tiles -> TileState] \/ registry' = <<>>
        /\ trades' \in Seq(TradeRows) /\ Len(trades') <= MaxRequests
    BY <2>4 DEF TypeInv, EstateTyped, AskedTyped
  <2> QED BY <2>3, <2>4, <2>6, <2>7, EstateStepTyped
<1>4. ASSUME NEW m \in ActiveMortgages, redeemMortgage(m) PROVE TypeInv'
  <2> DEFINE row == mortgages[m]
             d == Pays(row.player, redemptionCost(row.value))
             t == row.item
             c == One(t, mortgageChange(registry[t], FALSE))
  <2>1. m \in DOMAIN mortgages
    BY DEF ActiveMortgages
  <2>2. row.player \in Players /\ redemptionCost(row.value) \in Int
    <3>1. row.player \in Players /\ row.value \in Nat
      BY <1>1, <2>1, MortgageFacts
    <3>2. redemptionCost(row.value) \in Nat
      BY <3>1, BoardFacts
    <3> QED BY <3>1, <3>2
  <2>3. d \in Deltas
    BY <2>2, PaymentTyped
  <2>4. mortgages' = Redeemed(m) /\ mortgages' \in [DOMAIN mortgages -> MortgageRows]
    BY <1>4, <2>1, RedeemedTyped DEF redeemMortgage
  <2>5. CASE t \in DOMAIN registry
    <3>1. Deal("MORTGAGE_REDEMPTION", d, {t}, c) /\ registry[t].owner = row.player /\ registry[t].mortgaged
      BY <1>4, <2>5 DEF redeemMortgage
    <3>2. t \in Tiles /\ {t} \in SUBSET Tiles /\ registry[t] \in TileState
      BY <1>1, <2>5, RegistryFacts
    <3>3. registry[t].owner # Bank /\ registry[t].houses = 0
      BY <3>1, <3>2, TileStateFacts, LedgerAssumption
    <3>4. c \in ChangeSets
      <4>1. mortgageChange(registry[t], FALSE) \in TileChange
        BY <3>2, <3>3, TileStateFacts
      <4> QED BY <3>2, <4>1, OneTileChange
    <3> HIDE DEF c, d, t
    <3> QED BY <2>3, <2>4, <3>1, <3>2, <3>4, DealTyped DEF TxTypes
  <2>6. CASE t \notin DOMAIN registry
    <3> DEFINE tx == Tx("MORTGAGE_REDEMPTION", d)
    <3>1. Commit(tx) /\ UNCHANGED <<registry, trades>> /\ Frame
      BY <1>4, <2>6 DEF redeemMortgage
    <3> HIDE DEF d
    <3>2. tx \in LogRow
      BY <2>3, RowTyped DEF TxTypes
    <3> HIDE DEF tx
    <3>3. Len(log') = Len(log) + 1
      BY <3>1, <3>2, CommitTyped DEF TypeInv
    <3>4. mortgages' \in [DOMAIN mortgages' -> MortgageRows] /\ DOMAIN mortgages' \subseteq 1 .. Len(log')
      BY <2>4, <3>3, MortgagesKept
    <3>5. /\ registry' \in [Tiles -> TileState] \/ registry' = <<>>
          /\ trades' \in Seq(TradeRows) /\ Len(trades') <= MaxRequests
      BY <3>1 DEF TypeInv, EstateTyped, AskedTyped
    <3> QED BY <3>1, <3>2, <3>4, <3>5, EstateStepTyped
  <2> QED BY <2>5, <2>6
<1> QED BY <1>2, <1>3, <1>4 DEF MortgageStep

\* The fees on mortgaged tiles.
LEMMA FeesNat ==
    ASSUME EstateTyped, NEW tiles \in SUBSET DOMAIN registry
    PROVE  FeesOf(tiles) \in Nat
<1> DEFINE S == {u \in tiles : registry[u].mortgaged}
           f == [t \in S |-> mortgageTransferFee(t)]
<1>1. S \subseteq Tiles /\ IsFiniteSet(S)
  BY RegistryFacts, FS_Subset
<1>2. f \in [S -> Nat]
  BY <1>1, BoardFacts
<1>3. SumFunction(f) \in Nat
  <2> HIDE DEF f, S
  <2> QED BY <1>1, <1>2, FunctionSumNat
<1> QED BY <1>3 DEF FeesOf

\* A trade as it is made or accepted moves money and tiles of two players.
LEMMA TradeTyped ==
    ASSUME TypeInv, NEW x, x.cashGive \in Cash, x.cashTake \in Cash,
           Tradable(x.from, x.to, x.give, x.take)
    PROVE  /\ x.from \in Players /\ x.to \in Players /\ x.from # x.to
           /\ {x.from, x.to} \subseteq Active
           /\ x.give \in SUBSET Tiles /\ x.take \in SUBSET Tiles
           /\ TransferDelta(x) \in Deltas /\ DOMAIN TransferDelta(x) = {x.from, x.to}
           /\ TransferChanges(x) \in ChangeSets
           /\ DOMAIN TransferChanges(x) = x.give \cup x.take
           /\ transferProperties(x) \in LogRow
<1>1. /\ x.from \in Players /\ x.to \in Players /\ x.from # x.to
      /\ {x.from, x.to} \subseteq Active
      /\ x.give \in SUBSET DOMAIN registry /\ x.take \in SUBSET DOMAIN registry /\ EstateTyped
  BY DEF Tradable, Active, TypeInv
<1>2. /\ x.give \in SUBSET Tiles /\ x.take \in SUBSET Tiles
      /\ \A t \in x.give \cup x.take : registry[t] \in TileState
  BY <1>1, RegistryFacts
<1>3. TransferDelta(x) \in Deltas /\ DOMAIN TransferDelta(x) = {x.from, x.to}
  <2>1. x.cashGive \in Int /\ x.cashTake \in Int
    BY EstateAssumption
  <2>2. FeesOf(x.give) \in Int /\ FeesOf(x.take) \in Int
    BY <1>1, FeesNat
  <2>3. TransferDelta(x) \in [{x.from, x.to} -> Int]
    BY <2>1, <2>2 DEF TransferDelta
  <2>4. {x.from, x.to} \in SUBSET Players
    BY <1>1
  <2> QED BY <2>3, <2>4, DeltaFacts
<1>4. TransferChanges(x) \in ChangeSets /\ DOMAIN TransferChanges(x) = x.give \cup x.take
  <2>1. ASSUME NEW t \in x.give \cup x.take
        PROVE  ownerChange(registry[t], IF t \in x.give THEN x.to ELSE x.from) \in TileChange
    BY <1>1, <1>2, TileStateFacts
  <2>2. TransferChanges(x) \in [x.give \cup x.take -> TileChange]
    BY <2>1 DEF TransferChanges
  <2>3. x.give \cup x.take \in SUBSET Tiles
    BY <1>2
  <2> QED BY <2>2, <2>3, ChangeSetFacts
<1>5. transferProperties(x) \in LogRow
  <2>1. Tx("PROPERTY_TRANSFER", TransferDelta(x)) \in LogRow
    BY <1>3, RowTyped DEF TxTypes
  <2>2. x.give \cup x.take \in SUBSET Tiles
    BY <1>2
  <2> QED BY <1>1, <1>4, <2>1, <2>2 DEF transferProperties, LogRow
<1> QED BY <1>1, <1>2, <1>3, <1>4, <1>5

\* A step that touches nothing but the trades keeps the types.
LEMMA OnlyTradesTyped ==
    ASSUME TypeInv, UNCHANGED <<wallet, log, estate>>, Frame,
           trades' \in Seq(TradeRows), Len(trades') <= MaxRequests
    PROVE  TypeInv'
<1>1. Len(log) <= Len(log') /\ Len(log') \in Nat
  BY LenProperties DEF TypeInv, MoneyTyped
<1>2. MoneyTyped' /\ EstateTyped' /\ CreditTyped' /\ TableTyped'
  BY <1>1, KeptTyped DEF money, Frame
<1>3. AskedTyped'
  BY DEF TypeInv, AskedTyped, Frame
<1> QED BY <1>2, <1>3 DEF TypeInv

\* A row of the table of trades.
LEMMA TradeFacts ==
    ASSUME AskedTyped, NEW r \in DOMAIN trades
    PROVE  /\ trades[r] \in TradeRows
           /\ trades[r].from \in Players /\ trades[r].to \in Players
           /\ trades[r].give \in SUBSET Tiles /\ trades[r].take \in SUBSET Tiles
           /\ trades[r].cashGive \in Cash /\ trades[r].cashTake \in Cash
<1>1. trades[r] \in TradeRows
  BY LenProperties DEF AskedTyped
<1> QED BY <1>1 DEF TradeRows

\* Every step on trades keeps the types.
LEMMA TradeTypes == ASSUME TypeInv, TradeStep PROVE TypeInv'
<1>1. trades \in Seq(TradeRows) /\ Len(trades) <= MaxRequests /\ AskedTyped
  BY DEF TypeInv, AskedTyped
<1>2. ASSUME NEW p \in Active, NEW q \in Active, NEW give \in Sides, NEW take \in Sides,
             NEW cashGive \in Cash, NEW cashTake \in Cash,
             createTradeRequest(p, q, give, take, cashGive, cashTake)
      PROVE  TypeInv'
  <2> DEFINE x == [from |-> p, to |-> q, give |-> give, take |-> take,
                   cashGive |-> cashGive, cashTake |-> cashTake,
                   state |-> "PENDING", due |-> now + TimeToLive, tx |-> 0]
  <2>1. now + TimeToLive \in Nat
    BY LedgerAssumption DEF TypeInv, TableTyped
  <2>2. p \in Players /\ q \in Players /\ give \in SUBSET Tiles /\ take \in SUBSET Tiles
    BY EstateAssumption DEF Active
  <2>3. x \in TradeRows
    BY <2>1, <2>2 DEF TradeRows, RequestStates
  <2>4. /\ Len(trades) < MaxRequests /\ trades' = Append(expirePending(trades), x)
        /\ UNCHANGED <<wallet, log, estate>> /\ Frame
    BY <1>2 DEF createTradeRequest
  <2> HIDE DEF x
  <2>5. /\ expirePending(trades) \in Seq(TradeRows)
        /\ Len(expirePending(trades)) = Len(trades) /\ Len(trades) \in Nat
    BY <1>1, TradesExpire, LenProperties
  <2>6. trades' \in Seq(TradeRows) /\ Len(trades') = Len(trades) + 1
    BY <2>3, <2>4, <2>5, AppendProperties
  <2>7. Len(trades') <= MaxRequests
    BY <2>4, <2>5, <2>6, LedgerAssumption
  <2> QED BY <2>4, <2>6, <2>7, OnlyTradesTyped
<1>3. ASSUME NEW r \in DOMAIN trades, acceptTradeRequest(r) PROVE TypeInv'
  <2> DEFINE x == trades[r]
             tx == transferProperties(x)
             c == TransferChanges(x)
  <2>1. /\ Tradable(x.from, x.to, x.give, x.take) /\ Commit(tx) /\ Frame
        /\ trades' = [expirePending(trades) EXCEPT ![r].state = "ACCEPTED", ![r].tx = NextId]
        /\ registry' = applyChanges(registry, c) /\ mortgages' = HandOver(c)
    BY <1>3 DEF acceptTradeRequest
  <2>2. tx \in LogRow /\ c \in ChangeSets
    BY <1>1, <2>1, TradeFacts, TradeTyped
  <2> HIDE DEF tx, c
  <2>3. Len(log') = Len(log) + 1
    BY <2>1, <2>2, CommitTyped DEF TypeInv
  <2>4. registry' \in [Tiles -> TileState] \/ registry' = <<>>
    BY <2>1, <2>2, ApplyTyped DEF TypeInv
  <2>5. mortgages' \in [DOMAIN mortgages' -> MortgageRows] /\ DOMAIN mortgages' \subseteq 1 .. Len(log')
    BY <2>1, <2>2, <2>3, HandOverTyped, MortgagesKept
  <2>6. trades' \in Seq(TradeRows) /\ Len(trades') <= MaxRequests
    <3>1. NextId \in Nat
      BY LenProperties DEF TypeInv, MoneyTyped, NextId
    <3> QED BY <1>1, <2>1, <3>1, TradeResolved DEF RequestStates
  <2> QED BY <2>1, <2>2, <2>4, <2>5, <2>6, EstateStepTyped
<1>4. ASSUME NEW r \in DOMAIN trades, NEW state \in {"DECLINED", "CANCELLED"},
             resolveTradeRequest(r, state)
      PROVE  TypeInv'
  <2>1. state \in RequestStates
    BY DEF RequestStates
  <2>2. trades' \in Seq(TradeRows) /\ Len(trades') = Len(trades)
    BY <1>1, <1>4, <2>1, TradeStateSet DEF resolveTradeRequest
  <2> QED BY <1>1, <1>4, <2>2, OnlyTradesTyped DEF resolveTradeRequest
<1>5. ASSUME listTradeRequests PROVE TypeInv'
  <2>1. trades' \in Seq(TradeRows) /\ Len(trades') = Len(trades)
    BY <1>1, <1>5, TradesExpire DEF listTradeRequests
  <2> QED BY <1>1, <1>5, <2>1, OnlyTradesTyped DEF listTradeRequests
<1> QED BY <1>2, <1>3, <1>4, <1>5 DEF TradeStep

-----------------------------------------------------------------------------
(* A reversal and a bankruptcy keep the types *)

\* The transaction that undoes another.
Undoing(i) ==
  [TileTx("REVERSAL", [p \in DOMAIN log[i].delta |-> -log[i].delta[p]],
          log[i].tiles, invertChanges(log[i].changes)) EXCEPT !.undoes = i]

\* A row of the log, and the one that undoes it.
LEMMA LogFacts ==
    ASSUME MoneyTyped, NEW i \in DOMAIN log
    PROVE  /\ log[i] \in LogRow /\ i \in Nat
           /\ log[i].type \in TxTypes /\ log[i].delta \in Deltas
           /\ log[i].tiles \in SUBSET Tiles /\ log[i].changes \in ChangeSets
           /\ Undoing(i) \in LogRow
           /\ Undoing(i).delta = [p \in DOMAIN log[i].delta |-> -log[i].delta[p]]
           /\ Undoing(i).changes = invertChanges(log[i].changes)
<1>1. log[i] \in LogRow /\ i \in Nat
  BY LenProperties DEF MoneyTyped
<1>2. /\ log[i].type \in TxTypes /\ log[i].delta \in Deltas
      /\ log[i].tiles \in SUBSET Tiles /\ log[i].changes \in ChangeSets
  BY <1>1 DEF LogRow
<1> DEFINE d == [p \in DOMAIN log[i].delta |-> -log[i].delta[p]]
<1>3. d \in Deltas
  <2>1. log[i].delta \in [DOMAIN log[i].delta -> Int] /\ DOMAIN log[i].delta \in SUBSET Players
    BY <1>2, DeltaFacts
  <2>2. d \in [DOMAIN log[i].delta -> Int]
    BY <2>1
  <2> QED BY <2>1, <2>2, DeltaFacts
<1>4. invertChanges(log[i].changes) \in ChangeSets
  BY <1>2, InvertTyped
<1>5. TileTx("REVERSAL", d, log[i].tiles, invertChanges(log[i].changes)) \in LogRow
  <2> HIDE DEF d
  <2> QED BY <1>2, <1>3, <1>4, RowTyped DEF TxTypes
<1>6. Undoing(i) \in LogRow
  BY <1>1, <1>5 DEF Undoing, LogRow
<1>7. Undoing(i).delta = d /\ Undoing(i).changes = invertChanges(log[i].changes)
  BY DEF Undoing, TileTx, Tx
<1> QED BY <1>1, <1>2, <1>6, <1>7

\* The mortgages after a reversal.
LEMMA MortgageReversalTyped ==
    ASSUME TypeInv, NEW i \in DOMAIN log
    PROVE  mortgageReversal(i) \in [DOMAIN mortgages -> MortgageRows]
<1> DEFINE c == invertChanges(log[i].changes)
<1>1. c \in ChangeSets
  BY LogFacts, InvertTyped DEF TypeInv
<1>2. HandOver(c) \in [DOMAIN mortgages -> MortgageRows]
  BY <1>1, HandOverTyped
<1>3. mortgages \in [DOMAIN mortgages -> MortgageRows]
  BY DEF TypeInv, EstateTyped, Table
<1>4. ASSUME NEW m \in DOMAIN mortgages PROVE mortgageReversal(i)[m] \in MortgageRows
  <2>1. /\ [mortgages[m] EXCEPT !.state = "RELEASED"] \in MortgageRows
        /\ [mortgages[m] EXCEPT !.state = "ACTIVE", !.redeemedBy = 0] \in MortgageRows
    BY <1>3 DEF MortgageRows
  <2>2. HandOver(c)[m] \in MortgageRows
    BY <1>2
  <2> QED BY <2>1, <2>2 DEF mortgageReversal
<1>5. mortgageReversal(i) = [m \in DOMAIN mortgages |-> mortgageReversal(i)[m]]
  BY DEF mortgageReversal
<1> QED BY <1>4, <1>5

\* A reversal keeps the types.
LEMMA ReverseTypes == ASSUME TypeInv, ReverseStep PROVE TypeInv'
<1>1. PICK i \in DOMAIN log : reverseTransaction(i)
  BY DEF ReverseStep
<1> DEFINE tx == Undoing(i)
           c == invertChanges(log[i].changes)
<1>2. /\ Commit(tx) /\ registry' = applyChanges(registry, c) /\ mortgages' = mortgageReversal(i)
      /\ UNCHANGED trades /\ Frame
  BY <1>1 DEF reverseTransaction, Undoing
<1>3. tx \in LogRow /\ c \in ChangeSets
  BY LogFacts, InvertTyped DEF TypeInv
<1> HIDE DEF tx, c
<1>4. Len(log') = Len(log) + 1
  BY <1>2, <1>3, CommitTyped DEF TypeInv
<1>5. registry' \in [Tiles -> TileState] \/ registry' = <<>>
  BY <1>2, <1>3, ApplyTyped DEF TypeInv
<1>6. mortgages' \in [DOMAIN mortgages' -> MortgageRows] /\ DOMAIN mortgages' \subseteq 1 .. Len(log')
  BY <1>2, <1>4, MortgageReversalTyped, MortgagesKept
<1>7. trades' \in Seq(TradeRows) /\ Len(trades') <= MaxRequests
  BY <1>2 DEF TypeInv, AskedTyped
<1> QED BY <1>2, <1>3, <1>5, <1>6, <1>7, EstateStepTyped

\* The smaller of two numbers.
LEMMA MinOfTwo ==
    ASSUME NEW a \in Nat, NEW b \in Nat
    PROVE  Min({a, b}) \in Nat /\ Min({a, b}) <= a /\ Min({a, b}) <= b
<1>1. \E x \in {a, b} : \A y \in {a, b} : x <= y
  OBVIOUS
<1>2. Min({a, b}) \in {a, b} /\ \A y \in {a, b} : Min({a, b}) <= y
  BY <1>1 DEF Min
<1> QED BY <1>2

\* What a bankrupt's tiles bring.
LEMMA ProceedsNat == ASSUME EstateTyped, NEW p PROVE proceeds(p) \in Nat
<1> DEFINE f == [t \in Owned(p) |-> registry[t].houses * sellRefund(t)]
<1>1. Owned(p) \subseteq DOMAIN registry
  BY DEF Owned
<1>2. IsFiniteSet(Owned(p))
  BY <1>1, RegistryFacts, FS_Subset
<1>3. \A t \in Owned(p) : registry[t].houses \in Nat /\ sellRefund(t) \in Nat
  BY <1>1, RegistryFacts, TileStateFacts, BoardFacts
<1>4. f \in [Owned(p) -> Nat]
  BY <1>3, ProductNat
<1> HIDE DEF f
<1>5. SumFunction(f) \in Nat
  BY <1>2, <1>4, FunctionSumNat
<1> QED BY <1>5 DEF proceeds, f

\* What the bank takes for one of its loans.
LEMMA SettlementFacts ==
    ASSUME TypeInv, NEW l \in DOMAIN loans, NEW cash \in Nat
    PROVE  LET s == settleBankLoan(l, cash)
           IN /\ s \in RepaymentRows /\ s.tx = NextId /\ s.loan = l
              /\ s.amount \in Nat /\ s.amount <= loans[l].principal - loans[l].repaid
              /\ s.interest \in Nat /\ s.amount + s.interest <= cash
<1> DEFINE owed == loans[l].principal - loans[l].repaid
           rate == suggestedRatePercent(loanRound(l))
           debt == owed + bankLoanInterest(loans[l].principal, rate)
           taken == Min({cash, debt})
           paid == Min({taken, owed})
<1>1. owed \in Nat /\ loans[l].principal \in Nat /\ l \in Nat
  BY LoanFacts DEF TypeInv
<1>2. rate \in Rates
  BY DEF suggestedRatePercent, Rates
<1>3. debt \in Nat
  <2> HIDE DEF rate
  <2>1. bankLoanInterest(loans[l].principal, rate) \in Nat
    BY <1>1, <1>2, InterestNat
  <2> HIDE DEF owed
  <2> QED BY <1>1, <2>1
<1> HIDE DEF debt, rate, owed
<1>4. taken \in Nat /\ taken <= cash
  BY <1>3, MinOfTwo
<1> HIDE DEF taken
<1>5. paid \in Nat /\ paid <= taken /\ paid <= owed
  BY <1>1, <1>4, MinOfTwo
<1> HIDE DEF paid
<1>6. settleBankLoan(l, cash) = [tx |-> NextId, loan |-> l, amount |-> paid, interest |-> taken - paid]
  BY DEF settleBankLoan, owed, rate, debt, taken, paid
<1>7. NextId \in Nat
  BY LenProperties DEF TypeInv, MoneyTyped, NextId
<1>8. taken - paid \in Nat /\ paid + (taken - paid) <= cash
  BY <1>4, <1>5
<1> HIDE DEF settleBankLoan
<1>9. settleBankLoan(l, cash) \in RepaymentRows
  BY <1>1, <1>5, <1>6, <1>7, <1>8 DEF RepaymentRows
<1> QED BY <1>5, <1>6, <1>8, <1>9 DEF owed

\* What the bank takes of a bankrupt, loan by loan.
LEMMA SettlementsFacts ==
    ASSUME TypeInv, NEW p \in Players
    PROVE  /\ wallet[p] + proceeds(p) \in Nat
           /\ Settlements(p) \subseteq RepaymentRows /\ IsFiniteSet(Settlements(p))
           /\ \A s \in Settlements(p) :
                /\ s.tx = NextId /\ s.loan \in bankLoanOf(p)
                /\ s = settleBankLoan(s.loan, wallet[p] + proceeds(p))
                /\ s.amount \in Nat /\ s.interest \in Nat
                /\ s.amount <= loans[s.loan].principal - loans[s.loan].repaid
           /\ \A l \in bankLoanOf(p) : settleBankLoan(l, wallet[p] + proceeds(p)) \in Settlements(p)
           /\ bankLoanOf(p) \subseteq DOMAIN loans
           /\ BankTake(p) \in Nat
<1> DEFINE cash == wallet[p] + proceeds(p)
<1>1. cash \in Nat
  <2>1. wallet[p] \in Nat /\ proceeds(p) \in Nat
    BY ProceedsNat DEF TypeInv, MoneyTyped
  <2> QED BY <2>1
<1>2. bankLoanOf(p) \subseteq DOMAIN loans
  BY DEF bankLoanOf, BankLoans, ActiveLoans
<1>3. Settlements(p) = {settleBankLoan(l, cash) : l \in bankLoanOf(p)}
  BY DEF Settlements
<1> HIDE DEF cash
<1>4. IsFiniteSet(Settlements(p))
  <2> DEFINE f == [l \in bankLoanOf(p) |-> settleBankLoan(l, cash)]
  <2>1. IsFiniteSet(bankLoanOf(p))
    <3>1. IsFiniteSet(1 .. Len(log))
      BY LenProperties, FS_Interval DEF TypeInv, MoneyTyped
    <3>2. bankLoanOf(p) \in SUBSET (1 .. Len(log))
      BY <1>2 DEF TypeInv, CreditTyped, Table
    <3> QED BY <3>1, <3>2, FS_Subset
  <2>2. f \in Surjection(bankLoanOf(p), Settlements(p))
    BY <1>3 DEF Surjection
  <2> HIDE DEF f
  <2> QED BY <2>1, <2>2, FS_Surjection
<1>5. \A s \in Settlements(p) :
        /\ s \in RepaymentRows
        /\ s.tx = NextId /\ s.loan \in bankLoanOf(p)
        /\ s = settleBankLoan(s.loan, cash)
        /\ s.amount \in Nat /\ s.interest \in Nat
        /\ s.amount <= loans[s.loan].principal - loans[s.loan].repaid
  <2> SUFFICES ASSUME NEW l \in bankLoanOf(p)
               PROVE  LET s == settleBankLoan(l, cash)
                      IN /\ s \in RepaymentRows
                         /\ s.tx = NextId /\ s.loan \in bankLoanOf(p)
                         /\ s = settleBankLoan(s.loan, cash)
                         /\ s.amount \in Nat /\ s.interest \in Nat
                         /\ s.amount <= loans[s.loan].principal - loans[s.loan].repaid
    BY <1>3
  <2> QED BY <1>1, <1>2, SettlementFacts
<1>6. BankTake(p) \in Nat
  <2> DEFINE f == [s \in Settlements(p) |-> s.amount + s.interest]
  <2>1. f \in [Settlements(p) -> Nat]
    BY <1>5
  <2> HIDE DEF f
  <2>2. SumFunction(f) \in Nat
    BY <1>4, <2>1, FunctionSumNat
  <2> QED BY <2>2 DEF BankTake, f
<1> QED BY <1>1, <1>2, <1>3, <1>4, <1>5, <1>6 DEF cash

\* The bankrupt's tiles change hands.
LEMMA AssetsTyped ==
    ASSUME EstateTyped, NEW p, NEW heir \in Players \cup {Bank}
    PROVE  bankruptcyAssets(p, heir) \in ChangeSets /\ DOMAIN bankruptcyAssets(p, heir) = Owned(p)
<1>1. Owned(p) \subseteq DOMAIN registry
  BY DEF Owned
<1>2. Owned(p) \in SUBSET Tiles /\ \A t \in Owned(p) : registry[t] \in TileState
  BY <1>1, RegistryFacts
<1>3. Unowned \in TileState
  BY DEF Unowned, TileState, MaxBuildings
<1>4. ASSUME NEW t \in Owned(p), heir # Bank
      PROVE  [registry[t] EXCEPT !.owner = heir, !.houses = 0] \in TileState
  <2> DEFINE s == registry[t]
             u == [s EXCEPT !.owner = heir, !.houses = 0]
  <2>1. s \in [owner : Players \cup {Bank}, mortgaged : BOOLEAN, houses : 0 .. MaxBuildings]
    BY <1>2 DEF TileState
  <2>2. 0 \in 0 .. MaxBuildings
    BY DEF MaxBuildings
  <2> HIDE DEF s
  <2>3. /\ u \in [owner : Players \cup {Bank}, mortgaged : BOOLEAN, houses : 0 .. MaxBuildings]
        /\ u.owner = heir /\ u.houses = 0
    BY <2>1, <2>2
  <2> HIDE DEF u
  <2>4. u \in TileState
    BY <1>4, <2>3 DEF TileState
  <2> QED BY <2>4 DEF s, u
<1>5. bankruptcyAssets(p, heir) \in [Owned(p) -> TileChange]
  BY <1>2, <1>3, <1>4 DEF bankruptcyAssets, Change, TileChange
<1> QED BY <1>2, <1>5, ChangeSetFacts

\* What the bankrupt and the creditor are booked.
LEMMA BankruptcyDeltaTyped ==
    ASSUME TypeInv, NEW p \in Players, NEW heir \in Players \cup {Bank}
    PROVE  bankruptcyDelta(p, heir) \in Deltas /\ DOMAIN bankruptcyDelta(p, heir) \subseteq {p, heir} \cap Players
<1>1. wallet[p] \in Int /\ proceeds(p) \in Int /\ BankTake(p) \in Int
  <2>1. wallet[p] \in Nat /\ proceeds(p) \in Nat /\ BankTake(p) \in Nat
    BY SettlementsFacts, ProceedsNat DEF TypeInv, MoneyTyped
  <2> QED BY <2>1
<1>2. \A q : heirFee(p, q) \in Int
  <2>1. Owned(p) \in SUBSET DOMAIN registry
    BY DEF Owned
  <2>2. FeesOf(Owned(p)) \in Int
    BY <2>1, FeesNat DEF TypeInv
  <2> QED BY <2>2 DEF heirFee
<1>3. \A q : heirNet(p, q) \in Int
  BY <1>1, <1>2 DEF heirNet
<1> DEFINE S == {r \in {p} : wallet[r] # 0} \cup {r \in {heir} \ {Bank} : heirNet(p, r) # 0}
<1>4. S \in SUBSET Players /\ S \subseteq {p, heir}
  OBVIOUS
<1>5. bankruptcyDelta(p, heir) \in [S -> Int]
  BY <1>1, <1>3 DEF bankruptcyDelta
<1> QED BY <1>4, <1>5, DeltaFacts

\* The loans after a bankruptcy.
PaidFor(p, l) == SumFunction([s \in {x \in Settlements(p) : x.loan = l} |-> s.amount])

\* The bank takes no more for a loan than is owed, and takes nothing for others.
LEMMA PaidFacts ==
    ASSUME TypeInv, NEW p \in Players, NEW l \in DOMAIN loans
    PROVE  /\ PaidFor(p, l) \in Nat
           /\ PaidFor(p, l) <= loans[l].principal - loans[l].repaid
           /\ l \notin bankLoanOf(p) => PaidFor(p, l) = 0
           /\ \A s \in Settlements(p) : s.loan = l => PaidFor(p, l) = s.amount
<1> DEFINE S == {x \in Settlements(p) : x.loan = l}
           f == [s \in S |-> s.amount]
<1>1. loans[l].principal - loans[l].repaid \in Nat
  BY LoanFacts DEF TypeInv
<1>2. CASE l \notin bankLoanOf(p)
  <2>1. S = {}
    BY <1>2, SettlementsFacts
  <2>2. DOMAIN f = {}
    BY <2>1
  <2>3. PaidFor(p, l) = 0
    <3> HIDE DEF S
    <3>1. SumFunction(f) = 0
      BY <2>2, FunctionSumEmpty
    <3> QED BY <3>1 DEF PaidFor, S
  <2> QED BY <1>1, <1>2, <2>1, <2>3
<1>3. CASE l \in bankLoanOf(p)
  <2> DEFINE s == settleBankLoan(l, wallet[p] + proceeds(p))
  <2>1. s \in Settlements(p) /\ s.loan = l /\ \A x \in Settlements(p) : x.loan = l => x = s
    BY <1>3, SettlementsFacts, SettlementFacts
  <2>2. s.amount \in Nat /\ s.amount <= loans[l].principal - loans[l].repaid
    BY <2>1, SettlementsFacts
  <2> HIDE DEF s
  <2>3. S = {s}
    BY <2>1
  <2>4. f \in [{s} -> Int] /\ f[s] = s.amount
    BY <2>2, <2>3
  <2>5. SumFunction(f) = s.amount
    <3> HIDE DEF f
    <3> QED BY <2>4, FunctionSumOne
  <2>6. PaidFor(p, l) = s.amount
    BY <2>5 DEF PaidFor
  <2> QED BY <1>3, <2>1, <2>2, <2>6
<1> QED BY <1>2, <1>3

\* What becomes of each loan.
LoanAfter(p, heir, l) ==
  LET paid == PaidFor(p, l)
      s    == IF loans[l].repaid + paid = loans[l].principal THEN "REPAID" ELSE "WRITTEN_OFF"
  IN IF l \notin ActiveLoans \/ p \notin {loans[l].borrower, loans[l].lender} THEN loans[l]
     ELSE IF loans[l].borrower = p
       THEN [loans[l] EXCEPT !.repaid = loans[l].repaid + paid, !.state = s]
     ELSE IF heir \notin {Bank, loans[l].borrower} THEN [loans[l] EXCEPT !.lender = heir]
     ELSE [loans[l] EXCEPT !.state = "WRITTEN_OFF"]

\* The loans after a bankruptcy, one at a time.
LEMMA BankruptLoanFacts ==
    ASSUME NEW p, NEW heir
    PROVE  bankruptLoans(p, heir) = [l \in DOMAIN loans |-> LoanAfter(p, heir, l)]
  BY DEF bankruptLoans, PaidFor, LoanAfter

\* They are loans still.
LEMMA BankruptLoansTyped ==
    ASSUME TypeInv, NEW p \in Players, NEW heir \in Players \cup {Bank}
    PROVE  bankruptLoans(p, heir) \in [DOMAIN loans -> LoanRows]
<1>1. ASSUME NEW l \in DOMAIN loans PROVE LoanAfter(p, heir, l) \in LoanRows
  <2> DEFINE paid == PaidFor(p, l)
             s == IF loans[l].repaid + paid = loans[l].principal THEN "REPAID" ELSE "WRITTEN_OFF"
  <2>1. /\ loans[l] \in LoanRows /\ loans[l].principal \in Nat /\ loans[l].repaid \in Nat
    BY LoanFacts DEF TypeInv
  <2>2. paid \in Nat /\ paid <= loans[l].principal - loans[l].repaid
    BY PaidFacts
  <2>3. loans[l].repaid + paid \in Nat /\ loans[l].repaid + paid <= loans[l].principal
    <3> HIDE DEF paid
    <3> QED BY <2>1, <2>2
  <2>4. s \in {"ACTIVE", "REPAID", "WRITTEN_OFF"}
    OBVIOUS
  <2> DEFINE b == LoanAfter(p, heir, l)
             kept == l \notin ActiveLoans \/ p \notin {loans[l].borrower, loans[l].lender}
             other == heir \notin {Bank, loans[l].borrower}
             closed == [loans[l] EXCEPT !.repaid = loans[l].repaid + paid, !.state = s]
             passed == [loans[l] EXCEPT !.lender = heir]
             forgiven == [loans[l] EXCEPT !.state = "WRITTEN_OFF"]
  <2>7. b = IF kept THEN loans[l]
            ELSE IF loans[l].borrower = p THEN closed
            ELSE IF other THEN passed ELSE forgiven
    BY DEF LoanAfter
  <2> HIDE DEF paid, s
  <2>5. [loans[l] EXCEPT !.repaid = loans[l].repaid + paid, !.state = s] \in LoanRows
    BY <2>1, <2>3, <2>4 DEF LoanRows
  <2>6. /\ [loans[l] EXCEPT !.lender = heir] \in LoanRows
        /\ [loans[l] EXCEPT !.state = "WRITTEN_OFF"] \in LoanRows
    BY <2>1 DEF LoanRows
  <2>9. closed \in LoanRows /\ passed \in LoanRows /\ forgiven \in LoanRows
    BY <2>5, <2>6
  <2> HIDE DEF b, kept, other, closed, passed, forgiven
  <2>10. b \in LoanRows
    BY <2>1, <2>7, <2>9
  <2> QED BY <2>10 DEF b
<1> QED BY <1>1, BankruptLoanFacts

\* The mortgages after a bankruptcy.
LEMMA BankruptMortgagesTyped ==
    ASSUME TypeInv, NEW p \in Players, NEW heir \in Players \cup {Bank}
    PROVE  bankruptMortgages(p, heir) \in [DOMAIN mortgages -> MortgageRows]
<1>1. mortgages \in [DOMAIN mortgages -> MortgageRows]
  BY DEF TypeInv, EstateTyped, Table
<1>2. ASSUME NEW m \in DOMAIN mortgages PROVE bankruptMortgages(p, heir)[m] \in MortgageRows
  <2>1. /\ [mortgages[m] EXCEPT !.state = "RELEASED"] \in MortgageRows
        /\ heir # Bank => [mortgages[m] EXCEPT !.player = heir] \in MortgageRows
    BY <1>1 DEF MortgageRows
  <2> QED BY <1>1, <2>1 DEF bankruptMortgages
<1>3. bankruptMortgages(p, heir) = [m \in DOMAIN mortgages |-> bankruptMortgages(p, heir)[m]]
  BY DEF bankruptMortgages
<1> QED BY <1>2, <1>3

\* The trades after a bankruptcy.
LEMMA BankruptTradesTyped ==
    ASSUME trades \in Seq(TradeRows), NEW p
    PROVE  bankruptTrades(p) \in Seq(TradeRows) /\ Len(bankruptTrades(p)) = Len(trades)
<1> DEFINE n == Len(trades)
<1>1. n \in Nat /\ DOMAIN trades = 1 .. n /\ \A r \in 1 .. n : trades[r] \in TradeRows
  BY LenProperties
<1>2. ASSUME NEW r \in 1 .. n PROVE bankruptTrades(p)[r] \in TradeRows
  <2>1. [trades[r] EXCEPT !.state = "CANCELLED"] \in TradeRows
    BY <1>1 DEF TradeRows, RequestStates
  <2> QED BY <1>1, <2>1 DEF bankruptTrades
<1>3. bankruptTrades(p) \in [1 .. n -> TradeRows]
  BY <1>1, <1>2 DEF bankruptTrades
<1> HIDE DEF n
<1>4. Len(bankruptTrades(p)) = n
  BY <1>1, <1>3
<1>5. bankruptTrades(p) \in Seq(TradeRows)
  BY <1>1, <1>3, SeqDef
<1> QED BY <1>4, <1>5 DEF n

\* A bankruptcy keeps the types.
LEMMA BankruptcyTypes == ASSUME TypeInv, BankruptcyStep PROVE TypeInv'
<1>1. PICK p \in Active, heir \in Active \cup {Bank} : declareBankruptcy(p, heir)
  BY DEF BankruptcyStep
<1>2. p \in Players /\ heir \in Players \cup {Bank}
  BY DEF Active
<1> DEFINE d == bankruptcyDelta(p, heir)
           c == bankruptcyAssets(p, heir)
           tx == TileTx("BANKRUPTCY_TRANSFER", d, {}, c)
<1>3. /\ Len(log) < MaxLog /\ Covered(d) /\ log' = Append(log, tx)
      /\ wallet' = [After(d) EXCEPT ![p] = 0] /\ bankrupt' = bankrupt \cup {p}
      /\ registry' = applyChanges(registry, c) /\ mortgages' = bankruptMortgages(p, heir)
      /\ loans' = bankruptLoans(p, heir)
      /\ repayments' = repayments \cup {s \in Settlements(p) : s.amount > 0}
      /\ trades' = bankruptTrades(p) /\ UNCHANGED <<pot, requests, confirm, now>>
  BY <1>1 DEF declareBankruptcy
<1>4. d \in Deltas /\ c \in ChangeSets
  BY <1>2, BankruptcyDeltaTyped, AssetsTyped DEF TypeInv
<1>5. tx \in LogRow
  <2> HIDE DEF d, c
  <2> QED BY <1>4, RowTyped DEF TxTypes
<1> HIDE DEF tx, c
<1>6. Len(log) \in Nat
  BY LenProperties DEF TypeInv, MoneyTyped
<1>7. log' \in Seq(LogRow) /\ Len(log') = Len(log) + 1 /\ Len(log') <= MaxLog
  BY <1>3, <1>5, LogGrows DEF TypeInv
<1>8. wallet' \in [Players -> Nat]
  <2>1. ASSUME NEW q \in Players PROVE After(d)[q] \in Nat
    <3>1. wallet[q] \in Nat
      BY DEF TypeInv, MoneyTyped
    <3>2. q \in DOMAIN d => d[q] \in Int /\ wallet[q] + d[q] >= 0
      BY <1>3, <1>4, DeltaFacts DEF Covered
    <3> QED BY <3>1, <3>2 DEF After
  <2>2. After(d) \in [Players -> Nat]
    BY <2>1 DEF After
  <2> QED BY <1>2, <1>3, <2>2
<1>9. MoneyTyped'
  BY <1>3, <1>7, <1>8 DEF TypeInv, MoneyTyped
<1>10. EstateTyped'
  <2>1. registry' \in [Tiles -> TileState] \/ registry' = <<>>
    BY <1>3, <1>4, ApplyTyped DEF TypeInv
  <2>2. mortgages' \in [DOMAIN mortgages' -> MortgageRows] /\ DOMAIN mortgages' \subseteq 1 .. Len(log')
    BY <1>2, <1>3, <1>7, BankruptMortgagesTyped, MortgagesKept
  <2> QED BY <2>1, <2>2 DEF EstateTyped, Table
<1>11. CreditTyped'
  <2>1. loans' \in [DOMAIN loans -> LoanRows]
    BY <1>2, <1>3, BankruptLoansTyped
  <2>2. DOMAIN loans \subseteq 1 .. Len(log')
    BY <1>6, <1>7 DEF TypeInv, CreditTyped, Table
  <2>3. repayments' \subseteq RepaymentRows /\ IsFiniteSet(repayments')
    <3>1. Settlements(p) \subseteq RepaymentRows /\ IsFiniteSet(Settlements(p))
      BY <1>2, SettlementsFacts
    <3>2. IsFiniteSet({s \in Settlements(p) : s.amount > 0})
      BY <3>1, FS_Subset
    <3>3. repayments \subseteq RepaymentRows /\ IsFiniteSet(repayments)
      BY DEF TypeInv, CreditTyped
    <3>4. IsFiniteSet(repayments \cup {s \in Settlements(p) : s.amount > 0})
      BY <3>2, <3>3, FS_Union
    <3> QED BY <1>3, <3>1, <3>3, <3>4
  <2> QED BY <2>1, <2>2, <2>3 DEF CreditTyped, Table
<1>12. AskedTyped'
  BY <1>3, BankruptTradesTyped DEF TypeInv, AskedTyped
<1>13. TableTyped'
  BY <1>2, <1>3 DEF TypeInv, TableTyped
<1> QED BY <1>9, <1>10, <1>11, <1>12, <1>13 DEF TypeInv

-----------------------------------------------------------------------------
(* The types, for every run of the bank *)

\* The books start well typed.
LEMMA InitTypes == Init => TypeInv
<1> SUFFICES ASSUME Init PROVE TypeInv
  OBVIOUS
<1>1. Len(<<>>) = 0 /\ \A S : <<>> \in Seq(S)
  BY EmptySeq
<1>2. MoneyTyped
  BY <1>1, LedgerAssumption DEF Init, MoneyTyped
<1>3. EstateTyped
  <2>1. registry \in [Tiles -> TileState] \/ registry = <<>>
    BY LedgerAssumption DEF Init
  <2>2. mortgages = <<>> /\ DOMAIN <<>> = {}
    BY DEF Init
  <2> QED BY <2>1, <2>2 DEF EstateTyped, Table
<1>4. CreditTyped
  <2>1. loans = <<>> /\ DOMAIN <<>> = {} /\ repayments = {}
    BY DEF Init
  <2> QED BY <2>1, FS_EmptySet DEF CreditTyped, Table
<1>5. AskedTyped /\ TableTyped
  BY <1>1, LedgerAssumption DEF Init, AskedTyped, TableTyped
<1> QED BY <1>2, <1>3, <1>4, <1>5 DEF TypeInv

\* The clock.
LEMMA TickTypes == ASSUME TypeInv, Tick PROVE TypeInv'
<1>1. Len(log) <= Len(log') /\ Len(log') \in Nat
  BY LenProperties DEF TypeInv, MoneyTyped, Tick, money
<1>2. MoneyTyped' /\ EstateTyped' /\ CreditTyped' /\ AskedTyped'
  BY <1>1, KeptTyped DEF Tick
<1>3. TableTyped'
  BY LedgerAssumption DEF Tick, TypeInv, TableTyped
<1> QED BY <1>2, <1>3 DEF TypeInv

\* Every step keeps the types.
LEMMA TypesKept == TypeInv /\ [Next]_vars => TypeInv'
<1> SUFFICES ASSUME TypeInv, [Next]_vars PROVE TypeInv'
  OBVIOUS
<1>1. CASE UNCHANGED vars
  <2>1. Len(log) <= Len(log') /\ Len(log') \in Nat
    BY <1>1, LenProperties DEF TypeInv, MoneyTyped, vars, money
  <2> QED BY <1>1, <2>1, KeptTyped DEF vars, TypeInv
<1>2. CASE Next
  BY <1>2, MoneyTypes, RequestTypes, LendingTypes, BankLoanTypes, TileTypes, BuildingTypes,
     MortgageTypes, TradeTypes, ReverseTypes, BankruptcyTypes, TickTypes DEF Next
<1> QED BY <1>1, <1>2

\* Every table keeps its types: no wallet is overdrawn, no loan repaid beyond
\* its principal, and no tile mortgaged with buildings on it or without an
\* owner (TypeOK, and the CHECKs of the tables).
THEOREM BankTypes == Spec => [](TypeInv /\ TypeOK)
<1>1. Spec => []TypeInv
  BY InitTypes, TypesKept, PTL DEF Spec
<1> QED BY <1>1, TypeInvTypeOK, PTL

-----------------------------------------------------------------------------
(* The books balance *)

PotTypes == {"TO_JACKPOT", "JACKPOT_PAYOUT"}

\* The pot is moved by the transactions that say so, and by what they say.
PotFollows(tx) ==
  IF tx.type \in PotTypes
    THEN \E p \in Players, a \in Int : tx.delta = Gets(p, a) /\ pot' = pot - a
    ELSE pot' = pot

\* One transaction is recorded, and the wallets follow it.
Entered(tx) ==
  /\ Len(log) < MaxLog
  /\ Covered(tx.delta) /\ DOMAIN tx.delta \subseteq Active
  /\ log' = Append(log, tx)
  /\ wallet' = After(tx.delta)
  /\ PotFollows(tx)

\* A payment between wallets, or with the bank, is recorded.
LEMMA PlainEntered ==
    ASSUME NEW type, type \notin PotTypes, NEW d, DOMAIN d \subseteq Active, Plain(Tx(type, d))
    PROVE  \E tx : Entered(tx)
<1>1. Tx(type, d).type = type /\ Tx(type, d).delta = d
  BY DEF Tx
<1>2. Entered(Tx(type, d))
  BY <1>1 DEF Plain, Commit, Entered, PotFollows
<1> QED BY <1>2

\* Every payment is recorded.
LEMMA MoneyEntered == ASSUME TypeInv, MoneyStep PROVE \E tx : Entered(tx)
<1>1. PICK p \in Active :
        \/ passGo(p, FALSE) \/ passGo(p, TRUE) \/ jackpotPayout(p)
        \/ \E a \in Amounts :
             \/ playerToBank(p, a) \/ bankToPlayer(p, a) \/ playerToAll(p, a)
             \/ allToPlayer(p, a) \/ auctionPayment(p, a) \/ toJackpot(p, a)
             \/ \E q \in Active : playerToPlayer(p, q, a)
  BY DEF MoneyStep
<1>2. p \in Players /\ pot \in Int
  BY DEF Active, TypeInv, MoneyTyped
<1>3. /\ \A a : DOMAIN Pays(p, a) \subseteq Active /\ DOMAIN Gets(p, a) \subseteq Active
      /\ \A q \in Active : \A a : DOMAIN Moves(p, q, a) \subseteq Active
      /\ \A a : DOMAIN FanDelta(p, a) \subseteq Active
  BY DEF FanDelta, Pays, Gets, Moves
<1>4. ASSUME NEW exact \in BOOLEAN, passGo(p, exact) PROVE \E tx : Entered(tx)
  <2>1. \E a : Plain(Tx("PASS_GO", Gets(p, a)))
    BY <1>4 DEF passGo
  <2> QED BY <1>3, <2>1, PlainEntered DEF PotTypes
<1>5. ASSUME jackpotPayout(p) PROVE \E tx : Entered(tx)
  <2> DEFINE tx == Tx("JACKPOT_PAYOUT", Gets(p, pot))
  <2>1. tx.type = "JACKPOT_PAYOUT" /\ tx.delta = Gets(p, pot)
    BY DEF Tx
  <2>2. Commit(tx) /\ pot' = pot - pot
    BY <1>2, <1>5 DEF jackpotPayout
  <2> HIDE DEF tx
  <2>3. Entered(tx)
    BY <1>2, <1>3, <2>1, <2>2 DEF Commit, Entered, PotFollows, PotTypes
  <2> QED BY <2>3
<1>6. ASSUME NEW a \in Amounts, playerToBank(p, a) \/ bankToPlayer(p, a) \/ auctionPayment(p, a)
      PROVE  \E tx : Entered(tx)
  <2>1. \/ Plain(Tx("PLAYER_TO_BANK", Pays(p, a))) \/ Plain(Tx("BANK_TO_PLAYER", Gets(p, a)))
        \/ Plain(Tx("AUCTION_PAYMENT", Pays(p, a)))
    BY <1>6 DEF playerToBank, bankToPlayer, auctionPayment
  <2> QED BY <1>3, <2>1, PlainEntered DEF PotTypes
<1>7. ASSUME NEW a \in Amounts, playerToAll(p, a) \/ allToPlayer(p, a) PROVE \E tx : Entered(tx)
  <2>1. Plain(Tx("PLAYER_TO_ALL", FanDelta(p, a))) \/ Plain(Tx("ALL_TO_PLAYER", FanDelta(p, -a)))
    BY <1>7 DEF playerToAll, allToPlayer
  <2> QED BY <1>3, <2>1, PlainEntered DEF PotTypes
<1>8. ASSUME NEW a \in Amounts, toJackpot(p, a) PROVE \E tx : Entered(tx)
  <2> DEFINE tx == Tx("TO_JACKPOT", Pays(p, a))
  <2>1. a \in Int
    BY AmountsAssumption
  <2>2. Pays(p, a) = Gets(p, -a)
    BY DEF Pays, Gets
  <2>3. tx.type = "TO_JACKPOT" /\ tx.delta = Gets(p, -a)
    BY <2>2 DEF Tx
  <2>4. Commit(tx) /\ pot' = pot - (-a) /\ -a \in Int
    BY <1>2, <1>8, <2>1 DEF toJackpot
  <2> HIDE DEF tx
  <2>5. Entered(tx)
    BY <1>2, <1>3, <2>3, <2>4 DEF Commit, Entered, PotFollows, PotTypes
  <2> QED BY <2>5
<1>9. ASSUME NEW a \in Amounts, NEW q \in Active, playerToPlayer(p, q, a)
      PROVE  \E tx : Entered(tx)
  <2>1. Plain(Tx("PLAYER_TO_PLAYER", Moves(p, q, a)))
    BY <1>9 DEF playerToPlayer
  <2> QED BY <1>3, <2>1, PlainEntered DEF PotTypes
<1> QED BY <1>1, <1>4, <1>5, <1>6, <1>7, <1>8, <1>9

\* A transaction on anything but the pot is recorded.
LEMMA CommitEntered ==
    ASSUME NEW tx, tx.type \notin PotTypes, DOMAIN tx.delta \subseteq Active, Commit(tx), pot' = pot
    PROVE  Entered(tx)
  BY DEF Commit, Entered, PotFollows

\* So is a deal on tiles.
LEMMA DealEntered ==
    ASSUME NEW type, type \notin PotTypes, NEW d, DOMAIN d \subseteq Active, NEW tiles, NEW c,
           Deal(type, d, tiles, c)
    PROVE  Entered(TileTx(type, d, tiles, c))
<1> DEFINE tx == TileTx(type, d, tiles, c)
<1>1. tx.type = type /\ tx.delta = d
  BY DEF TileTx, Tx
<1>2. Commit(tx) /\ pot' = pot
  BY DEF Deal, Frame
<1> HIDE DEF tx
<1>3. Entered(tx)
  BY <1>1, <1>2, CommitEntered
<1> QED BY <1>3 DEF tx

\* Settling a request is recorded.
LEMMA SettleEntered ==
    ASSUME NEW r, NEW later, NEW type, type \notin PotTypes, NEW d, DOMAIN d \subseteq Active,
           settle(r, later, Tx(type, d))
    PROVE  /\ [Tx(type, d) EXCEPT !.via = r].delta = d
           /\ [Tx(type, d) EXCEPT !.via = r].type = type
           /\ Entered([Tx(type, d) EXCEPT !.via = r])
<1> DEFINE tx == [Tx(type, d) EXCEPT !.via = r]
<1>1. tx.type = type /\ tx.delta = d
  BY DEF Tx
<1>2. Commit(tx) /\ pot' = pot
  BY DEF settle
<1> HIDE DEF tx
<1>3. Entered(tx)
  BY <1>1, <1>2, CommitEntered
<1> QED BY <1>1, <1>3 DEF tx

\* A step on requests records nothing, or the payment it accepts.
LEMMA RequestEntered == ASSUME RequestStep PROVE UNCHANGED money \/ \E tx : Entered(tx)
<1>1. ASSUME NEW r \in DOMAIN requests, NEW later, acceptPayment(r, later)
      PROVE  \E tx : Entered(tx)
  <2> DEFINE d == Moves(requests[r].payer, requests[r].recipient, requests[r].amount)
  <2>1. settle(r, later, Tx("PLAYER_TO_PLAYER", d)) /\ DOMAIN d \subseteq Active
    BY <1>1 DEF acceptPayment, Pays, Gets, Moves
  <2> HIDE DEF d
  <2> QED BY <2>1, SettleEntered DEF PotTypes
<1>2. ASSUME \/ \E p, q \in Players, a \in Amounts : requestPayment(p, q, a)
             \/ \E p \in Players, a \in Amounts : requestFromAll(p, a)
             \/ \E r \in DOMAIN requests, state \in {"DECLINED", "CANCELLED"} :
                  resolvePaymentRequest(r, state)
             \/ listPaymentRequests
      PROVE  UNCHANGED money
  BY <1>2 DEF requestPayment, requestFromAll, createConfirmationRequests,
              resolvePaymentRequest, listPaymentRequests
<1> QED BY <1>1, <1>2 DEF RequestStep

\* A step on loans between players records nothing, or moves the money lent or
\* repaid.
LEMMA LoanEntered == ASSUME LoanStep PROVE UNCHANGED money \/ \E tx : Entered(tx)
<1>1. ASSUME NEW p, NEW q, NEW a, createLoanRequest(p, q, a) PROVE UNCHANGED money
  BY <1>1 DEF createLoanRequest
<1>2. ASSUME NEW r \in DOMAIN requests, NEW later, acceptLoan(r, later)
      PROVE  \E tx : Entered(tx)
  <2> DEFINE d == Moves(requests[r].payer, requests[r].recipient, requests[r].amount)
  <2>1. settle(r, later, Tx("LOAN_ISSUE", d)) /\ DOMAIN d \subseteq Active
    BY <1>2 DEF acceptLoan, Pays, Gets, Moves
  <2> HIDE DEF d
  <2> QED BY <2>1, SettleEntered DEF PotTypes
<1>3. ASSUME NEW l, NEW a, repayLoan(l, a) PROVE \E tx : Entered(tx)
  <2> DEFINE d == Moves(loans[l].borrower, loans[l].lender, a)
             tx == Tx("LOAN_REPAYMENT", d)
  <2>1. Commit(tx) /\ pot' = pot /\ DOMAIN d \subseteq Active
    BY <1>3 DEF repayLoan, CreditFrame, Pays, Gets, Moves
  <2>2. tx.type = "LOAN_REPAYMENT" /\ tx.delta = d
    BY DEF Tx
  <2> HIDE DEF d, tx
  <2> QED BY <2>1, <2>2, CommitEntered DEF PotTypes
<1> QED BY <1>1, <1>2, <1>3 DEF LoanStep

\* A step on a loan of the bank is recorded.
LEMMA BankLoanEntered == ASSUME BankLoanStep PROVE \E tx : Entered(tx)
<1>1. ASSUME NEW p \in Active, NEW a, NEW ack, issueBankLoan(p, a, ack)
      PROVE  \E tx : Entered(tx)
  <2> DEFINE d == Gets(p, a)
             tx == Tx("LOAN_ISSUE", d)
  <2>1. Commit(tx) /\ pot' = pot /\ DOMAIN d \subseteq Active
    BY <1>1 DEF issueBankLoan, CreditFrame, Pays, Gets, Moves
  <2>2. tx.type = "LOAN_ISSUE" /\ tx.delta = d
    BY DEF Tx
  <2> HIDE DEF d, tx
  <2> QED BY <2>1, <2>2, CommitEntered DEF PotTypes
<1>2. ASSUME NEW l, NEW rate, repayBankLoan(l, rate) PROVE \E tx : Entered(tx)
  <2> DEFINE owed == loans[l].principal - loans[l].repaid
             d == Pays(loans[l].borrower, owed + bankLoanInterest(owed, rate))
             tx == Tx("LOAN_REPAYMENT", d)
  <2>1. Commit(tx) /\ pot' = pot /\ DOMAIN d \subseteq Active
    BY <1>2 DEF repayBankLoan, CreditFrame, Pays, Gets, Moves
  <2>2. tx.type = "LOAN_REPAYMENT" /\ tx.delta = d
    BY DEF Tx
  <2> HIDE DEF d, tx
  <2> QED BY <2>1, <2>2, CommitEntered DEF PotTypes
<1> QED BY <1>1, <1>2 DEF BankLoanStep

\* So is every deal on tiles.
LEMMA TileEntered == ASSUME TileStep \/ BuildingStep PROVE \E tx : Entered(tx)
<1>1. ASSUME NEW p \in Active, NEW t, NEW price, propertyPurchase(p, t, price)
      PROVE  \E tx : Entered(tx)
  <2> DEFINE d == Pays(p, price)
             c == One(t, ownerChange(registry[t], p))
  <2>1. Deal("PROPERTY_PURCHASE", d, {t}, c) /\ DOMAIN d \subseteq Active
    BY <1>1 DEF propertyPurchase, Pays, Gets, Moves
  <2> HIDE DEF d, c
  <2> QED BY <2>1, DealEntered DEF PotTypes
<1>2. ASSUME NEW p \in Active, NEW t, NEW dice, payRent(p, t, dice) PROVE \E tx : Entered(tx)
  <2> DEFINE d == Moves(p, registry[t].owner, rentFor(registry, t, dice))
  <2>1. Deal("PAY_RENT", d, {t}, NoChange) /\ DOMAIN d \subseteq Active
    BY <1>2 DEF payRent, Pays, Gets, Moves
  <2> HIDE DEF d
  <2> QED BY <2>1, DealEntered DEF PotTypes
<1>3. ASSUME NEW p \in Active, NEW targets, NEW direction, building(p, targets, direction)
      PROVE  \E tx : Entered(tx)
  <2> DEFINE c == LevelChanges(targets)
  <2>1. \E a : \/ Deal("PROPERTY_BUILD", Pays(p, a), DOMAIN c, c)
               \/ Deal("PROPERTY_SELL_BUILDING", Gets(p, a), DOMAIN c, c)
    BY <1>3 DEF building
  <2> HIDE DEF c
  <2> QED BY <2>1, DealEntered DEF PotTypes, Pays, Gets, Moves
<1> QED BY <1>1, <1>2, <1>3 DEF TileStep, BuildingStep

\* And every mortgage made or redeemed.
LEMMA MortgageEntered == ASSUME MortgageStep PROVE \E tx : Entered(tx)
<1>1. ASSUME NEW p \in Active, NEW t, mortgageTile(p, t) PROVE \E tx : Entered(tx)
  <2> DEFINE d == Gets(p, Tile[t].mortgage)
             c == One(t, mortgageChange(registry[t], TRUE))
  <2>1. Deal("MORTGAGE", d, {t}, c) /\ DOMAIN d \subseteq Active
    BY <1>1 DEF mortgageTile, Pays, Gets, Moves
  <2> HIDE DEF d, c
  <2> QED BY <2>1, DealEntered DEF PotTypes
<1>2. ASSUME NEW p \in Active, NEW name, NEW value, mortgageProperty(p, name, value)
      PROVE  \E tx : Entered(tx)
  <2> DEFINE d == Gets(p, value)
             tx == Tx("MORTGAGE", d)
  <2>1. Commit(tx) /\ pot' = pot /\ DOMAIN d \subseteq Active
    BY <1>2 DEF mortgageProperty, Frame, Pays, Gets, Moves
  <2>2. tx.type = "MORTGAGE" /\ tx.delta = d
    BY DEF Tx
  <2> HIDE DEF d, tx
  <2> QED BY <2>1, <2>2, CommitEntered DEF PotTypes
<1>3. ASSUME NEW m, redeemMortgage(m) PROVE \E tx : Entered(tx)
  <2> DEFINE t == mortgages[m].item
             d == Pays(mortgages[m].player, redemptionCost(mortgages[m].value))
             c == One(t, mortgageChange(registry[t], FALSE))
             tx == Tx("MORTGAGE_REDEMPTION", d)
  <2>1. /\ DOMAIN d \subseteq Active
        /\ \/ Deal("MORTGAGE_REDEMPTION", d, {t}, c)
           \/ Commit(tx) /\ pot' = pot
    BY <1>3 DEF redeemMortgage, Frame, Pays, Gets, Moves
  <2>2. tx.type = "MORTGAGE_REDEMPTION" /\ tx.delta = d
    BY DEF Tx
  <2> HIDE DEF d, tx, c
  <2>3. CASE Deal("MORTGAGE_REDEMPTION", d, {t}, c)
    BY <2>1, <2>3, DealEntered DEF PotTypes
  <2>4. CASE Commit(tx) /\ pot' = pot
    BY <2>1, <2>2, <2>4, CommitEntered DEF PotTypes
  <2> QED BY <2>1, <2>3, <2>4
<1> QED BY <1>1, <1>2, <1>3 DEF MortgageStep

\* A step on trades records nothing, or the trade it accepts.
LEMMA TradeEntered == ASSUME TradeStep PROVE UNCHANGED money \/ \E tx : Entered(tx)
<1>1. ASSUME NEW r \in DOMAIN trades, acceptTradeRequest(r) PROVE \E tx : Entered(tx)
  <2> DEFINE tx == transferProperties(trades[r])
  <2>1. tx.type = "PROPERTY_TRANSFER" /\ DOMAIN tx.delta = {trades[r].from, trades[r].to}
    BY DEF transferProperties, Tx, TransferDelta
  <2>2. Commit(tx) /\ pot' = pot /\ {trades[r].from, trades[r].to} \subseteq Active
    BY <1>1 DEF acceptTradeRequest, Tradable, Frame
  <2> HIDE DEF tx
  <2> QED BY <2>1, <2>2, CommitEntered DEF PotTypes
<1>2. ASSUME NEW p, NEW q, NEW give, NEW take, NEW cashGive, NEW cashTake,
             createTradeRequest(p, q, give, take, cashGive, cashTake)
      PROVE  UNCHANGED money
  BY <1>2 DEF createTradeRequest, Frame, money
<1>3. ASSUME NEW r, NEW state, resolveTradeRequest(r, state) PROVE UNCHANGED money
  BY <1>3 DEF resolveTradeRequest, Frame, money
<1>4. ASSUME listTradeRequests PROVE UNCHANGED money
  BY <1>4 DEF listTradeRequests, Frame, money
<1> QED BY <1>1, <1>2, <1>3, <1>4 DEF TradeStep

\* A reversal is recorded.
LEMMA ReverseEntered == ASSUME ReverseStep PROVE \E tx : Entered(tx)
<1>1. PICK i \in DOMAIN log : reverseTransaction(i)
  BY DEF ReverseStep
<1> DEFINE tx == Undoing(i)
<1>2. Commit(tx) /\ pot' = pot /\ DOMAIN log[i].delta \subseteq Active
  BY <1>1 DEF reverseTransaction, Undoing, Frame
<1>3. tx.type = "REVERSAL" /\ DOMAIN tx.delta = DOMAIN log[i].delta
  BY DEF Undoing, TileTx, Tx
<1> HIDE DEF tx
<1> QED BY <1>2, <1>3, CommitEntered DEF PotTypes

\* So is a bankruptcy: what is left is booked away, so zeroing the wallet adds
\* nothing to it.
LEMMA BankruptcyEntered ==
    ASSUME TypeInv, NEW p \in Active, NEW heir \in Active \cup {Bank}, declareBankruptcy(p, heir)
    PROVE  Entered(TileTx("BANKRUPTCY_TRANSFER", bankruptcyDelta(p, heir), {},
                          bankruptcyAssets(p, heir)))
<1> DEFINE d == bankruptcyDelta(p, heir)
           tx == TileTx("BANKRUPTCY_TRANSFER", d, {}, bankruptcyAssets(p, heir))
<1>1. tx.type = "BANKRUPTCY_TRANSFER" /\ tx.delta = d
  BY DEF TileTx, Tx
<1>2. /\ Len(log) < MaxLog /\ Covered(d) /\ log' = Append(log, tx)
      /\ wallet' = [After(d) EXCEPT ![p] = 0] /\ pot' = pot
  BY DEF declareBankruptcy
<1>3. DOMAIN d = {r \in {p} : wallet[r] # 0} \cup {r \in {heir} \ {Bank} : heirNet(p, r) # 0}
  BY DEF bankruptcyDelta
<1>4. DOMAIN d \subseteq Active
  BY <1>3
<1>5. p \in DOMAIN d => d[p] = -wallet[p]
  BY <1>3 DEF bankruptcyDelta
<1>6. p \notin DOMAIN d => wallet[p] = 0
  BY <1>3
<1>7. p \in Players /\ wallet[p] \in Int
  BY DEF Active, TypeInv, MoneyTyped
<1> HIDE DEF d
<1>8. After(d) \in [Players -> {After(d)[q] : q \in Players}] /\ After(d)[p] = 0
  BY <1>5, <1>6, <1>7 DEF After
<1>9. wallet' = After(d)
  BY <1>2, <1>8
<1> HIDE DEF tx
<1>10. Entered(tx)
  BY <1>1, <1>2, <1>4, <1>9 DEF Entered, PotFollows, PotTypes
<1> QED BY <1>10 DEF tx, d

\* Every step leaves the money alone or records what moves it.
LEMMA BookStep == ASSUME TypeInv, Next PROVE UNCHANGED money \/ \E tx : Entered(tx)
<1>1. BankruptcyStep => \E tx : Entered(tx)
  BY BankruptcyEntered DEF BankruptcyStep
<1>2. Tick => UNCHANGED money
  BY DEF Tick
<1> QED BY <1>1, <1>2, MoneyEntered, RequestEntered, LoanEntered, BankLoanEntered, TileEntered,
           MortgageEntered, TradeEntered, ReverseEntered DEF Next

\* What a transaction does to a wallet, or to all of them.
DeltaIn(tx, p) == IF p \in DOMAIN tx.delta THEN tx.delta[p] ELSE 0

Booked(p) == SumFunction([i \in DOMAIN log |-> DeltaOf(i, p)])

Total(i) == SumFunction([p \in Players |-> DeltaOf(i, p)])

PotRows == OfType("TO_JACKPOT") \cup OfType("JACKPOT_PAYOUT")

PotBooked == SumFunction([i \in PotRows |-> Total(i)])

BooksInv ==
  /\ \A p \in Players : wallet[p] = Opening + Booked(p)
  /\ pot = -PotBooked

\* The log, and what it says.
LEMMA LogDeltas ==
    ASSUME MoneyTyped
    PROVE  /\ IsFiniteSet(DOMAIN log) /\ DOMAIN log = 1 .. Len(log) /\ Len(log) \in Nat
           /\ \A i \in DOMAIN log : \A p : DeltaOf(i, p) \in Int
           /\ \A i \in DOMAIN log : Total(i) \in Int
           /\ PotRows \subseteq DOMAIN log /\ IsFiniteSet(PotRows)
<1>1. DOMAIN log = 1 .. Len(log) /\ Len(log) \in Nat
  BY LenProperties DEF MoneyTyped
<1>2. IsFiniteSet(DOMAIN log)
  BY <1>1, FS_Interval
<1>3. ASSUME NEW i \in DOMAIN log, NEW p PROVE DeltaOf(i, p) \in Int
  <2>1. log[i].delta \in [DOMAIN log[i].delta -> Int]
    BY LogFacts, DeltaFacts
  <2> QED BY <2>1 DEF DeltaOf
<1>4. ASSUME NEW i \in DOMAIN log PROVE Total(i) \in Int
  <2> DEFINE f == [p \in Players |-> DeltaOf(i, p)]
  <2>1. f \in [Players -> Int]
    BY <1>3
  <2>2. SumFunction(f) \in Int
    <3> HIDE DEF f
    <3> QED BY <2>1, LedgerAssumption, FunctionSumType
  <2> QED BY <2>2 DEF Total
<1>5. PotRows \subseteq DOMAIN log
  BY DEF PotRows, OfType
<1>6. IsFiniteSet(PotRows)
  BY <1>2, <1>5, FS_Subset
<1> QED BY <1>1, <1>2, <1>3, <1>4, <1>5, <1>6

\* The row a transaction adds to the log; what was there stays.
LEMMA AddedRow ==
    ASSUME TypeInv, TypeInv', NEW tx, log' = Append(log, tx)
    PROVE  /\ tx \in LogRow /\ tx.delta \in Deltas
           /\ NextId \notin DOMAIN log /\ NextId \in Nat
           /\ DOMAIN log' = DOMAIN log \cup {NextId}
           /\ log'[NextId] = tx /\ \A i \in DOMAIN log : log'[i] = log[i]
           /\ \A i \in DOMAIN log : \A p : DeltaOf(i, p)' = DeltaOf(i, p)
           /\ \A i \in DOMAIN log : Total(i)' = Total(i)
<1>1. log \in Seq(LogRow) /\ log' \in Seq(LogRow) /\ Len(log') <= MaxLog /\ MaxLog \in Nat
  BY LedgerAssumption DEF TypeInv, MoneyTyped
<1>2. Len(log) \in Nat /\ DOMAIN log = 1 .. Len(log)
  BY <1>1, LenProperties
<1>3. Len(log') = Len(log) + 1 /\ log'[Len(log) + 1] = tx
  BY <1>1, <1>2
<1>4. tx \in LogRow
  BY <1>1, <1>2, <1>3, LenProperties
<1>5. /\ NextId \notin DOMAIN log /\ NextId \in Nat
      /\ DOMAIN log' = DOMAIN log \cup {NextId}
      /\ log'[NextId] = tx /\ \A i \in DOMAIN log : log'[i] = log[i]
  <2>1. Len(log) < MaxLog
    BY <1>1, <1>2, <1>3
  <2> QED BY <1>4, <2>1, LogGrows DEF TypeInv
<1>6. \A i \in DOMAIN log : \A p : DeltaOf(i, p)' = DeltaOf(i, p)
  BY <1>5 DEF DeltaOf
<1>7. ASSUME NEW i \in DOMAIN log PROVE Total(i)' = Total(i)
  <2>1. [p \in Players |-> DeltaOf(i, p)'] = [p \in Players |-> DeltaOf(i, p)]
    BY <1>6
  <2> QED BY <2>1 DEF Total
<1> QED BY <1>4, <1>5, <1>6, <1>7 DEF LogRow

\* A recorded transaction keeps every wallet on its opening balance and its rows.
LEMMA WalletsFollow ==
    ASSUME TypeInv, TypeInv', NEW tx, Entered(tx), NEW p \in Players,
           wallet[p] = Opening + Booked(p)
    PROVE  wallet'[p] = Opening + Booked(p)'
<1> DEFINE S == DOMAIN log
           f == [i \in S |-> DeltaOf(i, p)]
<1>1. PICK g : g = [i \in DOMAIN log' |-> DeltaOf(i, p)']
  OBVIOUS
<1>2. IsFiniteSet(S) /\ f \in [S -> Int]
  BY LogDeltas DEF TypeInv
<1>3. PICK x : x = NextId
  OBVIOUS
<1>4. tx.delta \in Deltas /\ DeltaIn(tx, p) \in Int
  <2>1. tx.delta \in Deltas
    BY AddedRow DEF Entered
  <2> QED BY <2>1, DeltaFacts DEF DeltaIn
<1>5. /\ x \notin S /\ DOMAIN log' = S \cup {x} /\ log'[x] = tx
      /\ \A i \in S : DeltaOf(i, p)' = DeltaOf(i, p)
  BY <1>3, AddedRow DEF Entered
<1>6. g \in [S \cup {x} -> Int] /\ (\A i \in S : g[i] = f[i]) /\ g[x] = DeltaIn(tx, p)
  <2>1. DeltaOf(x, p)' = DeltaIn(tx, p)
    BY <1>5 DEF DeltaOf, DeltaIn
  <2>2. DOMAIN g = S \cup {x} /\ g[x] = DeltaIn(tx, p)
    BY <1>1, <1>5, <2>1
  <2>3. \A i \in S : g[i] = f[i] /\ f[i] \in Int
    BY <1>1, <1>2, <1>5
  <2>4. g = [i \in DOMAIN g |-> g[i]]
    BY <1>1
  <2> HIDE DEF f, S
  <2>5. \A i \in S \cup {x} : g[i] \in Int
    BY <1>4, <2>2, <2>3
  <2> QED BY <2>2, <2>3, <2>4, <2>5
<1>7. SumFunction(f) = Booked(p) /\ SumFunction(g) = Booked(p)'
  BY <1>1 DEF Booked
<1> HIDE DEF f, S
<1>8. SumFunction(g) = SumFunction(f) + g[x] /\ SumFunction(f) \in Int /\ g[x] \in Int
  <2>1. SumFunction(f) \in Int
    BY <1>2, FunctionSumType
  <2>2. SumFunction(g) = SumFunction(f) + g[x]
    BY <1>2, <1>5, <1>6, FunctionSumOneMore
  <2> QED BY <1>4, <1>6, <2>1, <2>2
<1>9. wallet'[p] = wallet[p] + DeltaIn(tx, p)
  <2>1. wallet[p] \in Int
    BY DEF TypeInv, MoneyTyped
  <2> QED BY <2>1 DEF Entered, After, DeltaIn
<1> QED BY <1>6, <1>7, <1>8, <1>9, LedgerAssumption

\* A transaction that names the pot moves one player's money by what leaves it.
LEMMA TotalOfOne ==
    ASSUME TypeInv, TypeInv', NEW tx, Entered(tx), NEW p \in Players, NEW a \in Int,
           tx.delta = Gets(p, a), NEW x, x = NextId
    PROVE  Total(x)' = a
<1>1. PICK g : g = [q \in Players |-> DeltaOf(x, q)']
  OBVIOUS
<1>2. \A q \in Players : DeltaOf(x, q)' = IF q = p THEN a ELSE 0
  <2>1. log'[x] = tx
    BY AddedRow DEF Entered
  <2> QED BY <2>1 DEF DeltaOf, Gets
<1>3. g \in [Players -> Int] /\ g[p] = a /\ \A q \in Players \ {p} : g[q] = 0
  BY <1>1, <1>2
<1>4. SumFunction(g) = a
  BY <1>3, LedgerAssumption, FunctionSumOnlyOne
<1> QED BY <1>1, <1>4 DEF Total

\* A recorded transaction keeps the pot on its rows.
LEMMA PotFollowsLog ==
    ASSUME TypeInv, TypeInv', NEW tx, Entered(tx), pot = -PotBooked
    PROVE  pot' = -PotBooked'
<1> DEFINE S == PotRows
           f == [i \in S |-> Total(i)]
<1>0. PICK x : x = NextId
  OBVIOUS
<1>1. PICK g : g = [i \in PotRows' |-> Total(i)']
  OBVIOUS
<1>2. IsFiniteSet(S) /\ S \subseteq DOMAIN log /\ f \in [S -> Int] /\ pot \in Int
  BY LogDeltas DEF TypeInv, MoneyTyped
<1>3. /\ x \notin DOMAIN log /\ DOMAIN log' = DOMAIN log \cup {x} /\ log'[x] = tx
      /\ \A i \in DOMAIN log : log'[i] = log[i] /\ Total(i)' = Total(i)
  BY <1>0, AddedRow DEF Entered
<1>4. SumFunction(f) = PotBooked /\ SumFunction(g) = PotBooked'
  BY <1>1 DEF PotBooked
<1>5. CASE tx.type \in PotTypes
  <2>1. PICK p \in Players, a \in Int : tx.delta = Gets(p, a) /\ pot' = pot - a
    BY <1>5 DEF Entered, PotFollows
  <2>2. PotRows' = S \cup {x}
    BY <1>3, <1>5 DEF PotRows, OfType, PotTypes
  <2>3. Total(x)' = a
    BY <1>0, <2>1, TotalOfOne
  <2>4. g \in [S \cup {x} -> Int] /\ (\A i \in S : g[i] = f[i]) /\ g[x] = a
    <3>1. DOMAIN g = S \cup {x} /\ g[x] = a
      BY <1>1, <2>2, <2>3
    <3>2. \A i \in S : g[i] = f[i] /\ f[i] \in Int
      BY <1>1, <1>2, <1>3, <2>2
    <3>3. g = [i \in DOMAIN g |-> g[i]]
      BY <1>1
    <3> HIDE DEF f, S
    <3>4. \A i \in S \cup {x} : g[i] \in Int
      BY <3>1, <3>2
    <3> QED BY <3>1, <3>2, <3>3, <3>4
  <2>5. x \notin S
    BY <1>2, <1>3
  <2> HIDE DEF f, S
  <2>6. SumFunction(g) = SumFunction(f) + a /\ SumFunction(f) \in Int
    <3>1. SumFunction(f) \in Int
      BY <1>2, FunctionSumType
    <3>2. SumFunction(g) = SumFunction(f) + g[x]
      BY <1>2, <2>4, <2>5, FunctionSumOneMore
    <3> QED BY <2>4, <3>1, <3>2
  <2> QED BY <1>2, <1>4, <2>1, <2>6
<1>6. CASE tx.type \notin PotTypes
  <2>1. PotRows' = S
    BY <1>3, <1>6 DEF PotRows, OfType, PotTypes
  <2>2. g = f
    BY <1>1, <1>2, <1>3, <2>1
  <2>3. pot' = pot
    BY <1>6 DEF Entered, PotFollows
  <2> QED BY <1>4, <2>2, <2>3
<1> QED BY <1>5, <1>6

\* An empty log: every wallet as it was opened, nothing in the pot.
LEMMA InitBooks == Init => BooksInv
<1> SUFFICES ASSUME Init PROVE BooksInv
  OBVIOUS
<1>1. DOMAIN log = {} /\ PotRows = {}
  BY DEF Init, PotRows, OfType
<1>2. \A p : Booked(p) = 0
  BY <1>1, FunctionSumEmpty DEF Booked
<1>3. PotBooked = 0
  BY <1>1, FunctionSumEmpty DEF PotBooked
<1>4. pot = 0 /\ \A p \in Players : wallet[p] = Opening /\ Opening + 0 = Opening
  BY LedgerAssumption DEF Init
<1>5. pot = -PotBooked
  <2>1. \A n, z \in Int : n + z = 0 => n = -z
    OBVIOUS
  <2>2. pot \in Int /\ PotBooked \in Int /\ pot + PotBooked = 0
    BY <1>3, <1>4
  <2> QED BY <2>1, <2>2, Zenon
<1> QED BY <1>2, <1>4, <1>5 DEF BooksInv

\* Every step keeps the books.
LEMMA BooksKept == TypeInv /\ TypeInv' /\ BooksInv /\ [Next]_vars => BooksInv'
<1> SUFFICES ASSUME TypeInv, TypeInv', BooksInv, [Next]_vars PROVE BooksInv'
  OBVIOUS
<1>1. UNCHANGED money \/ \E tx : Entered(tx)
  BY BookStep DEF vars
<1>2. CASE UNCHANGED money
  <2>1. \A p : Booked(p)' = Booked(p)
    BY <1>2 DEF money, Booked, DeltaOf
  <2>2. PotBooked' = PotBooked
    BY <1>2 DEF money, PotBooked, PotRows, OfType, Total, DeltaOf
  <2> QED BY <1>2, <2>1, <2>2 DEF money, BooksInv
<1>3. CASE \E tx : Entered(tx)
  BY <1>3, WalletsFollow, PotFollowsLog DEF BooksInv
<1> QED BY <1>1, <1>2, <1>3

\* The books balance after every run of the bank, with any number of players
\* and transactions: no wallet and no pot is overdrawn, each wallet is its
\* opening balance and its rows in the log, and the pot what was paid into it
\* (BooksBalance).  The bankruptcy, which zeroes a wallet beside its row, needs
\* that the row books away all that was left.
THEOREM BooksAlwaysBalance == Spec => []BooksBalance
<1>1. Spec => []BooksInv
  <2>1. Spec => []TypeInv
    BY BankTypes, PTL
  <2> QED BY <2>1, InitBooks, BooksKept, PTL DEF Spec
<1>2. TypeInv /\ BooksInv => BooksBalance
  BY DEF TypeInv, MoneyTyped, BooksInv, BooksBalance, Booked, PotBooked, PotRows, Total
<1> QED BY <1>1, <1>2, BankTypes, PTL

-----------------------------------------------------------------------------
(* What was asked for is settled once *)

\* What may become of a request in a step: nothing, its time has come, or
\* somebody resolved it while it was pending.
Kept(r) == requests'[r] = requests[r]

Expired(r) ==
  /\ requests[r].state = "PENDING" /\ requests[r].due <= now
  /\ requests'[r] = [requests[r] EXCEPT !.state = "EXPIRED"]

Resolved(r) ==
  /\ Pending(requests, r)
  /\ \E s \in {"DECLINED", "CANCELLED"} : requests'[r] = [requests[r] EXCEPT !.state = s]

\* A row that settles no request and is no trade.
PlainRow(tx) == tx.via = 0 /\ tx.type # "PROPERTY_TRANSFER"

\* A step that settles no request: the log may get a row of something else.
Unsettling ==
  /\ log' = log \/ \E tx : log' = Append(log, tx) /\ tx.via = 0
  /\ now' >= now
  /\ DOMAIN requests \subseteq DOMAIN requests'
  /\ \A r \in DOMAIN requests : Kept(r) \/ Expired(r) \/ Resolved(r)
  /\ \A r \in DOMAIN requests' \ DOMAIN requests :
       requests'[r].state = "PENDING" /\ requests'[r].payer # requests'[r].recipient

\* A step that settles request r: it is marked unless its time came meanwhile.
Settling(r) ==
  /\ Pending(requests, r)
  /\ \E tx : /\ log' = Append(log, tx) /\ tx.via = r /\ tx.type # "PROPERTY_TRANSFER"
             /\ tx.delta = Moves(requests[r].payer, requests[r].recipient, requests[r].amount)
  /\ now' >= now
  /\ DOMAIN requests' = DOMAIN requests
  /\ \A s \in DOMAIN requests \ {r} : Kept(s) \/ Expired(s)
  /\ \/ requests'[r] = [requests[r] EXCEPT !.state = "ACCEPTED", !.tx = NextId]
     \/ Kept(r) /\ requests[r].due <= now'

\* The requests once the ones whose time has come are expired.
LEMMA ExpireMoves ==
    ASSUME TypeInv
    PROVE  /\ DOMAIN expirePending(requests) = DOMAIN requests
           /\ \A r \in DOMAIN requests :
                /\ requests'[r] = expirePending(requests)[r] => Kept(r) \/ Expired(r)
                /\ Pending(requests, r) => expirePending(requests)[r] = requests[r]
<1>1. now \in Nat /\ requests \in Seq(RequestRows)
  BY LedgerAssumption DEF TypeInv, TableTyped, AskedTyped
<1>2. \A r \in DOMAIN requests : requests[r] \in RequestRows
  BY <1>1, LenProperties
<1>3. \A r \in DOMAIN requests : requests[r].due \in Nat
  BY <1>2 DEF RequestRows
<1> QED BY <1>1, <1>3 DEF expirePending, Kept, Expired, Pending

\* Nothing but the requests moves, and those are expired or resolved.
LEMMA ResolveMoves ==
    ASSUME TypeInv, UNCHANGED <<log, now>>,
           \/ requests' = expirePending(requests)
           \/ \E r \in DOMAIN requests, s \in {"DECLINED", "CANCELLED"} :
                Pending(requests, r) /\ requests' = Resolve(requests, r, s)
    PROVE  Unsettling
<1>1. now' >= now
  BY LedgerAssumption DEF TypeInv, TableTyped
<1>2. CASE requests' = expirePending(requests)
  BY <1>1, <1>2, ExpireMoves DEF Unsettling
<1>3. ASSUME NEW r \in DOMAIN requests, NEW s \in {"DECLINED", "CANCELLED"},
             Pending(requests, r), requests' = Resolve(requests, r, s)
      PROVE  Unsettling
  <2>1. DOMAIN requests' = DOMAIN requests
    BY <1>3, ExpireMoves DEF Resolve
  <2>2. ASSUME NEW i \in DOMAIN requests, i # r PROVE Kept(i) \/ Expired(i)
    BY <1>3, <2>2, ExpireMoves DEF Resolve
  <2>3. Resolved(r)
    BY <1>3, ExpireMoves DEF Resolve, Resolved
  <2> QED BY <1>1, <2>1, <2>2, <2>3 DEF Unsettling
<1> QED BY <1>2, <1>3

\* New requests are added to the ones there are.
LEMMA AddMoves ==
    ASSUME TypeInv, UNCHANGED <<log, now>>, NEW rows \in Seq(RequestRows),
           requests' = expirePending(requests) \o rows,
           \A i \in 1 .. Len(rows) : rows[i].state = "PENDING" /\ rows[i].payer # rows[i].recipient
    PROVE  Unsettling
<1>1. now' >= now
  BY LedgerAssumption DEF TypeInv, TableTyped
<1>2. requests \in Seq(RequestRows) /\ Len(requests) \in Nat /\ DOMAIN requests = 1 .. Len(requests)
  BY LenProperties DEF TypeInv, AskedTyped
<1>3. /\ expirePending(requests) \in Seq(RequestRows)
      /\ Len(expirePending(requests)) = Len(requests) /\ Len(rows) \in Nat
  BY <1>2, RequestsExpire, LenProperties
<1>4. /\ requests' \in Seq(RequestRows) /\ Len(requests') = Len(requests) + Len(rows)
      /\ \A i \in 1 .. Len(requests) : requests'[i] = expirePending(requests)[i]
      /\ \A i \in Len(requests) + 1 .. Len(requests) + Len(rows) :
           requests'[i] = rows[i - Len(requests)]
  <2>1. PICK e : e = expirePending(requests)
    OBVIOUS
  <2>2. e \in Seq(RequestRows) /\ Len(e) = Len(requests) /\ requests' = e \o rows
    BY <1>3, <2>1
  <2>3. /\ e \o rows \in Seq(RequestRows) /\ Len(e \o rows) = Len(e) + Len(rows)
        /\ \A i \in 1 .. Len(e) + Len(rows) :
             (e \o rows)[i] = IF i <= Len(e) THEN e[i] ELSE rows[i - Len(e)]
    BY <2>2, ConcatProperties
  <2> QED BY <1>2, <1>3, <2>1, <2>2, <2>3
<1>5. DOMAIN requests' = 1 .. Len(requests) + Len(rows)
  BY <1>4, LenProperties
<1>6. ASSUME NEW r \in DOMAIN requests' \ DOMAIN requests
      PROVE  requests'[r].state = "PENDING" /\ requests'[r].payer # requests'[r].recipient
  <2>1. r \in Len(requests) + 1 .. Len(requests) + Len(rows) /\ r - Len(requests) \in 1 .. Len(rows)
    BY <1>2, <1>3, <1>5
  <2> QED BY <1>4, <2>1
<1>7. DOMAIN requests \subseteq DOMAIN requests'
  BY <1>2, <1>3, <1>5
<1>8. \A r \in DOMAIN requests : Kept(r) \/ Expired(r)
  BY <1>2, <1>4, ExpireMoves
<1> QED BY <1>1, <1>6, <1>7, <1>8 DEF Unsettling

\* A confirmation asks one player to pay another.
LEMMA ConfirmationMoves ==
    ASSUME TypeInv, NEW payers \in SUBSET Players, NEW p \in Players, NEW a \in Amounts,
           createConfirmationRequests(payers, p, a)
    PROVE  Unsettling
<1>1. PICK made \in (SUBSET payers) \ {{}} : \E rows \in SetToSeqs(Asked(made, p, a)) :
        requests' = expirePending(requests) \o rows
  BY DEF createConfirmationRequests, Asked
<1>2. PICK rows \in SetToSeqs(Asked(made, p, a)) : requests' = expirePending(requests) \o rows
  BY <1>1
<1>3. made \in SUBSET Players /\ p \notin made
  BY DEF createConfirmationRequests
<1>4. Len(rows) \in Nat /\ rows \in [1 .. Len(rows) -> Asked(made, p, a)]
  BY <1>3, ManyRequests
<1>5. Asked(made, p, a) \subseteq RequestRows
  BY <1>3, NewRequestTyped DEF Asked
<1>6. rows \in Seq(RequestRows)
  <2>1. rows \in [1 .. Len(rows) -> RequestRows]
    BY <1>4, <1>5
  <2> QED BY <1>4, <2>1, SeqDef
<1>7. \A x \in Asked(made, p, a) : x.state = "PENDING" /\ x.payer # x.recipient
  BY <1>3 DEF Asked, Request
<1>8. \A i \in 1 .. Len(rows) : rows[i].state = "PENDING" /\ rows[i].payer # rows[i].recipient
  BY <1>4, <1>7
<1>9. UNCHANGED <<log, now>>
  BY DEF createConfirmationRequests, money, Rest
<1> QED BY <1>2, <1>6, <1>8, <1>9, AddMoves

\* Settling a request.
LEMMA SettleMoves ==
    ASSUME TypeInv, NEW r \in DOMAIN requests, NEW later, NEW type, type # "PROPERTY_TRANSFER",
           settle(r, later, Tx(type, Moves(requests[r].payer, requests[r].recipient, requests[r].amount)))
    PROVE  Settling(r)
<1> DEFINE d == Moves(requests[r].payer, requests[r].recipient, requests[r].amount)
           tx == [Tx(type, d) EXCEPT !.via = r]
<1>1. tx.via = r /\ tx.type = type /\ tx.delta = d
  BY DEF Tx
<1>2. Pending(requests, r) /\ log' = Append(log, tx)
  BY DEF settle, Commit
<1>3. now' >= now /\ now' \in Nat /\ now \in Nat /\ requests[r].due \in Nat
  <2>1. now \in Nat /\ now' \in now .. now + 1
    BY LedgerAssumption DEF TypeInv, TableTyped, settle
  <2>2. requests[r].due \in Nat
    BY RequestDelta DEF RequestRows
  <2> QED BY <2>1, <2>2
<1> HIDE DEF tx
<1>4. requests[r] \in RequestRows
  BY RequestDelta
<1>5. DOMAIN requests' = DOMAIN requests
  BY ExpireMoves DEF settle
<1>6. ASSUME NEW s \in DOMAIN requests \ {r} PROVE Kept(s) \/ Expired(s)
  <2>1. requests'[s] = expirePending(requests)[s]
    BY ExpireMoves DEF settle
  <2> QED BY <2>1, ExpireMoves
<1>7. \/ requests'[r] = [requests[r] EXCEPT !.state = "ACCEPTED", !.tx = NextId]
      \/ Kept(r) /\ requests[r].due <= now'
  <2>1. expirePending(requests)[r] = requests[r] /\ r \in DOMAIN expirePending(requests)
    BY <1>2, ExpireMoves
  <2>2. CASE requests[r].due > later
    <3>1. requests' = [expirePending(requests) EXCEPT ![r].state = "ACCEPTED", ![r].tx = NextId]
      BY <2>2 DEF settle
    <3> QED BY <1>4, <2>1, <3>1 DEF RequestRows
  <2>3. CASE ~(requests[r].due > later)
    <3>1. requests' = expirePending(requests) /\ later = now'
      BY <2>3 DEF settle
    <3> QED BY <1>3, <2>1, <2>3, <3>1 DEF Kept
  <2> QED BY <2>2, <2>3
<1> QED BY <1>1, <1>2, <1>3, <1>5, <1>6, <1>7 DEF Settling

\* A step that leaves the requests alone and records nothing of them.
LEMMA QuietMoves ==
    ASSUME TypeInv, requests' = requests, now' \in {now, now + 1},
           log' = log \/ \E tx : log' = Append(log, tx) /\ tx.via = 0
    PROVE  Unsettling
<1>1. now' >= now
  BY LedgerAssumption DEF TypeInv, TableTyped
<1> QED BY <1>1 DEF Unsettling, Kept

\* The rows that come from no request.
LEMMA PlainRows ==
    /\ \A type, d, tiles, c :
         type # "PROPERTY_TRANSFER" =>
           PlainRow(Tx(type, d)) /\ PlainRow(TileTx(type, d, tiles, c))
    /\ \A i : PlainRow(Undoing(i))
    /\ \A x : transferProperties(x).via = 0
  BY DEF PlainRow, Tx, TileTx, Undoing, transferProperties

\* What a step adds to the log when it neither settles a request nor trades.
RecordsPlainly == \E tx : log' = Append(log, tx) /\ PlainRow(tx)

\* Payments, loans of the bank, deals on tiles, mortgages, reversals and
\* bankruptcies leave the requests alone.
LEMMA QuietSteps ==
    ASSUME \/ MoneyStep \/ BankLoanStep \/ TileStep \/ BuildingStep \/ MortgageStep
           \/ ReverseStep
    PROVE  RecordsPlainly /\ UNCHANGED <<requests, trades, now>>
<1>1. ASSUME NEW type, type # "PROPERTY_TRANSFER", NEW d, Plain(Tx(type, d))
      PROVE  RecordsPlainly /\ UNCHANGED <<requests, trades, now>>
  BY <1>1, PlainRows DEF Plain, Commit, Rest, RecordsPlainly
<1>2. ASSUME NEW type, type # "PROPERTY_TRANSFER", NEW d, NEW tiles, NEW c,
             Deal(type, d, tiles, c)
      PROVE  RecordsPlainly /\ UNCHANGED <<requests, trades, now>>
  BY <1>2, PlainRows DEF Deal, Commit, Frame, RecordsPlainly
<1>3. ASSUME NEW type, type # "PROPERTY_TRANSFER", NEW d, Commit(Tx(type, d)),
             UNCHANGED <<requests, trades, now>>
      PROVE  RecordsPlainly /\ UNCHANGED <<requests, trades, now>>
  BY <1>3, PlainRows DEF Commit, RecordsPlainly
<1>4. MoneyStep => RecordsPlainly /\ UNCHANGED <<requests, trades, now>>
  <2>1. ASSUME NEW p, NEW a, NEW q, NEW exact,
               \/ passGo(p, exact) \/ playerToBank(p, a) \/ bankToPlayer(p, a)
               \/ playerToAll(p, a) \/ allToPlayer(p, a) \/ auctionPayment(p, a)
               \/ playerToPlayer(p, q, a)
        PROVE  RecordsPlainly /\ UNCHANGED <<requests, trades, now>>
    BY <1>1, <2>1 DEF passGo, playerToBank, bankToPlayer, playerToAll, allToPlayer,
                      auctionPayment, playerToPlayer
  <2>2. ASSUME NEW p, NEW a, toJackpot(p, a) \/ jackpotPayout(p)
        PROVE  RecordsPlainly /\ UNCHANGED <<requests, trades, now>>
    BY <1>3, <2>2 DEF toJackpot, jackpotPayout, Rest
  <2> QED BY <2>1, <2>2 DEF MoneyStep
<1>5. BankLoanStep => RecordsPlainly /\ UNCHANGED <<requests, trades, now>>
  <2>1. ASSUME NEW p, NEW a, NEW ack, NEW l, NEW rate,
               issueBankLoan(p, a, ack) \/ repayBankLoan(l, rate)
        PROVE  RecordsPlainly /\ UNCHANGED <<requests, trades, now>>
    BY <1>3, <2>1 DEF issueBankLoan, repayBankLoan, CreditFrame
  <2> QED BY <2>1 DEF BankLoanStep
<1>6. TileStep \/ BuildingStep => RecordsPlainly /\ UNCHANGED <<requests, trades, now>>
  <2>1. ASSUME NEW p, NEW t, NEW price, NEW dice, propertyPurchase(p, t, price) \/ payRent(p, t, dice)
        PROVE  RecordsPlainly /\ UNCHANGED <<requests, trades, now>>
    BY <1>2, <2>1 DEF propertyPurchase, payRent
  <2>2. ASSUME NEW p, NEW targets, NEW direction, building(p, targets, direction)
        PROVE  RecordsPlainly /\ UNCHANGED <<requests, trades, now>>
    <3> DEFINE c == LevelChanges(targets)
    <3>1. \E a : \/ Deal("PROPERTY_BUILD", Pays(p, a), DOMAIN c, c)
                 \/ Deal("PROPERTY_SELL_BUILDING", Gets(p, a), DOMAIN c, c)
      BY <2>2 DEF building
    <3> HIDE DEF c
    <3> QED BY <1>2, <3>1
  <2> QED BY <2>1, <2>2 DEF TileStep, BuildingStep
<1>7. MortgageStep => RecordsPlainly /\ UNCHANGED <<requests, trades, now>>
  <2>1. ASSUME NEW p, NEW t, mortgageTile(p, t)
        PROVE  RecordsPlainly /\ UNCHANGED <<requests, trades, now>>
    BY <1>2, <2>1 DEF mortgageTile
  <2>2. ASSUME NEW p, NEW name, NEW value, mortgageProperty(p, name, value)
        PROVE  RecordsPlainly /\ UNCHANGED <<requests, trades, now>>
    BY <1>3, <2>2 DEF mortgageProperty, Frame
  <2>3. ASSUME NEW m, redeemMortgage(m)
        PROVE  RecordsPlainly /\ UNCHANGED <<requests, trades, now>>
    <3> DEFINE t == mortgages[m].item
               d == Pays(mortgages[m].player, redemptionCost(mortgages[m].value))
               c == One(t, mortgageChange(registry[t], FALSE))
    <3>1. \/ Deal("MORTGAGE_REDEMPTION", d, {t}, c)
          \/ Commit(Tx("MORTGAGE_REDEMPTION", d)) /\ UNCHANGED <<requests, trades, now>>
      BY <2>3 DEF redeemMortgage, Frame
    <3> HIDE DEF c, d, t
    <3> QED BY <1>2, <1>3, <3>1
  <2> QED BY <2>1, <2>2, <2>3 DEF MortgageStep
<1>8. ReverseStep => RecordsPlainly /\ UNCHANGED <<requests, trades, now>>
  <2>1. ASSUME NEW i \in DOMAIN log, reverseTransaction(i)
        PROVE  RecordsPlainly /\ UNCHANGED <<requests, trades, now>>
    <3>1. Commit(Undoing(i)) /\ UNCHANGED <<requests, trades, now>>
      BY <2>1 DEF reverseTransaction, Undoing, Frame
    <3> QED BY <3>1, PlainRows DEF Commit, RecordsPlainly
  <2> QED BY <2>1 DEF ReverseStep
<1> QED BY <1>4, <1>5, <1>6, <1>7, <1>8

\* A bankruptcy leaves the payment requests alone.
LEMMA BankruptcyQuiet ==
    ASSUME NEW p, NEW heir, declareBankruptcy(p, heir)
    PROVE  RecordsPlainly /\ UNCHANGED <<requests, now>>
  BY PlainRows DEF declareBankruptcy, RecordsPlainly

\* Proposing, refusing and listing trades leaves all books but the trades alone.
LEMMA TradesTalk ==
    ASSUME \/ \E p, q \in Active, give, take \in Sides, cashGive, cashTake \in Cash :
                createTradeRequest(p, q, give, take, cashGive, cashTake)
           \/ \E r \in DOMAIN trades, state \in {"DECLINED", "CANCELLED"} :
                resolveTradeRequest(r, state)
           \/ listTradeRequests
    PROVE  UNCHANGED <<wallet, log, estate>> /\ Frame
<1> DEFINE Still == UNCHANGED <<wallet, log, estate>> /\ Frame
<1>1. ASSUME NEW p, NEW q, NEW give, NEW take, NEW cashGive, NEW cashTake,
             createTradeRequest(p, q, give, take, cashGive, cashTake)
      PROVE  Still
  BY <1>1 DEF createTradeRequest
<1>2. ASSUME NEW r, NEW state, resolveTradeRequest(r, state) PROVE Still
  BY <1>2 DEF resolveTradeRequest
<1>3. listTradeRequests => Still
  BY DEF listTradeRequests
<1> HIDE DEF Still
<1>4. Still
  BY <1>1, <1>2, <1>3
<1> QED BY <1>4 DEF Still

\* Every step settles one request or none.
LEMMA SettlingSteps ==
    ASSUME TypeInv, Next
    PROVE  Unsettling \/ \E r \in DOMAIN requests : Settling(r)
<1>1. now \in {now, now + 1}
  OBVIOUS
<1>2. ASSUME RecordsPlainly, UNCHANGED <<requests, now>> PROVE Unsettling
  BY <1>2, QuietMoves DEF RecordsPlainly, PlainRow
<1>3. RequestStep => Unsettling \/ \E r \in DOMAIN requests : Settling(r)
  <2>1. ASSUME NEW p \in Players, NEW q \in Players, NEW a \in Amounts, requestPayment(p, q, a)
        PROVE  Unsettling
    <3>1. {p} \in SUBSET Players
      OBVIOUS
    <3> QED BY <2>1, <3>1, ConfirmationMoves DEF requestPayment
  <2>2. ASSUME NEW p \in Players, NEW a \in Amounts, requestFromAll(p, a) PROVE Unsettling
    <3>1. Active \ {p} \in SUBSET Players
      BY DEF Active
    <3> QED BY <2>2, <3>1, ConfirmationMoves DEF requestFromAll
  <2>3. ASSUME NEW r \in DOMAIN requests, NEW later, acceptPayment(r, later) PROVE Settling(r)
    BY <2>3, SettleMoves DEF acceptPayment
  <2>4. ASSUME \/ \E r \in DOMAIN requests, s \in {"DECLINED", "CANCELLED"} :
                    resolvePaymentRequest(r, s)
               \/ listPaymentRequests
        PROVE  Unsettling
    <3>1. UNCHANGED <<log, now>>
      BY <2>4 DEF resolvePaymentRequest, listPaymentRequests, money, Rest
    <3> QED BY <2>4, <3>1, ResolveMoves DEF resolvePaymentRequest, listPaymentRequests
  <2> QED BY <2>1, <2>2, <2>3, <2>4 DEF RequestStep
<1>4. LoanStep => Unsettling \/ \E r \in DOMAIN requests : Settling(r)
  <2>1. ASSUME NEW p \in Active, NEW q \in Active, NEW a \in Amounts, createLoanRequest(p, q, a)
        PROVE  Unsettling
    <3> DEFINE x == Request("LOAN", p, q, a)
    <3>1. x \in RequestRows
      BY NewRequestTyped DEF Active
    <3>2. x.state = "PENDING" /\ x.payer # x.recipient
      BY <2>1 DEF Request, createLoanRequest
    <3>3. requests' = Append(expirePending(requests), x) /\ UNCHANGED <<log, now>>
      BY <2>1 DEF createLoanRequest, money, Rest
    <3> HIDE DEF x
    <3>4. expirePending(requests) \in Seq(RequestRows)
      BY RequestsExpire DEF TypeInv, AskedTyped
    <3>5. /\ requests' = expirePending(requests) \o <<x>> /\ <<x>> \in Seq(RequestRows)
          /\ Len(<<x>>) = 1 /\ <<x>>[1] = x
      BY <3>1, <3>3, <3>4
    <3>6. \A i \in 1 .. Len(<<x>>) : <<x>>[i].state = "PENDING" /\ <<x>>[i].payer # <<x>>[i].recipient
      BY <3>2, <3>5
    <3> QED BY <3>3, <3>5, <3>6, AddMoves
  <2>2. ASSUME NEW r \in DOMAIN requests, NEW later, acceptLoan(r, later) PROVE Settling(r)
    BY <2>2, SettleMoves DEF acceptLoan
  <2>3. ASSUME NEW l, NEW a, repayLoan(l, a) PROVE Unsettling
    <3> DEFINE d == Moves(loans[l].borrower, loans[l].lender, a)
    <3>1. Commit(Tx("LOAN_REPAYMENT", d)) /\ UNCHANGED <<requests, now>>
      BY <2>3 DEF repayLoan, CreditFrame
    <3>2. RecordsPlainly
      BY <3>1, PlainRows DEF Commit, RecordsPlainly
    <3> QED BY <1>2, <3>1, <3>2
  <2> QED BY <2>1, <2>2, <2>3 DEF LoanStep
<1>5. TradeStep => Unsettling
  <2>1. ASSUME NEW r \in DOMAIN trades, acceptTradeRequest(r) PROVE Unsettling
    <3>1. /\ log' = Append(log, transferProperties(trades[r])) /\ UNCHANGED <<requests, now>>
      BY <2>1 DEF acceptTradeRequest, Commit, Frame
    <3> QED BY <1>1, <3>1, PlainRows, QuietMoves
  <2>2. ASSUME \/ \E p, q \in Active, give, take \in Sides, cashGive, cashTake \in Cash :
                    createTradeRequest(p, q, give, take, cashGive, cashTake)
               \/ \E r \in DOMAIN trades, state \in {"DECLINED", "CANCELLED"} :
                    resolveTradeRequest(r, state)
               \/ listTradeRequests
        PROVE  Unsettling
    <3>1. UNCHANGED <<requests, now, log>>
      BY <2>2, TradesTalk DEF Frame
    <3> QED BY <1>1, <3>1, QuietMoves
  <2> QED BY <2>1, <2>2 DEF TradeStep
<1>6. Tick => Unsettling
  BY QuietMoves DEF Tick, money
<1>7. BankruptcyStep => Unsettling
  BY <1>2, BankruptcyQuiet DEF BankruptcyStep
<1>8. \/ MoneyStep \/ BankLoanStep \/ TileStep \/ BuildingStep \/ MortgageStep \/ ReverseStep
      => Unsettling
  BY <1>2, QuietSteps
<1> QED BY <1>3, <1>4, <1>5, <1>6, <1>7, <1>8 DEF Next

\* What is kept of a request: who asks whom for how much, and that it moves at
\* most once, only while it was pending.
RequestSound(r) ==
  LET q == requests[r]
  IN /\ q.payer # q.recipient
     /\ q.state = "ACCEPTED" => q.tx \in DOMAIN log /\ log[q.tx].via = r
     /\ \A i \in DOMAIN log : log[i].via = r =>
          /\ DeltaOf(i, q.payer) = -q.amount /\ DeltaOf(i, q.recipient) = q.amount
          /\ ~Pending(requests, r) /\ q.state \notin {"DECLINED", "CANCELLED"}
          /\ \A j \in DOMAIN log : log[j].via = r => j = i

RequestInv ==
  /\ \A i \in DOMAIN log : log[i].via = 0 \/ log[i].via \in DOMAIN requests
  /\ \A r \in DOMAIN requests : RequestSound(r)

\* A request of before the step, in which no row is added for it.
LEMMA RequestUntouched ==
    ASSUME TypeInv, TypeInv', RequestInv, NEW r \in DOMAIN requests, r \in DOMAIN requests',
           now' >= now, Kept(r) \/ Expired(r) \/ Resolved(r),
           log' = log \/ \E tx : log' = Append(log, tx) /\ tx.via # r
    PROVE  RequestSound(r)'
<1>a. PICK q : q = requests[r]
  OBVIOUS
<1>b. PICK n : n = requests'[r]
  OBVIOUS
<1>1. now \in Nat /\ now' \in Nat /\ q \in RequestRows /\ q.due \in Nat
  <2>1. now \in Nat /\ now' \in Nat
    BY LedgerAssumption DEF TypeInv, TableTyped
  <2>2. q \in RequestRows
    BY <1>a, RequestDelta
  <2> QED BY <2>1, <2>2 DEF RequestRows
<1>2. /\ n.payer = q.payer /\ n.recipient = q.recipient /\ n.amount = q.amount
      /\ n.due = q.due /\ n.tx = q.tx
      /\ n.state # q.state => q.state = "PENDING" /\ n.state \in {"EXPIRED", "DECLINED", "CANCELLED"}
      /\ n.state \in {"DECLINED", "CANCELLED"} => n.state = q.state \/ Pending(requests, r)
  <2>1. CASE Kept(r)
    BY <1>a, <1>b, <2>1 DEF Kept
  <2>2. CASE Expired(r)
    <3>1. q.state = "PENDING" /\ n = [q EXCEPT !.state = "EXPIRED"]
      BY <1>a, <1>b, <2>2 DEF Expired
    <3> QED BY <1>1, <3>1 DEF RequestRows
  <2>3. CASE Resolved(r)
    <3>1. Pending(requests, r) /\ q.state = "PENDING"
      BY <1>a, <2>3 DEF Resolved, Pending
    <3>2. PICK s \in {"DECLINED", "CANCELLED"} : n = [q EXCEPT !.state = s]
      BY <1>a, <1>b, <2>3 DEF Resolved
    <3> QED BY <1>1, <3>1, <3>2 DEF RequestRows
  <2> QED BY <2>1, <2>2, <2>3
<1>3. /\ DOMAIN log \subseteq DOMAIN log'
      /\ \A i \in DOMAIN log : log'[i] = log[i] /\ \A p : DeltaOf(i, p)' = DeltaOf(i, p)
      /\ \A i \in DOMAIN log' : log'[i].via = r => i \in DOMAIN log
  <2>1. CASE log' = log
    BY <2>1 DEF DeltaOf
  <2>2. CASE \E tx : log' = Append(log, tx) /\ tx.via # r
    BY <2>2, AddedRow
  <2> QED BY <2>1, <2>2
<1>4. RequestSound(r)
  BY DEF RequestInv
<1>5. ASSUME NEW i \in DOMAIN log', log'[i].via = r
      PROVE  /\ DeltaOf(i, n.payer)' = -n.amount /\ DeltaOf(i, n.recipient)' = n.amount
             /\ ~(n.state = "PENDING" /\ n.due > now')
             /\ n.state \notin {"DECLINED", "CANCELLED"}
             /\ \A j \in DOMAIN log' : log'[j].via = r => j = i
  <2>1. i \in DOMAIN log /\ log[i].via = r
    BY <1>3, <1>5
  <2>2. /\ DeltaOf(i, q.payer) = -q.amount /\ DeltaOf(i, q.recipient) = q.amount
        /\ ~Pending(requests, r) /\ q.state \notin {"DECLINED", "CANCELLED"}
        /\ \A j \in DOMAIN log : log[j].via = r => j = i
    BY <1>a, <1>4, <2>1 DEF RequestSound
  <2>3. DeltaOf(i, n.payer)' = -n.amount /\ DeltaOf(i, n.recipient)' = n.amount
    <3>1. \A p : DeltaOf(i, p)' = DeltaOf(i, p)
      BY <1>3, <2>1
    <3>2. DeltaOf(i, n.payer)' = DeltaOf(i, q.payer) /\ DeltaOf(i, n.recipient)' = DeltaOf(i, q.recipient)
      BY <1>2, <3>1
    <3> QED BY <1>2, <2>2, <3>2
  <2>4. ~(n.state = "PENDING" /\ n.due > now') /\ n.state \notin {"DECLINED", "CANCELLED"}
    BY <1>a, <1>1, <1>2, <2>2 DEF Pending
  <2>5. \A j \in DOMAIN log' : log'[j].via = r => j = i
    BY <1>3, <2>2
  <2> QED BY <2>3, <2>4, <2>5
<1>6. n.payer # n.recipient /\ (n.state = "ACCEPTED" => n.tx \in DOMAIN log' /\ log'[n.tx].via = r)
  BY <1>a, <1>2, <1>3, <1>4 DEF RequestSound
<1> QED BY <1>b, <1>5, <1>6 DEF RequestSound, Pending

\* The request a step settles.
LEMMA RequestSettled ==
    ASSUME TypeInv, TypeInv', RequestInv, NEW r \in DOMAIN requests, Settling(r)
    PROVE  RequestSound(r)'
<1>a. PICK q : q = requests[r]
  OBVIOUS
<1>b. PICK n : n = requests'[r]
  OBVIOUS
<1>1. PICK tx : /\ log' = Append(log, tx) /\ tx.via = r
                /\ tx.delta = Moves(requests[r].payer, requests[r].recipient, requests[r].amount)
  BY DEF Settling
<1>2. q \in RequestRows /\ q.due \in Nat /\ now' \in Nat /\ q.payer # q.recipient
  <2>1. q \in RequestRows /\ now' \in Nat
    BY <1>a, RequestDelta, LedgerAssumption DEF TypeInv, TableTyped
  <2> QED BY <1>a, <2>1 DEF RequestRows, RequestInv, RequestSound
<1>3. /\ n.payer = q.payer /\ n.recipient = q.recipient /\ n.amount = q.amount /\ n.due = q.due
      /\ \/ n.state = "ACCEPTED" /\ n.tx = NextId
         \/ n = q /\ q.due <= now'
  BY <1>a, <1>b, <1>2 DEF Settling, Kept, RequestRows
<1>4. q.state = "PENDING"
  BY <1>a DEF Settling, Pending
<1>5. \A i \in DOMAIN log : log[i].via # r
  BY DEF RequestInv, RequestSound, Settling
<1>6. /\ DOMAIN log' = DOMAIN log \cup {NextId} /\ log'[NextId] = tx
      /\ \A i \in DOMAIN log : log'[i] = log[i]
  BY <1>1, AddedRow
<1>7. \A i \in DOMAIN log' : log'[i].via = r => i = NextId
  BY <1>5, <1>6
<1>8. PICK x : x = NextId
  OBVIOUS
<1>9. DeltaOf(x, q.payer)' = -q.amount /\ DeltaOf(x, q.recipient)' = q.amount
  <2>1. log'[x].delta = Moves(q.payer, q.recipient, q.amount)
    BY <1>a, <1>1, <1>6, <1>8
  <2> QED BY <1>2, <2>1 DEF DeltaOf, Moves
<1>10. n.payer # n.recipient /\ (n.state = "ACCEPTED" => n.tx \in DOMAIN log' /\ log'[n.tx].via = r)
  BY <1>1, <1>2, <1>3, <1>4, <1>6
<1>11. ~(n.state = "PENDING" /\ n.due > now') /\ n.state \notin {"DECLINED", "CANCELLED"}
  BY <1>2, <1>3, <1>4
<1>12. DeltaOf(x, n.payer)' = -n.amount /\ DeltaOf(x, n.recipient)' = n.amount
  BY <1>3, <1>9
<1> QED BY <1>b, <1>7, <1>8, <1>10, <1>11, <1>12 DEF RequestSound, Pending

\* Every step keeps the requests sound.
LEMMA RequestInvKept ==
    ASSUME TypeInv, TypeInv', RequestInv, [Next]_vars
    PROVE  RequestInv'
<1>0. /\ 0 \notin DOMAIN requests'
      /\ \A r \in DOMAIN requests' : r # 0
  BY LenProperties DEF TypeInv, AskedTyped
<1>1. Unsettling \/ \E r \in DOMAIN requests : Settling(r)
  <2>1. CASE UNCHANGED vars
    BY <2>1, QuietMoves DEF vars, money
  <2> QED BY <2>1, SettlingSteps
<1>2. CASE Unsettling
  <2>1. log' = log \/ \E tx : log' = Append(log, tx) /\ tx.via = 0
    BY <1>2 DEF Unsettling
  <2>2. DOMAIN requests \subseteq DOMAIN requests'
    BY <1>2 DEF Unsettling
  <2>3. \A i \in DOMAIN log' : log'[i].via = 0 \/ log'[i].via \in DOMAIN requests
    <3>1. CASE log' = log
      BY <3>1 DEF RequestInv
    <3>2. CASE \E tx : log' = Append(log, tx) /\ tx.via = 0
      BY <3>2, AddedRow DEF RequestInv
    <3> QED BY <2>1, <3>1, <3>2
  <2>4. ASSUME NEW r \in DOMAIN requests PROVE RequestSound(r)'
    <3>1. log' = log \/ \E tx : log' = Append(log, tx) /\ tx.via # r
      BY <1>0, <2>1, <2>2
    <3> QED BY <1>2, <2>2, <3>1, RequestUntouched DEF Unsettling
  <2>5. ASSUME NEW r \in DOMAIN requests' \ DOMAIN requests PROVE RequestSound(r)'
    <3>1. \A i \in DOMAIN log' : log'[i].via # r
      BY <1>0, <2>3
    <3>2. requests'[r].state = "PENDING" /\ requests'[r].payer # requests'[r].recipient
      BY <1>2 DEF Unsettling
    <3> QED BY <3>1, <3>2 DEF RequestSound
  <2>6. \A i \in DOMAIN log' : log'[i].via = 0 \/ log'[i].via \in DOMAIN requests'
    BY <2>2, <2>3
  <2>7. \A r \in DOMAIN requests' : RequestSound(r)'
    BY <2>4, <2>5
  <2> QED BY <2>6, <2>7 DEF RequestInv
<1>3. ASSUME NEW r \in DOMAIN requests, Settling(r) PROVE RequestInv'
  <2>1. PICK tx : log' = Append(log, tx) /\ tx.via = r
    BY <1>3 DEF Settling
  <2>2. DOMAIN requests' = DOMAIN requests /\ now' >= now
    BY <1>3 DEF Settling
  <2>3. \A i \in DOMAIN log' : log'[i].via = 0 \/ log'[i].via \in DOMAIN requests'
    BY <2>1, <2>2, AddedRow DEF RequestInv
  <2>4. ASSUME NEW s \in DOMAIN requests, s # r PROVE RequestSound(s)'
    <3>1. Kept(s) \/ Expired(s)
      BY <1>3, <2>4 DEF Settling
    <3> QED BY <2>1, <2>2, <2>4, <3>1, RequestUntouched
  <2>5. RequestSound(r)'
    BY <1>3, RequestSettled
  <2>6. \A s \in DOMAIN requests' : RequestSound(s)'
    BY <2>2, <2>4, <2>5
  <2> QED BY <2>3, <2>6 DEF RequestInv
<1> QED BY <1>1, <1>2, <1>3

-----------------------------------------------------------------------------
(* What was traded was accepted once *)

\* What becomes of a trade in a step that accepts none: nothing, or it is over.
SameTrade(r) == trades'[r] = trades[r]

ClosedTrade(r) ==
  trades[r].state = "PENDING" /\ trades'[r].state \in {"EXPIRED", "DECLINED", "CANCELLED"}

\* A step that accepts no trade.
NotTrading ==
  /\ log' = log \/ \E tx : log' = Append(log, tx) /\ tx.type # "PROPERTY_TRANSFER"
  /\ DOMAIN trades \subseteq DOMAIN trades'
  /\ \A r \in DOMAIN trades : SameTrade(r) \/ ClosedTrade(r)
  /\ \A r \in DOMAIN trades' \ DOMAIN trades :
       trades'[r].state = "PENDING" /\ {trades'[r].from, trades'[r].to} \subseteq Active

\* A step that accepts trade r, which was pending.
Trading(r) ==
  /\ trades[r].state = "PENDING"
  /\ \E tx : log' = Append(log, tx) /\ tx.type = "PROPERTY_TRANSFER"
  /\ DOMAIN trades' = DOMAIN trades
  /\ \A s \in DOMAIN trades \ {r} : SameTrade(s) \/ ClosedTrade(s)
  /\ trades'[r].state = "ACCEPTED" /\ trades'[r].tx = NextId

\* The trades once the ones whose time has come are expired.
LEMMA ExpiredTrades ==
    ASSUME TypeInv
    PROVE  /\ DOMAIN expirePending(trades) = DOMAIN trades
           /\ \A r \in DOMAIN trades :
                /\ trades'[r] = expirePending(trades)[r] => SameTrade(r) \/ ClosedTrade(r)
                /\ Pending(trades, r) => expirePending(trades)[r] = trades[r]
<1>1. now \in Nat /\ \A r \in DOMAIN trades : trades[r] \in TradeRows
  BY LedgerAssumption, TradeFacts DEF TypeInv, TableTyped
<1>2. ASSUME NEW r \in DOMAIN trades
      PROVE  /\ trades'[r] = expirePending(trades)[r] => SameTrade(r) \/ ClosedTrade(r)
             /\ Pending(trades, r) => expirePending(trades)[r] = trades[r]
  <2>1. trades[r].due \in Nat /\ [trades[r] EXCEPT !.state = "EXPIRED"].state = "EXPIRED"
    BY <1>1 DEF TradeRows
  <2>2. expirePending(trades)[r] =
          IF trades[r].state = "PENDING" /\ trades[r].due <= now
            THEN [trades[r] EXCEPT !.state = "EXPIRED"] ELSE trades[r]
    BY DEF expirePending
  <2>3. CASE trades[r].state = "PENDING" /\ trades[r].due <= now
    <3>1. ~(trades[r].due > now)
      BY <1>1, <2>1, <2>3
    <3>2. expirePending(trades)[r].state = "EXPIRED"
      BY <2>1, <2>2, <2>3
    <3> QED BY <2>3, <3>1, <3>2 DEF ClosedTrade, Pending
  <2>4. CASE ~(trades[r].state = "PENDING" /\ trades[r].due <= now)
    BY <2>2, <2>4 DEF SameTrade
  <2> QED BY <2>3, <2>4
<1>3. DOMAIN expirePending(trades) = DOMAIN trades
  BY DEF expirePending
<1> QED BY <1>2, <1>3

\* A step that leaves the trades alone and records no trade.
LEMMA TradesQuiet ==
    ASSUME trades' = trades,
           log' = log \/ \E tx : log' = Append(log, tx) /\ tx.type # "PROPERTY_TRANSFER"
    PROVE  NotTrading
  BY DEF NotTrading, SameTrade

\* Every step on trades accepts one or none.
LEMMA TradeMoves ==
    ASSUME TypeInv, TradeStep
    PROVE  NotTrading \/ \E r \in DOMAIN trades : Trading(r)
<1>0. trades \in Seq(TradeRows) /\ DOMAIN trades = 1 .. Len(trades) /\ Len(trades) \in Nat
  BY LenProperties DEF TypeInv, AskedTyped
<1>1. ASSUME NEW p \in Active, NEW q \in Active, NEW give \in Sides, NEW take \in Sides,
             NEW cashGive \in Cash, NEW cashTake \in Cash,
             createTradeRequest(p, q, give, take, cashGive, cashTake)
      PROVE  NotTrading
  <2> DEFINE x == [from |-> p, to |-> q, give |-> give, take |-> take,
                   cashGive |-> cashGive, cashTake |-> cashTake,
                   state |-> "PENDING", due |-> now + TimeToLive, tx |-> 0]
  <2>1. trades' = Append(expirePending(trades), x) /\ log' = log
    BY <1>1 DEF createTradeRequest
  <2>2. x.state = "PENDING" /\ {x.from, x.to} \subseteq Active
    OBVIOUS
  <2> HIDE DEF x
  <2>3. /\ DOMAIN trades' = 1 .. Len(trades) + 1 /\ trades'[Len(trades) + 1] = x
        /\ \A r \in 1 .. Len(trades) : trades'[r] = expirePending(trades)[r]
    <3>1. expirePending(trades) \in Seq(TradeRows) /\ Len(expirePending(trades)) = Len(trades)
      BY <1>0, TradesExpire
    <3> QED BY <1>0, <2>1, <3>1
  <2>4. DOMAIN trades \subseteq DOMAIN trades' /\ DOMAIN trades' \ DOMAIN trades = {Len(trades) + 1}
    BY <1>0, <2>3
  <2>5. \A r \in DOMAIN trades : SameTrade(r) \/ ClosedTrade(r)
    BY <1>0, <2>3, ExpiredTrades
  <2> QED BY <2>1, <2>2, <2>3, <2>4, <2>5 DEF NotTrading
<1>2. ASSUME NEW r \in DOMAIN trades, acceptTradeRequest(r) PROVE Trading(r)
  <2>1. /\ Pending(trades, r) /\ log' = Append(log, transferProperties(trades[r]))
        /\ trades' = [expirePending(trades) EXCEPT ![r].state = "ACCEPTED", ![r].tx = NextId]
    BY <1>2 DEF acceptTradeRequest, Commit
  <2>2. transferProperties(trades[r]).type = "PROPERTY_TRANSFER"
    BY DEF transferProperties, Tx
  <2>3. trades[r] \in TradeRows /\ expirePending(trades)[r] = trades[r]
        /\ DOMAIN expirePending(trades) = DOMAIN trades
    BY <2>1, TradeFacts, ExpiredTrades DEF TypeInv
  <2>4. trades'[r].state = "ACCEPTED" /\ trades'[r].tx = NextId
    BY <2>1, <2>3 DEF TradeRows
  <2>5. DOMAIN trades' = DOMAIN trades
    BY <2>1, <2>3
  <2>6. ASSUME NEW s \in DOMAIN trades \ {r} PROVE SameTrade(s) \/ ClosedTrade(s)
    <3>1. trades'[s] = expirePending(trades)[s]
      BY <2>1, <2>3
    <3> QED BY <3>1, ExpiredTrades
  <2> QED BY <2>1, <2>2, <2>4, <2>5, <2>6 DEF Trading, Pending
<1>3. ASSUME NEW r \in DOMAIN trades, NEW state \in {"DECLINED", "CANCELLED"},
             resolveTradeRequest(r, state)
      PROVE  NotTrading
  <2>1. /\ Pending(trades, r) /\ log' = log
        /\ trades' = [expirePending(trades) EXCEPT ![r].state = state]
    BY <1>3 DEF resolveTradeRequest, Resolve
  <2>2. trades[r] \in TradeRows /\ expirePending(trades)[r] = trades[r]
        /\ DOMAIN expirePending(trades) = DOMAIN trades
    BY <2>1, TradeFacts, ExpiredTrades DEF TypeInv
  <2>3. ClosedTrade(r)
    BY <2>1, <2>2 DEF TradeRows, ClosedTrade, Pending
  <2>4. ASSUME NEW s \in DOMAIN trades, s # r PROVE SameTrade(s) \/ ClosedTrade(s)
    <3>1. trades'[s] = expirePending(trades)[s]
      BY <2>1, <2>2, <2>4
    <3> QED BY <3>1, ExpiredTrades
  <2>5. DOMAIN trades' = DOMAIN trades
    BY <2>1, <2>2
  <2> QED BY <2>1, <2>3, <2>4, <2>5 DEF NotTrading
<1>4. ASSUME listTradeRequests PROVE NotTrading
  BY <1>4, ExpiredTrades DEF listTradeRequests, NotTrading
<1> QED BY <1>1, <1>2, <1>3, <1>4 DEF TradeStep

\* So does every other: the payments and deals leave the trades alone, and a
\* bankruptcy only cancels some.
LEMMA TradingSteps ==
    ASSUME TypeInv, Next
    PROVE  NotTrading \/ \E r \in DOMAIN trades : Trading(r)
<1>1. RecordsPlainly /\ trades' = trades => NotTrading
  BY TradesQuiet DEF RecordsPlainly, PlainRow
<1>2. RequestStep \/ LoanStep => NotTrading
  <2>1. ASSUME NEW r, NEW later, NEW type, type # "PROPERTY_TRANSFER", NEW d,
               settle(r, later, Tx(type, d))
        PROVE  NotTrading
    <3>1. [Tx(type, d) EXCEPT !.via = r].type = type
      BY DEF Tx
    <3>2. log' = Append(log, [Tx(type, d) EXCEPT !.via = r]) /\ trades' = trades
      BY <2>1 DEF settle, Commit
    <3> QED BY <2>1, <3>1, <3>2, TradesQuiet
  <2>2. ASSUME NEW r, NEW later, acceptPayment(r, later) \/ acceptLoan(r, later) PROVE NotTrading
    BY <2>1, <2>2 DEF acceptPayment, acceptLoan
  <2>3. ASSUME NEW l, NEW a, repayLoan(l, a) PROVE NotTrading
    <3> DEFINE tx == Tx("LOAN_REPAYMENT", Moves(loans[l].borrower, loans[l].lender, a))
    <3>1. log' = Append(log, tx) /\ trades' = trades
      BY <2>3 DEF repayLoan, Commit, CreditFrame
    <3>2. tx.type # "PROPERTY_TRANSFER"
      BY DEF Tx
    <3> HIDE DEF tx
    <3> QED BY <3>1, <3>2, TradesQuiet
  <2>4. ASSUME \/ \E p, q \in Players, a \in Amounts : requestPayment(p, q, a)
               \/ \E p \in Players, a \in Amounts : requestFromAll(p, a)
               \/ \E r \in DOMAIN requests, state \in {"DECLINED", "CANCELLED"} :
                    resolvePaymentRequest(r, state)
               \/ listPaymentRequests
               \/ \E p, q \in Active, a \in Amounts : createLoanRequest(p, q, a)
        PROVE  NotTrading
    <3>1. log' = log /\ trades' = trades
      BY <2>4 DEF requestPayment, requestFromAll, createConfirmationRequests,
                  resolvePaymentRequest, listPaymentRequests, createLoanRequest, money, Rest
    <3> QED BY <3>1, TradesQuiet
  <2> QED BY <2>2, <2>3, <2>4 DEF RequestStep, LoanStep
<1>3. BankruptcyStep => NotTrading
  <2>1. ASSUME NEW p, NEW heir, declareBankruptcy(p, heir) PROVE NotTrading
    <3>1. RecordsPlainly /\ trades' = bankruptTrades(p)
      BY <2>1, BankruptcyQuiet DEF declareBankruptcy
    <3>2. DOMAIN trades' = DOMAIN trades
      BY <3>1 DEF bankruptTrades
    <3>3. ASSUME NEW r \in DOMAIN trades PROVE SameTrade(r) \/ ClosedTrade(r)
      <4>1. trades[r] \in TradeRows
        BY TradeFacts DEF TypeInv
      <4> QED BY <3>1, <4>1 DEF bankruptTrades, SameTrade, ClosedTrade, TradeRows
    <3> QED BY <3>1, <3>2, <3>3 DEF NotTrading, RecordsPlainly, PlainRow
  <2> QED BY <2>1 DEF BankruptcyStep
<1>4. Tick => NotTrading
  BY TradesQuiet DEF Tick, money
<1> QED BY <1>1, <1>2, <1>3, <1>4, TradeMoves, QuietSteps DEF Next

\* Trade r was accepted as transaction i.
TradedAs(r, i) == trades[r].state = "ACCEPTED" /\ trades[r].tx = i

TradeInv ==
  /\ \A r \in DOMAIN trades :
       trades[r].state = "ACCEPTED" => trades[r].tx \in OfType("PROPERTY_TRANSFER")
  /\ \A i \in OfType("PROPERTY_TRANSFER") :
       \E r \in DOMAIN trades : TradedAs(r, i) /\ \A s \in DOMAIN trades : TradedAs(s, i) => s = r

\* Every step keeps trades and transactions in step.
LEMMA TradeInvKept ==
    ASSUME TypeInv, TypeInv', TradeInv, [Next]_vars
    PROVE  TradeInv'
<1>1. NotTrading \/ \E r \in DOMAIN trades : Trading(r)
  <2>1. CASE UNCHANGED vars
    BY <2>1, TradesQuiet DEF vars, money
  <2> QED BY <2>1, TradingSteps
<1>a. PICK x : x = NextId
  OBVIOUS
<1>2. CASE NotTrading
  <2>1. OfType("PROPERTY_TRANSFER")' = OfType("PROPERTY_TRANSFER")
    <3>1. CASE log' = log
      BY <3>1 DEF OfType
    <3>2. CASE \E tx : log' = Append(log, tx) /\ tx.type # "PROPERTY_TRANSFER"
      <4>1. PICK tx : log' = Append(log, tx) /\ tx.type # "PROPERTY_TRANSFER"
        BY <3>2
      <4>2. /\ DOMAIN log' = DOMAIN log \cup {x} /\ x \notin DOMAIN log /\ log'[x] = tx
            /\ \A i \in DOMAIN log : log'[i] = log[i]
        BY <1>a, <4>1, AddedRow
      <4> QED BY <4>1, <4>2 DEF OfType
    <3> QED BY <1>2, <3>1, <3>2 DEF NotTrading
  <2>2. \A r \in DOMAIN trades' : \A i : TradedAs(r, i)' <=> r \in DOMAIN trades /\ TradedAs(r, i)
    BY <1>2 DEF NotTrading, SameTrade, ClosedTrade, TradedAs
  <2>3. DOMAIN trades \subseteq DOMAIN trades'
    BY <1>2 DEF NotTrading
  <2>4. \A r \in DOMAIN trades' : trades'[r].state = "ACCEPTED" => r \in DOMAIN trades /\ trades'[r] = trades[r]
    BY <1>2 DEF NotTrading, SameTrade, ClosedTrade
  <2>5. \A r \in DOMAIN trades' :
          trades'[r].state = "ACCEPTED" => trades'[r].tx \in OfType("PROPERTY_TRANSFER")'
    BY <2>1, <2>4 DEF TradeInv
  <2>6. ASSUME NEW i \in OfType("PROPERTY_TRANSFER")'
        PROVE  \E r \in DOMAIN trades' :
                 TradedAs(r, i)' /\ \A s \in DOMAIN trades' : TradedAs(s, i)' => s = r
    <3>1. PICK r \in DOMAIN trades :
            TradedAs(r, i) /\ \A s \in DOMAIN trades : TradedAs(s, i) => s = r
      BY <2>1 DEF TradeInv
    <3>2. r \in DOMAIN trades' /\ TradedAs(r, i)'
      BY <2>2, <2>3, <3>1
    <3>3. \A s \in DOMAIN trades' : TradedAs(s, i)' => s = r
      BY <2>2, <3>1
    <3> QED BY <3>2, <3>3
  <2> QED BY <2>5, <2>6 DEF TradeInv
<1>3. ASSUME NEW r \in DOMAIN trades, Trading(r) PROVE TradeInv'
  <2>1. PICK tx : log' = Append(log, tx) /\ tx.type = "PROPERTY_TRANSFER"
    BY <1>3 DEF Trading
  <2>2. /\ DOMAIN log' = DOMAIN log \cup {x} /\ x \notin DOMAIN log /\ log'[x] = tx
        /\ \A i \in DOMAIN log : log'[i] = log[i]
    BY <1>a, <2>1, AddedRow
  <2>3. OfType("PROPERTY_TRANSFER")' = OfType("PROPERTY_TRANSFER") \cup {x}
        /\ x \notin OfType("PROPERTY_TRANSFER")
    BY <2>1, <2>2 DEF OfType
  <2>4. /\ DOMAIN trades' = DOMAIN trades
        /\ trades[r].state = "PENDING" /\ trades'[r].state = "ACCEPTED" /\ trades'[r].tx = x
    BY <1>3, <1>a DEF Trading
  <2>5. \A s \in DOMAIN trades \ {r} :
          trades'[s].state = "ACCEPTED" \/ trades[s].state = "ACCEPTED" => trades'[s] = trades[s]
    BY <1>3 DEF Trading, SameTrade, ClosedTrade
  <2>6. \A s \in DOMAIN trades' :
          trades'[s].state = "ACCEPTED" => trades'[s].tx \in OfType("PROPERTY_TRANSFER")'
    BY <2>3, <2>4, <2>5 DEF TradeInv
  <2>7. TradedAs(r, x)' /\ \A s \in DOMAIN trades' : TradedAs(s, x)' => s = r
    BY <2>3, <2>4, <2>5 DEF TradeInv, TradedAs
  <2>8. ASSUME NEW i \in OfType("PROPERTY_TRANSFER")
        PROVE  \E s \in DOMAIN trades' :
                 TradedAs(s, i)' /\ \A u \in DOMAIN trades' : TradedAs(u, i)' => u = s
    <3>1. PICK s \in DOMAIN trades :
            TradedAs(s, i) /\ \A u \in DOMAIN trades : TradedAs(u, i) => u = s
      BY DEF TradeInv
    <3>2. s # r /\ i # x
      BY <2>3, <2>4, <3>1 DEF TradedAs
    <3>3. TradedAs(s, i)' /\ s \in DOMAIN trades'
      BY <2>4, <2>5, <3>1, <3>2 DEF TradedAs
    <3>4. \A u \in DOMAIN trades' : TradedAs(u, i)' => u = s
      BY <2>4, <2>5, <3>1, <3>2 DEF TradedAs
    <3> QED BY <3>3, <3>4
  <2> QED BY <2>3, <2>4, <2>6, <2>7, <2>8 DEF TradeInv
<1> QED BY <1>1, <1>2, <1>3

\* Nothing was asked for yet.
LEMMA InitRequests == Init => RequestInv /\ TradeInv
<1> SUFFICES ASSUME Init PROVE RequestInv /\ TradeInv
  OBVIOUS
<1>1. DOMAIN log = {} /\ DOMAIN requests = {} /\ DOMAIN trades = {}
  BY DEF Init
<1> QED BY <1>1 DEF RequestInv, TradeInv, OfType

\* The invariant of the run, from what is kept.
LEMMA SettledAsCounted ==
    ASSUME TypeInv, RequestInv, TradeInv
    PROVE  RequestsSettleOnce
<1>1. ASSUME NEW r \in DOMAIN requests
      PROVE  LET q == requests[r]
                 moved == {i \in DOMAIN log : log[i].via = r}
             IN /\ Cardinality(moved) <= 1
                /\ q.state = "ACCEPTED" => moved = {q.tx}
                /\ q.state \in {"DECLINED", "CANCELLED"} => moved = {}
                /\ \A i \in moved : /\ DeltaOf(i, q.payer) = -q.amount
                                    /\ DeltaOf(i, q.recipient) = q.amount
  <2> DEFINE q == requests[r]
             moved == {i \in DOMAIN log : log[i].via = r}
  <2>1. /\ q.state = "ACCEPTED" => q.tx \in moved
        /\ \A i \in moved : /\ DeltaOf(i, q.payer) = -q.amount /\ DeltaOf(i, q.recipient) = q.amount
                            /\ q.state \notin {"DECLINED", "CANCELLED"}
                            /\ \A j \in moved : j = i
    BY DEF RequestInv, RequestSound
  <2> HIDE DEF q, moved
  <2>2. Cardinality(moved) <= 1
    <3>1. CASE moved = {}
      BY <3>1, FS_EmptySet
    <3>2. ASSUME NEW i \in moved PROVE Cardinality(moved) <= 1
      <4>1. moved = {i}
        BY <2>1
      <4> QED BY <4>1, FS_Singleton
    <3> QED BY <3>1, <3>2
  <2>3. q.state = "ACCEPTED" => moved = {q.tx}
    BY <2>1
  <2>4. q.state \in {"DECLINED", "CANCELLED"} => moved = {}
    BY <2>1
  <2> QED BY <2>1, <2>2, <2>3, <2>4 DEF q, moved
<1>2. ASSUME NEW i \in OfType("PROPERTY_TRANSFER")
      PROVE  Cardinality({r \in DOMAIN trades : trades[r].tx = i /\ trades[r].state = "ACCEPTED"}) = 1
  <2>1. PICK r \in DOMAIN trades : TradedAs(r, i) /\ \A s \in DOMAIN trades : TradedAs(s, i) => s = r
    BY DEF TradeInv
  <2>2. {s \in DOMAIN trades : trades[s].tx = i /\ trades[s].state = "ACCEPTED"} = {r}
    BY <2>1 DEF TradedAs
  <2> QED BY <2>2, FS_Singleton
<1> QED BY <1>1, <1>2 DEF RequestsSettleOnce

\* What was asked for moves at most once, only while it was pending, and to the
\* parties it named (RequestsSettleOnce), however payments, loans, trades,
\* timeouts, reversals and bankruptcies follow one another.
THEOREM RequestsSettleJustOnce == Spec => []RequestsSettleOnce
<1>1. Spec => []TypeInv
  BY BankTypes, PTL
<1>2. RequestInv /\ TradeInv /\ TypeInv /\ TypeInv' /\ [Next]_vars => RequestInv' /\ TradeInv'
  BY RequestInvKept, TradeInvKept
<1>3. Spec => [](RequestInv /\ TradeInv)
  BY <1>1, <1>2, InitRequests, PTL DEF Spec
<1>4. TypeInv /\ RequestInv /\ TradeInv => RequestsSettleOnce
  BY SettledAsCounted
<1> QED BY <1>1, <1>3, <1>4, PTL

-----------------------------------------------------------------------------
(* The bankrupt hold nothing: tiles and mortgages *)

\* Every tile a transaction moves was a participant's before, or the bank's:
\* what a reversal gives back goes to somebody who takes part in it.
Fair(tx) == \A t \in DOMAIN tx.changes : tx.changes[t].before.owner \in DOMAIN tx.delta \cup {Bank}

\* What stands for a mortgage: an active one is under somebody who plays on, a
\* redeemed one under a participant of the transaction that redeemed it.
MortgageHeld(m) ==
  /\ mortgages[m].state = "ACTIVE" =>
       mortgages[m].player \in Active /\ mortgages[m].redeemedBy = 0
  /\ mortgages[m].redeemedBy # 0 =>
       /\ mortgages[m].redeemedBy \in DOMAIN log
       /\ mortgages[m].player \in DOMAIN log[mortgages[m].redeemedBy].delta

TilesHeld == \A t \in DOMAIN registry : registry[t].owner \in Active \cup {Bank}
LogHeld == \A i \in DOMAIN log : log[i].type \in NonReversible \/ Fair(log[i])
MortgagesHeld == \A m \in DOMAIN mortgages : MortgageHeld(m)
EstateHeld == TilesHeld /\ LogHeld /\ MortgagesHeld

\* The rows of the log stay what they are.
LEMMA LogKept ==
    ASSUME TypeInv, TypeInv', log' = log \/ \E tx : log' = Append(log, tx)
    PROVE  DOMAIN log \subseteq DOMAIN log' /\ \A i \in DOMAIN log : log'[i] = log[i]
<1>1. CASE \E tx : log' = Append(log, tx)
  BY <1>1, AddedRow
<1> QED BY <1>1

\* A fair row keeps the log fair.
LEMMA LogStaysFair ==
    ASSUME TypeInv, TypeInv', LogHeld,
           \/ log' = log
           \/ \E tx : log' = Append(log, tx) /\ (tx.type \in NonReversible \/ Fair(tx))
    PROVE  LogHeld'
<1>1. CASE log' = log
  BY <1>1 DEF LogHeld, Fair
<1>2. ASSUME NEW tx, log' = Append(log, tx), tx.type \in NonReversible \/ Fair(tx)
      PROVE  LogHeld'
  <2>1. PICK x : x = NextId
    OBVIOUS
  <2>2. /\ DOMAIN log' = DOMAIN log \cup {x} /\ log'[x] = tx
        /\ \A i \in DOMAIN log : log'[i] = log[i]
    BY <1>2, <2>1, AddedRow
  <2>3. ASSUME NEW i \in DOMAIN log' PROVE log'[i].type \in NonReversible \/ Fair(log'[i])
    <3>1. CASE i = x
      BY <1>2, <2>2, <3>1
    <3>2. CASE i \in DOMAIN log
      BY <2>2, <3>2 DEF LogHeld
    <3> QED BY <2>2, <2>3, <3>1, <3>2
  <2> QED BY <2>3 DEF LogHeld, Fair
<1> QED BY <1>1, <1>2

\* A mortgage that stays with its player, and is not taken up again.
LEMMA MortgageStays ==
    ASSUME TypeInv, TypeInv', log' = log \/ \E tx : log' = Append(log, tx),
           NEW m \in DOMAIN mortgages, MortgageHeld(m),
           mortgages'[m].player = mortgages[m].player,
           mortgages'[m].redeemedBy = mortgages[m].redeemedBy,
           mortgages'[m].state = "ACTIVE" =>
             mortgages[m].state = "ACTIVE" /\ mortgages[m].player \in Active'
    PROVE  MortgageHeld(m)'
  BY LogKept DEF MortgageHeld

\* Tiles that go to somebody who plays on, or to the bank.
LEMMA TilesStayHeld ==
    ASSUME TilesHeld, bankrupt' = bankrupt, NEW c, registry' = applyChanges(registry, c),
           \A t \in DOMAIN c : c[t].after.owner \in Active \cup {Bank}
    PROVE  TilesHeld'
<1>1. Active' = Active
  BY DEF Active
<1>2. /\ DOMAIN registry' = DOMAIN registry
      /\ \A t \in DOMAIN registry :
           registry'[t] = IF t \in DOMAIN c THEN c[t].after ELSE registry[t]
  BY DEF applyChanges
<1> QED BY <1>1, <1>2 DEF TilesHeld

\* A step that touches no tile and no mortgage, and records no changes.
LEMMA EstateQuiet ==
    ASSUME TypeInv, TypeInv', EstateHeld, UNCHANGED <<estate, bankrupt>>,
           log' = log \/ \E tx : log' = Append(log, tx) /\ tx.changes = NoChange
    PROVE  EstateHeld'
<1>1. Active' = Active
  BY DEF Active
<1>2. LogHeld'
  <2>1. \A tx : tx.changes = NoChange => Fair(tx)
    BY DEF Fair, NoChange
  <2> QED BY <2>1, LogStaysFair DEF EstateHeld
<1>3. MortgagesHeld'
  <2>1. log' = log \/ \E tx : log' = Append(log, tx)
    OBVIOUS
  <2>2. ASSUME NEW m \in DOMAIN mortgages PROVE MortgageHeld(m)'
    <3>1. MortgageHeld(m) /\ mortgages' = mortgages
      BY DEF EstateHeld, MortgagesHeld, estate
    <3>2. mortgages[m].state = "ACTIVE" => mortgages[m].player \in Active'
      BY <1>1, <3>1 DEF MortgageHeld
    <3> QED BY <2>1, <3>1, <3>2, MortgageStays
  <2> QED BY <2>2 DEF MortgagesHeld, estate
<1>4. TilesHeld'
  BY <1>1 DEF EstateHeld, TilesHeld, estate
<1> QED BY <1>2, <1>3, <1>4 DEF EstateHeld

\* A deal on tiles between participants who play on.
LEMMA DealHeld ==
    ASSUME TypeInv, TypeInv', EstateHeld, NEW tx, NEW c,
           log' = Append(log, tx), tx.changes = c, registry' = applyChanges(registry, c),
           bankrupt' = bankrupt, tx.type \in NonReversible \/ Fair(tx),
           \A t \in DOMAIN c : c[t].after.owner \in Active \cup {Bank},
           MortgagesHeld'
    PROVE  EstateHeld'
<1>1. LogHeld' /\ TilesHeld'
  BY LogStaysFair, TilesStayHeld DEF EstateHeld
<1> QED BY <1>1 DEF EstateHeld

\* The mortgages a step on tiles leaves alone.
LEMMA MortgagesAlone ==
    ASSUME TypeInv, TypeInv', EstateHeld, bankrupt' = bankrupt, NEW tx, log' = Append(log, tx),
           NEW m \in DOMAIN mortgages, mortgages'[m] = mortgages[m]
    PROVE  MortgageHeld(m)'
<1>1. Active' = Active /\ MortgageHeld(m)
  BY DEF Active, EstateHeld, MortgagesHeld
<1>2. mortgages'[m].state = "ACTIVE" =>
        mortgages[m].state = "ACTIVE" /\ mortgages[m].player \in Active'
  BY <1>1 DEF MortgageHeld
<1> QED BY <1>1, <1>2, MortgageStays

\* The rows a deal and a trade make.
LEMMA DealRow ==
    ASSUME NEW type, NEW d, NEW tiles, NEW c
    PROVE  /\ TileTx(type, d, tiles, c).changes = c /\ TileTx(type, d, tiles, c).delta = d
           /\ TileTx(type, d, tiles, c).type = type
           /\ Tx(type, d).changes = NoChange /\ Tx(type, d).delta = d
  BY DEF TileTx, Tx

\* A deal that touches no mortgage.
LEMMA PlainDealHeld ==
    ASSUME TypeInv, TypeInv', EstateHeld, NEW type, NEW d, NEW tiles, NEW c,
           Deal(type, d, tiles, c), UNCHANGED mortgages,
           \A t \in DOMAIN c : /\ c[t].before.owner \in DOMAIN d \cup {Bank}
                               /\ c[t].after.owner \in Active \cup {Bank}
    PROVE  EstateHeld'
<1> DEFINE tx == TileTx(type, d, tiles, c)
<1>1. tx.changes = c /\ tx.delta = d
  BY DealRow
<1>2. log' = Append(log, tx) /\ registry' = applyChanges(registry, c) /\ bankrupt' = bankrupt
  BY DEF Deal, Commit, Frame
<1> HIDE DEF tx
<1>3. MortgagesHeld'
  BY <1>2, MortgagesAlone DEF MortgagesHeld
<1>4. Fair(tx)
  BY <1>1 DEF Fair
<1> QED BY <1>1, <1>2, <1>3, <1>4, DealHeld

\* A row that concerns no tile.
Bare(tx) == tx.undoes = 0 /\ tx.tiles = {} /\ tx.changes = NoChange

\* Rows that do not say otherwise are bare.
LEMMA TxBare == ASSUME NEW type, NEW d PROVE Bare(Tx(type, d))
  BY DEF Bare, Tx

\* Payments, loans and everything asked for touch no tile.
LEMMA MoneyBare ==
    ASSUME MoneyStep \/ RequestStep \/ LoanStep \/ BankLoanStep \/ Tick
    PROVE  /\ UNCHANGED <<estate, bankrupt>>
           /\ log' = log \/ \E tx : log' = Append(log, tx) /\ Bare(tx)
<1> DEFINE Still == /\ UNCHANGED <<estate, bankrupt>>
                    /\ log' = log \/ \E tx : log' = Append(log, tx) /\ Bare(tx)
<1>1. ASSUME NEW type, NEW d, Commit(Tx(type, d)), UNCHANGED <<estate, bankrupt>> PROVE Still
  <2>1. log' = Append(log, Tx(type, d)) /\ Bare(Tx(type, d))
    BY <1>1, TxBare DEF Commit
  <2> QED BY <1>1, <2>1
<1>2. MoneyStep => Still
  <2>1. ASSUME NEW p, NEW a, NEW q, NEW exact,
               \/ passGo(p, exact) \/ playerToBank(p, a) \/ bankToPlayer(p, a)
               \/ playerToAll(p, a) \/ allToPlayer(p, a) \/ auctionPayment(p, a)
               \/ playerToPlayer(p, q, a) \/ toJackpot(p, a) \/ jackpotPayout(p)
        PROVE  Still
    <3>1. \E type, d : Commit(Tx(type, d)) /\ UNCHANGED <<estate, bankrupt>>
      BY <2>1 DEF passGo, playerToBank, bankToPlayer, playerToAll, allToPlayer, toJackpot,
                  jackpotPayout, auctionPayment, playerToPlayer, Plain, Rest
    <3> HIDE DEF Still
    <3> QED BY <1>1, <3>1
  <2> HIDE DEF Still
  <2> QED BY <2>1 DEF MoneyStep
<1>3. RequestStep \/ LoanStep => Still
  <2>1. ASSUME NEW r, NEW later, NEW type, NEW d, settle(r, later, Tx(type, d)) PROVE Still
    <3>1. Bare([Tx(type, d) EXCEPT !.via = r])
      BY DEF Tx, Bare
    <3>2. log' = Append(log, [Tx(type, d) EXCEPT !.via = r]) /\ UNCHANGED <<estate, bankrupt>>
      BY <2>1 DEF settle, Commit
    <3> QED BY <3>1, <3>2
  <2>2. ASSUME NEW r, NEW later, acceptPayment(r, later) \/ acceptLoan(r, later) PROVE Still
    <3> HIDE DEF Still
    <3> QED BY <2>1, <2>2 DEF acceptPayment, acceptLoan
  <2>3. ASSUME NEW l, NEW a, repayLoan(l, a) PROVE Still
    <3>1. \E type, d : Commit(Tx(type, d)) /\ UNCHANGED <<estate, bankrupt>>
      BY <2>3 DEF repayLoan, CreditFrame
    <3> HIDE DEF Still
    <3> QED BY <1>1, <3>1
  <2>4. ASSUME \/ \E p, q \in Players, a \in Amounts : requestPayment(p, q, a)
               \/ \E p \in Players, a \in Amounts : requestFromAll(p, a)
               \/ \E r \in DOMAIN requests, state \in {"DECLINED", "CANCELLED"} :
                    resolvePaymentRequest(r, state)
               \/ listPaymentRequests
               \/ \E p, q \in Active, a \in Amounts : createLoanRequest(p, q, a)
        PROVE  Still
    <3>1. log' = log /\ UNCHANGED <<estate, bankrupt>>
      BY <2>4 DEF requestPayment, requestFromAll, createConfirmationRequests,
                  resolvePaymentRequest, listPaymentRequests, createLoanRequest, money, Rest
    <3> QED BY <3>1
  <2> HIDE DEF Still
  <2> QED BY <2>2, <2>3, <2>4 DEF RequestStep, LoanStep
<1>4. BankLoanStep => Still
  <2>1. ASSUME NEW p, NEW a, NEW ack, NEW l, NEW rate,
               issueBankLoan(p, a, ack) \/ repayBankLoan(l, rate)
        PROVE  Still
    <3>1. \E type, d : Commit(Tx(type, d)) /\ UNCHANGED <<estate, bankrupt>>
      BY <2>1 DEF issueBankLoan, repayBankLoan, CreditFrame
    <3> HIDE DEF Still
    <3> QED BY <1>1, <3>1
  <2> HIDE DEF Still
  <2> QED BY <2>1 DEF BankLoanStep
<1>5. Tick => Still
  BY DEF Tick, money
<1> HIDE DEF Still
<1>6. Still
  BY <1>2, <1>3, <1>4, <1>5
<1> QED BY <1>6 DEF Still

\* ... nor a mortgage.
LEMMA MoneyHoldsEstate ==
    ASSUME TypeInv, TypeInv', EstateHeld, MoneyStep \/ RequestStep \/ LoanStep \/ BankLoanStep \/ Tick
    PROVE  EstateHeld' /\ bankrupt' = bankrupt
  BY MoneyBare, EstateQuiet DEF Bare

\* Buying, building and rent.
LEMMA TilesHoldEstate ==
    ASSUME TypeInv, TypeInv', EstateHeld, TileStep \/ BuildingStep
    PROVE  EstateHeld' /\ bankrupt' = bankrupt
<1>0. EstateTyped /\ DOMAIN registry \subseteq Tiles
  BY RegistryFacts DEF TypeInv
<1>1. ASSUME NEW p \in Active, NEW t \in DOMAIN registry, NEW price, propertyPurchase(p, t, price)
      PROVE  EstateHeld' /\ bankrupt' = bankrupt
  <2> DEFINE d == Pays(p, price)
             c == One(t, ownerChange(registry[t], p))
  <2>1. /\ registry[t].owner = Bank /\ Deal("PROPERTY_PURCHASE", d, {t}, c)
        /\ UNCHANGED mortgages
    BY <1>1 DEF propertyPurchase
  <2>2. DOMAIN c = {t} /\ c[t].before = registry[t] /\ c[t].after.owner \in {p, Bank}
    <3>1. registry[t] \in TileState
      BY <1>0, RegistryFacts
    <3>2. [registry[t] EXCEPT !.owner = p].owner = p
      BY <3>1 DEF TileState
    <3> QED BY <3>2 DEF One, ownerChange, Change, Unowned
  <2>3. bankrupt' = bankrupt
    BY <2>1 DEF Deal, Frame
  <2> HIDE DEF c, d
  <2> QED BY <2>1, <2>2, <2>3, PlainDealHeld
<1>2. ASSUME NEW p \in Active, NEW t \in DOMAIN registry, NEW dice, payRent(p, t, dice)
      PROVE  EstateHeld' /\ bankrupt' = bankrupt
  <2> DEFINE d == Moves(p, registry[t].owner, rentFor(registry, t, dice))
  <2>1. Deal("PAY_RENT", d, {t}, NoChange) /\ UNCHANGED mortgages
    BY <1>2 DEF payRent
  <2>2. bankrupt' = bankrupt
    BY <2>1 DEF Deal, Frame
  <2>3. DOMAIN NoChange = {}
    BY DEF NoChange
  <2> HIDE DEF d
  <2> QED BY <2>1, <2>2, <2>3, PlainDealHeld
<1>3. ASSUME NEW p \in Active, NEW targets, NEW direction, building(p, targets, direction)
      PROVE  EstateHeld' /\ bankrupt' = bankrupt
  <2> DEFINE c == LevelChanges(targets)
  <2>1. /\ \E a : \/ Deal("PROPERTY_BUILD", Pays(p, a), DOMAIN c, c)
                  \/ Deal("PROPERTY_SELL_BUILDING", Gets(p, a), DOMAIN c, c)
        /\ UNCHANGED mortgages /\ registry # <<>>
        /\ planBuildings(registry, p, targets, direction)
    BY <1>3 DEF building
  <2>3. bankrupt' = bankrupt
    BY <2>1 DEF Deal, Frame
  <2>4. ASSUME NEW t \in DOMAIN c PROVE c[t].before.owner = p /\ c[t].after.owner = p
    <3>1. registry \in [Tiles -> TileState]
      BY <1>0, <2>1, RegistryFacts
    <3>2. PICK g \in DOMAIN targets :
            holdsFullGroup(registry, g, p) /\ DOMAIN targets \subseteq groupTiles(g)
      BY <2>1 DEF planBuildings
    <3>3. t \in DOMAIN targets /\ t \in Tiles /\ registry[t].owner = p
      BY <3>2 DEF LevelChanges, holdsFullGroup, groupTiles
    <3>4. [registry[t] EXCEPT !.houses = targets[t]].owner = p
      BY <3>1, <3>3 DEF TileState
    <3>5. c[t] = buildingChange(registry[t], targets[t])
      BY DEF LevelChanges
    <3> HIDE DEF c
    <3>6. c[t].before = registry[t] /\ c[t].after = [registry[t] EXCEPT !.houses = targets[t]]
      BY <3>5 DEF buildingChange, Change
    <3> QED BY <3>3, <3>4, <3>6
  <2> HIDE DEF c
  <2>5. ASSUME NEW type, NEW d, DOMAIN d = {p}, Deal(type, d, DOMAIN c, c) PROVE EstateHeld'
    BY <2>1, <2>4, <2>5, PlainDealHeld
  <2>6. EstateHeld'
    BY <2>1, <2>5 DEF Pays, Gets
  <2> QED BY <2>3, <2>6
<1> QED BY <1>1, <1>2, <1>3 DEF TileStep, BuildingStep

\* A row that is added for somebody who plays on.
LEMMA MortgageAdded ==
    ASSUME TypeInv, TypeInv', EstateHeld, bankrupt' = bankrupt, NEW tx, log' = Append(log, tx),
           NEW p \in Active, NEW item, NEW value,
           mortgages' = Insert(mortgages, MortgageRow(p, item, value))
    PROVE  MortgagesHeld'
<1>1. PICK x : x = NextId
  OBVIOUS
<1>2. PICK row : row = MortgageRow(p, item, value)
  OBVIOUS
<1>3. row.player = p /\ row.redeemedBy = 0
  BY <1>2 DEF MortgageRow
<1>4. /\ DOMAIN mortgages' = DOMAIN mortgages \cup {x} /\ x \notin DOMAIN mortgages
      /\ mortgages'[x] = row /\ \A m \in DOMAIN mortgages : mortgages'[m] = mortgages[m]
  <2>1. x \notin DOMAIN mortgages
    <3>1. Len(log) \in Nat /\ DOMAIN mortgages \subseteq 1 .. Len(log)
      BY LenProperties DEF TypeInv, MoneyTyped, EstateTyped, Table
    <3> QED BY <1>1, <3>1 DEF NextId
  <2> QED BY <1>1, <1>2, <2>1 DEF Insert
<1>5. MortgageHeld(x)'
  <2>1. p \in Active'
    BY DEF Active
  <2> QED BY <1>3, <1>4, <2>1 DEF MortgageHeld
<1>6. \A m \in DOMAIN mortgages : MortgageHeld(m)'
  BY <1>4, MortgagesAlone
<1> QED BY <1>4, <1>5, <1>6 DEF MortgagesHeld

\* A mortgage that is redeemed by a transaction of its player.
LEMMA MortgageRedeemed ==
    ASSUME TypeInv, TypeInv', EstateHeld, bankrupt' = bankrupt, NEW tx, log' = Append(log, tx),
           NEW m \in DOMAIN mortgages, mortgages[m].player \in DOMAIN tx.delta,
           mortgages' = Redeemed(m)
    PROVE  MortgagesHeld'
<1>1. PICK x : x = NextId
  OBVIOUS
<1>2. mortgages \in [DOMAIN mortgages -> MortgageRows] /\ mortgages[m] \in MortgageRows
  BY DEF TypeInv, EstateTyped, Table
<1>3. /\ DOMAIN mortgages' = DOMAIN mortgages
      /\ mortgages'[m].state = "REDEEMED" /\ mortgages'[m].redeemedBy = x
      /\ mortgages'[m].player = mortgages[m].player
      /\ \A n \in DOMAIN mortgages \ {m} : mortgages'[n] = mortgages[n]
  BY <1>1, <1>2 DEF Redeemed, MortgageRows
<1>4. x \in DOMAIN log' /\ log'[x] = tx
  BY <1>1, AddedRow
<1>5. MortgageHeld(m)'
  BY <1>3, <1>4 DEF MortgageHeld
<1>6. \A n \in DOMAIN mortgages \ {m} : MortgageHeld(n)'
  BY <1>3, MortgagesAlone
<1> QED BY <1>3, <1>5, <1>6 DEF MortgagesHeld

\* Mortgages taken up and redeemed.
LEMMA MortgagesHoldEstate ==
    ASSUME TypeInv, TypeInv', EstateHeld, MortgageStep
    PROVE  EstateHeld' /\ bankrupt' = bankrupt
<1>0. EstateTyped /\ \A t \in DOMAIN registry : registry[t] \in TileState
  BY RegistryFacts DEF TypeInv
<1>a. ASSUME NEW t \in DOMAIN registry, NEW flag
      PROVE  [registry[t] EXCEPT !.mortgaged = flag].owner = registry[t].owner
  BY <1>0 DEF TileState
<1>1. ASSUME NEW p \in Active, NEW t \in DOMAIN registry, mortgageTile(p, t)
      PROVE  EstateHeld' /\ bankrupt' = bankrupt
  <2> DEFINE d == Gets(p, Tile[t].mortgage)
             c == One(t, mortgageChange(registry[t], TRUE))
             tx == TileTx("MORTGAGE", d, {t}, c)
  <2>1. /\ registry[t].owner = p /\ Deal("MORTGAGE", d, {t}, c)
        /\ mortgages' = Insert(mortgages, MortgageRow(p, t, Tile[t].mortgage))
    BY <1>1 DEF mortgageTile, canMortgage
  <2>2. /\ log' = Append(log, tx) /\ registry' = applyChanges(registry, c) /\ bankrupt' = bankrupt
        /\ tx.changes = c /\ tx.delta = d /\ DOMAIN d = {p}
    <3>1. log' = Append(log, tx) /\ registry' = applyChanges(registry, c) /\ bankrupt' = bankrupt
      BY <2>1 DEF Deal, Commit, Frame
    <3>2. tx.changes = c /\ tx.delta = d
      <4> HIDE DEF c, d
      <4> QED BY DealRow
    <3>3. DOMAIN d = {p}
      BY DEF Gets
    <3> QED BY <3>1, <3>2, <3>3
  <2>3. DOMAIN c = {t} /\ c[t].before.owner = p /\ c[t].after.owner = p
    BY <1>a, <2>1 DEF One, mortgageChange, Change
  <2> HIDE DEF c, d, tx
  <2>4. MortgagesHeld'
    BY <2>1, <2>2, MortgageAdded
  <2>5. Fair(tx)
    BY <2>2, <2>3 DEF Fair
  <2> QED BY <2>2, <2>3, <2>4, <2>5, DealHeld
<1>2. ASSUME NEW p \in Active, NEW name, NEW value, mortgageProperty(p, name, value)
      PROVE  EstateHeld' /\ bankrupt' = bankrupt
  <2> DEFINE tx == Tx("MORTGAGE", Gets(p, value))
  <2>1. /\ log' = Append(log, tx) /\ UNCHANGED <<registry, bankrupt>>
        /\ mortgages' = Insert(mortgages, MortgageRow(p, name, value))
    BY <1>2 DEF mortgageProperty, Commit, Frame
  <2>2. Fair(tx)
    BY DealRow DEF Fair, NoChange
  <2> HIDE DEF tx
  <2>3. MortgagesHeld' /\ LogHeld'
    BY <2>1, <2>2, MortgageAdded, LogStaysFair DEF EstateHeld
  <2>4. TilesHeld'
    BY <2>1 DEF EstateHeld, TilesHeld, Active
  <2> QED BY <2>1, <2>3, <2>4 DEF EstateHeld
<1>3. ASSUME NEW m \in ActiveMortgages, redeemMortgage(m)
      PROVE  EstateHeld' /\ bankrupt' = bankrupt
  <2> DEFINE p == mortgages[m].player
             t == mortgages[m].item
             d == Pays(p, redemptionCost(mortgages[m].value))
             c == One(t, mortgageChange(registry[t], FALSE))
  <2>1. /\ p \in Active /\ mortgages' = Redeemed(m) /\ m \in DOMAIN mortgages /\ DOMAIN d = {p}
        /\ \/ /\ t \in DOMAIN registry /\ registry[t].owner = p
              /\ Deal("MORTGAGE_REDEMPTION", d, {t}, c)
           \/ /\ Commit(Tx("MORTGAGE_REDEMPTION", d)) /\ UNCHANGED <<registry, trades>> /\ Frame
    BY <1>3 DEF redeemMortgage, Pays, ActiveMortgages
  <2>2. CASE t \in DOMAIN registry /\ registry[t].owner = p /\ Deal("MORTGAGE_REDEMPTION", d, {t}, c)
    <3> DEFINE tx == TileTx("MORTGAGE_REDEMPTION", d, {t}, c)
    <3>1. /\ log' = Append(log, tx) /\ registry' = applyChanges(registry, c) /\ bankrupt' = bankrupt
          /\ tx.changes = c /\ tx.delta = d
      <4>1. log' = Append(log, tx) /\ registry' = applyChanges(registry, c) /\ bankrupt' = bankrupt
        BY <2>2 DEF Deal, Commit, Frame
      <4>2. tx.changes = c /\ tx.delta = d
        <5> HIDE DEF c, d
        <5> QED BY DealRow
      <4> QED BY <4>1, <4>2
    <3>2. DOMAIN c = {t} /\ c[t].before.owner = p /\ c[t].after.owner = p
      BY <1>a, <2>2 DEF One, mortgageChange, Change
    <3> HIDE DEF c, d, tx
    <3>3. MortgagesHeld'
      BY <2>1, <3>1, MortgageRedeemed
    <3>4. Fair(tx)
      BY <2>1, <3>1, <3>2 DEF Fair
    <3> QED BY <2>1, <3>1, <3>2, <3>3, <3>4, DealHeld
  <2>3. CASE Commit(Tx("MORTGAGE_REDEMPTION", d)) /\ UNCHANGED <<registry, trades>> /\ Frame
    <3> DEFINE tx == Tx("MORTGAGE_REDEMPTION", d)
    <3>1. log' = Append(log, tx) /\ UNCHANGED <<registry, bankrupt>> /\ tx.delta = d
      BY <2>3, DealRow DEF Commit, Frame
    <3>2. Fair(tx)
      BY DealRow DEF Fair, NoChange
    <3> HIDE DEF d, tx
    <3>3. MortgagesHeld' /\ LogHeld'
      BY <2>1, <3>1, <3>2, MortgageRedeemed, LogStaysFair DEF EstateHeld
    <3>4. TilesHeld'
      BY <3>1 DEF EstateHeld, TilesHeld, Active
    <3> QED BY <3>1, <3>3, <3>4 DEF EstateHeld
  <2> QED BY <2>1, <2>2, <2>3
<1> QED BY <1>1, <1>2, <1>3 DEF MortgageStep

\* A mortgage that follows its tile stands under the tile's new owner.
LEMMA HandedOver ==
    ASSUME TypeInv, TypeInv', EstateHeld, bankrupt' = bankrupt, NEW tx, log' = Append(log, tx),
           NEW c \in ChangeSets, \A t \in DOMAIN c : c[t].after.owner \in Active \cup {Bank},
           NEW m \in DOMAIN mortgages, mortgages'[m] = HandOver(c)[m]
    PROVE  MortgageHeld(m)'
<1>1. PICK t : t = mortgages[m].item
  OBVIOUS
<1>2. mortgages[m] \in MortgageRows /\ MortgageHeld(m)
  BY MortgageFacts DEF TypeInv, EstateHeld, MortgagesHeld
<1>3. CASE /\ mortgages[m].state = "ACTIVE" /\ t \in DOMAIN c
           /\ c[t].before.mortgaged /\ c[t].after.mortgaged
  <2>1. mortgages'[m] = [mortgages[m] EXCEPT !.player = c[t].after.owner]
    BY <1>1, <1>3 DEF HandOver
  <2>2. c[t].after.owner \in Players
    BY <1>3, ChangeSetFacts, TileStateFacts
  <2>3. c[t].after.owner \in Active'
    BY <1>3, <2>2, LedgerAssumption DEF Active
  <2>4. mortgages'[m].player = c[t].after.owner /\ mortgages'[m].redeemedBy = 0
    BY <1>2, <1>3, <2>1 DEF MortgageRows, MortgageHeld
  <2> QED BY <2>3, <2>4 DEF MortgageHeld
<1>4. CASE ~ /\ mortgages[m].state = "ACTIVE" /\ t \in DOMAIN c
             /\ c[t].before.mortgaged /\ c[t].after.mortgaged
  <2>1. mortgages'[m] = mortgages[m]
    BY <1>1, <1>4 DEF HandOver
  <2> QED BY <2>1, MortgagesAlone
<1> QED BY <1>3, <1>4

\* Trades.
LEMMA TradesHoldEstate ==
    ASSUME TypeInv, TypeInv', EstateHeld, TradeStep
    PROVE  EstateHeld' /\ bankrupt' = bankrupt
<1>1. ASSUME NEW r \in DOMAIN trades, acceptTradeRequest(r)
      PROVE  EstateHeld' /\ bankrupt' = bankrupt
  <2> DEFINE x == trades[r]
             tx == transferProperties(x)
             c == TransferChanges(x)
  <2>1. /\ Tradable(x.from, x.to, x.give, x.take) /\ log' = Append(log, tx) /\ bankrupt' = bankrupt
        /\ registry' = applyChanges(registry, c) /\ mortgages' = HandOver(c)
    BY <1>1 DEF acceptTradeRequest, Commit, Frame
  <2>2. /\ x.from \in Active /\ x.to \in Active /\ c \in ChangeSets /\ AskedTyped
        /\ DOMAIN c = x.give \cup x.take
    <3>1. x.cashGive \in Cash /\ x.cashTake \in Cash
      BY TradeFacts DEF TypeInv
    <3> HIDE DEF x
    <3> QED BY <2>1, <3>1, TradeTyped DEF TypeInv
  <2>3. tx.changes = c /\ DOMAIN tx.delta = {x.from, x.to}
    BY DEF transferProperties, Tx, TransferDelta
  <2>4. ASSUME NEW t \in DOMAIN c
        PROVE  c[t].before.owner \in {x.from, x.to} /\ c[t].after.owner \in {x.from, x.to}
    <3>1. t \in x.give \cup x.take /\ t \in DOMAIN registry /\ registry[t].owner \in {x.from, x.to}
      BY <2>1, <2>2 DEF Tradable
    <3>2. registry[t] \in TileState
      BY <3>1, RegistryFacts DEF TypeInv
    <3>3. PICK q : q = IF t \in x.give THEN x.to ELSE x.from
      OBVIOUS
    <3>4. c[t] = ownerChange(registry[t], q) /\ q \in {x.from, x.to} /\ q # Bank
      BY <2>2, <3>1, <3>3, LedgerAssumption DEF TransferChanges, Active
    <3>5. [registry[t] EXCEPT !.owner = q].owner = q
      BY <3>2 DEF TileState
    <3> HIDE DEF c, x
    <3>6. c[t].before = registry[t] /\ c[t].after = [registry[t] EXCEPT !.owner = q]
      BY <3>4 DEF ownerChange, Change
    <3> QED BY <3>1, <3>4, <3>5, <3>6
  <2> HIDE DEF x, tx, c
  <2>5. \A t \in DOMAIN c : c[t].after.owner \in Active \cup {Bank}
    BY <2>2, <2>4
  <2>6. DOMAIN mortgages' = DOMAIN mortgages
    BY <2>1 DEF HandOver
  <2>7. MortgagesHeld'
    BY <2>1, <2>2, <2>5, <2>6, HandedOver DEF MortgagesHeld
  <2>8. Fair(tx)
    BY <2>3, <2>4 DEF Fair
  <2> QED BY <2>1, <2>3, <2>5, <2>7, <2>8, DealHeld
<1>2. ASSUME \/ \E p, q \in Active, give, take \in Sides, cashGive, cashTake \in Cash :
                  createTradeRequest(p, q, give, take, cashGive, cashTake)
             \/ \E r \in DOMAIN trades, state \in {"DECLINED", "CANCELLED"} :
                  resolveTradeRequest(r, state)
             \/ listTradeRequests
      PROVE  EstateHeld' /\ bankrupt' = bankrupt
  <2>1. UNCHANGED <<log, estate, bankrupt>>
    BY <1>2, TradesTalk DEF Frame
  <2> QED BY <2>1, EstateQuiet
<1> QED BY <1>1, <1>2 DEF TradeStep

\* A reversal gives back to participants, who all play on.
LEMMA ReversalHoldsEstate ==
    ASSUME TypeInv, TypeInv', EstateHeld, ReverseStep
    PROVE  EstateHeld' /\ bankrupt' = bankrupt
<1>1. PICK i \in DOMAIN log : reverseTransaction(i)
  BY DEF ReverseStep
<1> DEFINE c == invertChanges(log[i].changes)
           tx == Undoing(i)
<1>2. /\ log[i].type \notin NonReversible /\ DOMAIN log[i].delta \subseteq Active
      /\ log' = Append(log, tx) /\ registry' = applyChanges(registry, c)
      /\ mortgages' = mortgageReversal(i) /\ bankrupt' = bankrupt
  BY <1>1 DEF reverseTransaction, reversibleTransaction, Undoing, Commit, Frame
<1>3. tx.changes = c /\ tx.type \in NonReversible
  BY DEF Undoing, TileTx, Tx, NonReversible
<1>4. Fair(log[i]) /\ log[i].changes \in ChangeSets
  BY <1>2, LogFacts DEF EstateHeld, LogHeld, TypeInv
<1>5. c \in ChangeSets
  BY <1>4, InvertTyped
<1>6. \A t \in DOMAIN c : c[t].after.owner \in Active \cup {Bank}
  BY <1>2, <1>4 DEF invertChanges, Change, Fair
<1> HIDE DEF c, tx
<1>7. ASSUME NEW m \in DOMAIN mortgages PROVE MortgageHeld(m)'
  <2>1. mortgages[m] \in MortgageRows /\ MortgageHeld(m) /\ Active' = Active
    BY <1>2, MortgageFacts DEF TypeInv, EstateHeld, MortgagesHeld, Active
  <2>2. CASE m = i
    <3>1. mortgages'[m] = [mortgages[m] EXCEPT !.state = "RELEASED"]
      BY <1>2, <2>2 DEF mortgageReversal
    <3>2. /\ mortgages'[m].state # "ACTIVE" /\ mortgages'[m].player = mortgages[m].player
          /\ mortgages'[m].redeemedBy = mortgages[m].redeemedBy
      BY <2>1, <3>1 DEF MortgageRows
    <3>3. \E u : log' = Append(log, u)
      BY <1>2
    <3> QED BY <2>1, <3>2, <3>3, MortgageStays
  <2>3. CASE m # i /\ mortgages[m].redeemedBy = i
    <3>1. mortgages'[m] = [mortgages[m] EXCEPT !.state = "ACTIVE", !.redeemedBy = 0]
      BY <1>2, <2>3 DEF mortgageReversal
    <3>2. mortgages'[m].player = mortgages[m].player /\ mortgages'[m].redeemedBy = 0
      BY <2>1, <3>1 DEF MortgageRows
    <3>3. i # 0
      BY LogFacts, LenProperties DEF TypeInv, MoneyTyped
    <3>4. mortgages[m].player \in Active
      BY <1>2, <2>1, <2>3, <3>3 DEF MortgageHeld
    <3> QED BY <2>1, <3>2, <3>4 DEF MortgageHeld
  <2>4. CASE m # i /\ mortgages[m].redeemedBy # i
    <3>1. mortgages'[m] = HandOver(c)[m]
      BY <1>2, <2>4 DEF mortgageReversal, c
    <3> QED BY <1>2, <1>5, <1>6, <3>1, HandedOver
  <2> QED BY <2>2, <2>3, <2>4
<1>8. MortgagesHeld'
  <2>1. DOMAIN mortgages' = DOMAIN mortgages
    BY <1>2 DEF mortgageReversal
  <2> QED BY <1>7, <2>1 DEF MortgagesHeld
<1> QED BY <1>2, <1>3, <1>6, <1>8, DealHeld

\* A bankruptcy passes everything on, to the creditor or the bank.
LEMMA BankruptcyHoldsEstate ==
    ASSUME TypeInv, TypeInv', EstateHeld, NEW p \in Active, NEW heir \in Active \cup {Bank},
           declareBankruptcy(p, heir)
    PROVE  EstateHeld'
<1> DEFINE c == bankruptcyAssets(p, heir)
           tx == TileTx("BANKRUPTCY_TRANSFER", bankruptcyDelta(p, heir), {}, c)
<1>1. /\ p # heir /\ log' = Append(log, tx) /\ bankrupt' = bankrupt \cup {p}
      /\ registry' = applyChanges(registry, c) /\ mortgages' = bankruptMortgages(p, heir)
  BY DEF declareBankruptcy
<1>2. tx.type \in NonReversible
  BY DealRow DEF NonReversible
<1>3. Active' = Active \ {p} /\ heir \in Active' \cup {Bank}
  BY <1>1 DEF Active
<1>4. TilesHeld'
  <2>1. ASSUME NEW t \in DOMAIN registry PROVE registry'[t].owner \in Active' \cup {Bank}
    <3>1. registry[t] \in TileState /\ registry[t].owner \in Active \cup {Bank}
      BY RegistryFacts DEF TypeInv, EstateHeld, TilesHeld
    <3>2. DOMAIN c = Owned(p) /\ registry'[t] = IF t \in DOMAIN c THEN c[t].after ELSE registry[t]
      BY <1>1 DEF bankruptcyAssets, applyChanges
    <3>3. CASE t \in Owned(p)
      <4>1. [registry[t] EXCEPT !.owner = heir, !.houses = 0].owner = heir
        BY <3>1 DEF TileState
      <4>2. c[t].after.owner = heir
        BY <3>3, <4>1 DEF bankruptcyAssets, Change, Unowned
      <4> QED BY <1>3, <3>2, <3>3, <4>2
    <3>4. CASE t \notin Owned(p)
      BY <1>3, <3>1, <3>2, <3>4 DEF Owned
    <3> QED BY <3>3, <3>4
  <2>2. DOMAIN registry' = DOMAIN registry
    BY <1>1 DEF applyChanges
  <2> QED BY <2>1, <2>2 DEF TilesHeld
<1> HIDE DEF tx, c
<1>5. LogHeld'
  BY <1>1, <1>2, LogStaysFair DEF EstateHeld
<1>6. ASSUME NEW m \in DOMAIN mortgages PROVE MortgageHeld(m)'
  <2>1. mortgages[m] \in MortgageRows /\ MortgageHeld(m) /\ \E u : log' = Append(log, u)
    BY <1>1, MortgageFacts DEF TypeInv, EstateHeld, MortgagesHeld
  <2>2. mortgages'[m] = IF m \notin ActiveMortgages \/ mortgages[m].player # p THEN mortgages[m]
                        ELSE IF heir = Bank \/ Clash(m, heir)
                               THEN [mortgages[m] EXCEPT !.state = "RELEASED"]
                               ELSE [mortgages[m] EXCEPT !.player = heir]
    BY <1>1 DEF bankruptMortgages
  <2>3. CASE m \notin ActiveMortgages \/ mortgages[m].player # p
    <3>1. mortgages[m].state = "ACTIVE" => mortgages[m].player \in Active'
      BY <1>3, <2>1, <2>3 DEF MortgageHeld, ActiveMortgages
    <3> QED BY <2>1, <2>2, <2>3, <3>1, MortgageStays
  <2>4. CASE m \in ActiveMortgages /\ mortgages[m].player = p /\ (heir = Bank \/ Clash(m, heir))
    <3>1. /\ mortgages'[m].state # "ACTIVE" /\ mortgages'[m].player = mortgages[m].player
          /\ mortgages'[m].redeemedBy = mortgages[m].redeemedBy
      BY <2>1, <2>2, <2>4 DEF MortgageRows
    <3> QED BY <2>1, <3>1, MortgageStays
  <2>5. CASE m \in ActiveMortgages /\ mortgages[m].player = p /\ ~(heir = Bank \/ Clash(m, heir))
    <3>1. /\ mortgages'[m].player = heir /\ mortgages'[m].redeemedBy = mortgages[m].redeemedBy
          /\ mortgages[m].state = "ACTIVE"
      BY <2>1, <2>2, <2>5 DEF MortgageRows, ActiveMortgages
    <3>2. mortgages[m].redeemedBy = 0 /\ heir \in Active'
      BY <1>3, <2>1, <2>5, <3>1 DEF MortgageHeld
    <3> QED BY <3>1, <3>2 DEF MortgageHeld
  <2> QED BY <2>3, <2>4, <2>5
<1>7. MortgagesHeld'
  <2>1. DOMAIN mortgages' = DOMAIN mortgages
    BY <1>1 DEF bankruptMortgages
  <2> QED BY <1>6, <2>1 DEF MortgagesHeld
<1> QED BY <1>4, <1>5, <1>7 DEF EstateHeld

-----------------------------------------------------------------------------
(* The bankrupt hold nothing: loans, trades and wallets *)

\* No running loan has a bankrupt party.
LoansHeld ==
  \A l \in DOMAIN loans :
    loans[l].state = "ACTIVE" => loans[l].lender \notin bankrupt /\ loans[l].borrower \notin bankrupt

\* No trade that could still be accepted has one either.
TradesHeld ==
  \A r \in DOMAIN trades :
    trades[r].state = "PENDING" => trades[r].from \notin bankrupt /\ trades[r].to \notin bankrupt

WalletsHeld == \A p \in bankrupt : wallet[p] = 0

\* The steps that leave the loans alone.
LEMMA CreditQuiet ==
    ASSUME \/ MoneyStep \/ RequestStep \/ TileStep \/ BuildingStep \/ MortgageStep
           \/ TradeStep \/ ReverseStep \/ Tick
           \/ \E p, q \in Active, a \in Amounts : createLoanRequest(p, q, a)
    PROVE  UNCHANGED <<loans, repayments, bankrupt>>
<1>1. MoneyStep => UNCHANGED <<loans, repayments, bankrupt>>
  BY DEF MoneyStep, passGo, playerToBank, bankToPlayer, playerToAll, allToPlayer, toJackpot,
         jackpotPayout, auctionPayment, playerToPlayer, Plain, Rest, credit
<1>2. RequestStep => UNCHANGED <<loans, repayments, bankrupt>>
  BY DEF RequestStep, requestPayment, requestFromAll, createConfirmationRequests, acceptPayment,
         settle, resolvePaymentRequest, listPaymentRequests, Rest, credit
<1>3. Frame => UNCHANGED <<loans, repayments, bankrupt>>
  BY DEF Frame, credit
<1>4. TileStep => Frame
  BY DEF TileStep, propertyPurchase, payRent, Deal
<1>5. BuildingStep => Frame
  BY DEF BuildingStep, building, Deal
<1>6. MortgageStep => Frame
  BY DEF MortgageStep, mortgageTile, mortgageProperty, redeemMortgage, Deal
<1>7. TradeStep => Frame
  <2>1. \A r : acceptTradeRequest(r) => Frame
    BY DEF acceptTradeRequest
  <2> QED BY <2>1, TradesTalk DEF TradeStep
<1>8. ReverseStep => Frame
  BY DEF ReverseStep, reverseTransaction
<1>9. Tick => UNCHANGED <<loans, repayments, bankrupt>>
  BY DEF Tick, credit
<1>10. ASSUME NEW p, NEW q, NEW a, createLoanRequest(p, q, a)
       PROVE  UNCHANGED <<loans, repayments, bankrupt>>
  BY <1>10 DEF createLoanRequest, Rest, credit
<1> QED BY <1>1, <1>2, <1>3, <1>4, <1>5, <1>6, <1>7, <1>8, <1>9, <1>10

\* What a step on loans does to them: a new one between parties who play on, or
\* an amount repaid.
LoanMade ==
  \E lender \in Active \cup {Bank}, borrower \in Active, a \in Amounts :
    loans' = Insert(loans, Loan(lender, borrower, a))

LoanPaid ==
  \E l \in ActiveLoans : \E a \in Nat :
    a <= loans[l].principal - loans[l].repaid /\ loans' = Repaid(l, a)

\* Those are all the steps on loans.
LEMMA LoanMoves ==
    ASSUME TypeInv, LoanStep \/ BankLoanStep
    PROVE  /\ bankrupt' = bankrupt
           /\ loans' = loans \/ LoanMade \/ LoanPaid
<1>1. ASSUME NEW p \in Active, NEW q \in Active, NEW a \in Amounts, createLoanRequest(p, q, a)
      PROVE  bankrupt' = bankrupt /\ loans' = loans
  BY <1>1, CreditQuiet
<1>2. ASSUME NEW r \in DOMAIN requests, NEW later, acceptLoan(r, later)
      PROVE  bankrupt' = bankrupt /\ LoanMade
  <2>1. /\ bankrupt' = bankrupt /\ requests[r].payer \in Active /\ requests[r].recipient \in Active
        /\ loans' = Insert(loans, Loan(requests[r].payer, requests[r].recipient, requests[r].amount))
    BY <1>2 DEF acceptLoan, settle
  <2>2. requests[r].amount \in Amounts
    BY RequestDelta DEF RequestRows
  <2> QED BY <2>1, <2>2 DEF LoanMade
<1>3. ASSUME NEW l \in ActiveLoans, NEW a \in Amounts, repayLoan(l, a)
      PROVE  bankrupt' = bankrupt /\ LoanPaid
  <2>1. a \in Nat
    BY AmountsAssumption
  <2> QED BY <1>3, <2>1 DEF repayLoan, CreditFrame, LoanPaid
<1>4. ASSUME NEW p \in Active, NEW a \in Amounts, NEW ack, issueBankLoan(p, a, ack)
      PROVE  bankrupt' = bankrupt /\ LoanMade
  BY <1>4 DEF issueBankLoan, CreditFrame, LoanMade
<1>5. ASSUME NEW l \in BankLoans, NEW rate, repayBankLoan(l, rate)
      PROVE  bankrupt' = bankrupt /\ LoanPaid
  <2> DEFINE owed == loans[l].principal - loans[l].repaid
  <2>1. l \in ActiveLoans /\ l \in DOMAIN loans
    BY DEF BankLoans, ActiveLoans
  <2>2. owed \in Nat
    BY <2>1, LoanFacts DEF TypeInv
  <2>3. bankrupt' = bankrupt /\ loans' = Repaid(l, owed)
    BY <1>5 DEF repayBankLoan, CreditFrame
  <2> QED BY <2>1, <2>2, <2>3 DEF LoanPaid
<1> QED BY <1>1, <1>2, <1>3, <1>4, <1>5 DEF LoanStep, BankLoanStep

\* One loan more.
LEMMA LoanAdded ==
    ASSUME TypeInv, NEW row, loans' = Insert(loans, row)
    PROVE  /\ DOMAIN loans' = DOMAIN loans \cup {NextId} /\ NextId \notin DOMAIN loans
           /\ loans'[NextId] = row /\ \A l \in DOMAIN loans : loans'[l] = loans[l]
<1>1. NextId \notin DOMAIN loans
  <2>1. Len(log) \in Nat /\ DOMAIN loans \subseteq 1 .. Len(log)
    BY LenProperties DEF TypeInv, MoneyTyped, CreditTyped, Table
  <2> QED BY <2>1 DEF NextId
<1> QED BY <1>1 DEF Insert

\* One loan repaid by an amount.
LEMMA LoanReduced ==
    ASSUME TypeInv, NEW l \in DOMAIN loans, NEW a \in Nat, loans' = Repaid(l, a)
    PROVE  /\ DOMAIN loans' = DOMAIN loans
           /\ \A k \in DOMAIN loans \ {l} : loans'[k] = loans[k]
           /\ loans'[l].lender = loans[l].lender /\ loans'[l].borrower = loans[l].borrower
           /\ loans'[l].principal = loans[l].principal
           /\ loans'[l].repaid = loans[l].repaid + a
           /\ loans'[l].state = IF loans[l].repaid + a = loans[l].principal
                                  THEN "REPAID" ELSE loans[l].state
<1>1. loans[l] \in LoanRows /\ loans \in [DOMAIN loans -> LoanRows]
  BY LoanFacts DEF TypeInv, CreditTyped, Table
<1> QED BY <1>1 DEF Repaid, LoanRows

\* Loans.
LEMMA LoansStayHeld ==
    ASSUME TypeInv, LoansHeld, [Next]_vars
    PROVE  LoansHeld'
<1>1. ASSUME UNCHANGED <<loans, bankrupt>> PROVE LoansHeld'
  BY <1>1 DEF LoansHeld
<1>2. LoanStep \/ BankLoanStep => LoansHeld'
  <2>1. ASSUME bankrupt' = bankrupt, LoanMade PROVE LoansHeld'
    <3>1. PICK lender \in Active \cup {Bank}, borrower \in Active, a \in Amounts :
            loans' = Insert(loans, Loan(lender, borrower, a))
      BY <2>1 DEF LoanMade
    <3>2. PICK row : row = Loan(lender, borrower, a)
      OBVIOUS
    <3>3. row.lender = lender /\ row.borrower = borrower
      BY <3>2 DEF Loan
    <3>4. lender \notin bankrupt /\ borrower \notin bankrupt
      BY LedgerAssumption DEF Active, TypeInv, TableTyped
    <3>5. PICK x : x = NextId
      OBVIOUS
    <3>6. /\ DOMAIN loans' = DOMAIN loans \cup {x} /\ loans'[x] = row
          /\ \A l \in DOMAIN loans : loans'[l] = loans[l]
      BY <3>1, <3>2, <3>5, LoanAdded
    <3> QED BY <2>1, <3>3, <3>4, <3>6 DEF LoansHeld
  <2>2. ASSUME bankrupt' = bankrupt, LoanPaid PROVE LoansHeld'
    <3>1. PICK l \in ActiveLoans, a \in Nat : loans' = Repaid(l, a)
      BY <2>2 DEF LoanPaid
    <3>2. l \in DOMAIN loans /\ loans[l].state = "ACTIVE"
      BY DEF ActiveLoans
    <3>3. /\ DOMAIN loans' = DOMAIN loans
          /\ \A k \in DOMAIN loans \ {l} : loans'[k] = loans[k]
          /\ loans'[l].lender = loans[l].lender /\ loans'[l].borrower = loans[l].borrower
      BY <3>1, <3>2, LoanReduced
    <3> QED BY <2>2, <3>2, <3>3 DEF LoansHeld
  <2> QED BY <1>1, <2>1, <2>2, LoanMoves
<1>3. BankruptcyStep => LoansHeld'
  <2>1. ASSUME NEW p \in Active, NEW heir \in Active \cup {Bank}, declareBankruptcy(p, heir)
        PROVE  LoansHeld'
    <3>1. p # heir /\ bankrupt' = bankrupt \cup {p} /\ loans' = [l \in DOMAIN loans |-> LoanAfter(p, heir, l)]
      BY <2>1, BankruptLoanFacts DEF declareBankruptcy
    <3>2. heir \notin bankrupt'
      BY <3>1, LedgerAssumption DEF Active, TypeInv, TableTyped
    <3>3. ASSUME NEW l \in DOMAIN loans, loans'[l].state = "ACTIVE"
          PROVE  loans'[l].lender \notin bankrupt' /\ loans'[l].borrower \notin bankrupt'
      <4>1. loans'[l] = LoanAfter(p, heir, l) /\ loans[l] \in LoanRows
        BY <3>1, LoanFacts DEF TypeInv
      <4>2. CASE l \notin ActiveLoans \/ p \notin {loans[l].borrower, loans[l].lender}
        <5>1. loans'[l] = loans[l]
          BY <4>1, <4>2 DEF LoanAfter
        <5> QED BY <3>1, <3>3, <4>2, <5>1 DEF LoansHeld, ActiveLoans
      <4>3. CASE l \in ActiveLoans /\ loans[l].borrower = p
        <5>1. PICK paid : paid = PaidFor(p, l)
          OBVIOUS
        <5>2. PICK s : s = IF loans[l].repaid + paid = loans[l].principal
                             THEN "REPAID" ELSE "WRITTEN_OFF"
          OBVIOUS
        <5>3. loans'[l] = [loans[l] EXCEPT !.repaid = loans[l].repaid + paid, !.state = s]
          BY <4>1, <4>3, <5>1, <5>2 DEF LoanAfter
        <5> QED BY <3>3, <4>1, <5>2, <5>3 DEF LoanRows
      <4>4. CASE l \in ActiveLoans /\ loans[l].borrower # p /\ loans[l].lender = p
        <5>1. loans[l].borrower \notin bankrupt'
          BY <3>1, <4>4 DEF LoansHeld, ActiveLoans
        <5>2. CASE heir \notin {Bank, loans[l].borrower}
          <6>1. loans'[l] = [loans[l] EXCEPT !.lender = heir]
            BY <4>1, <4>4, <5>2 DEF LoanAfter
          <6> QED BY <3>2, <4>1, <5>1, <6>1 DEF LoanRows
        <5>3. CASE ~(heir \notin {Bank, loans[l].borrower})
          <6>1. loans'[l] = [loans[l] EXCEPT !.state = "WRITTEN_OFF"]
            BY <4>1, <4>4, <5>3 DEF LoanAfter
          <6> QED BY <3>3, <4>1, <6>1 DEF LoanRows
        <5> QED BY <5>2, <5>3
      <4> QED BY <4>2, <4>3, <4>4
    <3> QED BY <3>1, <3>3 DEF LoansHeld
  <2> QED BY <2>1 DEF BankruptcyStep
<1>4. UNCHANGED vars => UNCHANGED <<loans, bankrupt>>
  BY DEF vars, credit
<1>5. \/ MoneyStep \/ RequestStep \/ TileStep \/ BuildingStep \/ MortgageStep
      \/ TradeStep \/ ReverseStep \/ Tick
      => LoansHeld'
  BY <1>1, CreditQuiet
<1>6. Next => LoansHeld'
  BY <1>2, <1>3, <1>5 DEF Next
<1> QED BY <1>1, <1>4, <1>6

\* Trades.
LEMMA TradesStayHeld ==
    ASSUME TypeInv, TradesHeld, [Next]_vars
    PROVE  TradesHeld'
<1>1. ASSUME bankrupt' = bankrupt, NotTrading \/ \E r \in DOMAIN trades : Trading(r)
      PROVE  TradesHeld'
  <2>1. ASSUME NEW r \in DOMAIN trades', trades'[r].state = "PENDING"
        PROVE  trades'[r].from \notin bankrupt' /\ trades'[r].to \notin bankrupt'
    <3>1. CASE r \in DOMAIN trades
      <4>1. trades'[r] = trades[r]
        BY <1>1, <2>1, <3>1 DEF NotTrading, Trading, SameTrade, ClosedTrade
      <4> QED BY <1>1, <2>1, <3>1, <4>1 DEF TradesHeld
    <3>2. CASE r \notin DOMAIN trades
      <4>1. {trades'[r].from, trades'[r].to} \subseteq Active
        BY <1>1, <3>2 DEF NotTrading, Trading
      <4> QED BY <1>1, <4>1 DEF Active
    <3> QED BY <3>1, <3>2
  <2> QED BY <2>1 DEF TradesHeld
<1>2. CASE UNCHANGED vars
  BY <1>2 DEF vars, TradesHeld
<1>3. BankruptcyStep => TradesHeld'
  <2>1. ASSUME NEW p, NEW heir, declareBankruptcy(p, heir) PROVE TradesHeld'
    <3>1. trades' = bankruptTrades(p) /\ bankrupt' = bankrupt \cup {p}
      BY <2>1 DEF declareBankruptcy
    <3>2. ASSUME NEW r \in DOMAIN trades, trades'[r].state = "PENDING"
          PROVE  trades'[r].from \notin bankrupt' /\ trades'[r].to \notin bankrupt'
      <4>1. trades[r] \in TradeRows
        BY TradeFacts DEF TypeInv
      <4>2. trades'[r] = trades[r] /\ p \notin {trades[r].from, trades[r].to}
        BY <3>1, <3>2, <4>1 DEF bankruptTrades, TradeRows
      <4> QED BY <3>1, <3>2, <4>2 DEF TradesHeld
    <3>3. DOMAIN trades' = DOMAIN trades
      BY <3>1 DEF bankruptTrades
    <3> QED BY <3>2, <3>3 DEF TradesHeld
  <2> QED BY <2>1 DEF BankruptcyStep
<1>4. Next => BankruptcyStep \/ bankrupt' = bankrupt
  BY CreditQuiet, LoanMoves DEF Next
<1> QED BY <1>1, <1>2, <1>3, <1>4, TradingSteps

\* Wallets: no transaction has a bankrupt participant.
LEMMA WalletsStayHeld ==
    ASSUME TypeInv, WalletsHeld, [Next]_vars
    PROVE  WalletsHeld'
<1>1. bankrupt \subseteq Players
  BY DEF TypeInv, TableTyped
<1>2. ASSUME NEW tx, Entered(tx), NEW q \in bankrupt PROVE wallet'[q] = 0
  <2>1. q \in Players /\ q \notin DOMAIN tx.delta
    BY <1>1, <1>2 DEF Entered, Active
  <2>2. wallet'[q] = wallet[q]
    BY <1>2, <2>1 DEF Entered, After
  <2> QED BY <2>2 DEF WalletsHeld
<1>3. CASE UNCHANGED vars
  BY <1>3 DEF vars, money, WalletsHeld
<1>4. ASSUME bankrupt' = bankrupt, Next PROVE WalletsHeld'
  BY <1>2, <1>4, BookStep DEF WalletsHeld, money
<1>5. BankruptcyStep => WalletsHeld'
  <2>1. ASSUME NEW p \in Active, NEW heir \in Active \cup {Bank}, declareBankruptcy(p, heir)
        PROVE  WalletsHeld'
    <3> DEFINE d == bankruptcyDelta(p, heir)
    <3>1. bankrupt' = bankrupt \cup {p} /\ wallet' = [After(d) EXCEPT ![p] = 0]
      BY <2>1 DEF declareBankruptcy
    <3> HIDE DEF d
    <3>2. wallet'[p] = 0
      BY <3>1 DEF After, Active
    <3>3. \A q \in bankrupt : wallet'[q] = 0
      BY <1>2, <2>1, BankruptcyEntered
    <3> QED BY <3>1, <3>2, <3>3 DEF WalletsHeld
  <2> QED BY <2>1 DEF BankruptcyStep
<1>6. Next => BankruptcyStep \/ bankrupt' = bankrupt
  BY CreditQuiet, LoanMoves DEF Next
<1> QED BY <1>3, <1>4, <1>5, <1>6

\* Nothing a bankrupt player had, in any table.
HoldInv == EstateHeld /\ LoansHeld /\ TradesHeld /\ WalletsHeld

\* At first nobody is bankrupt.
LEMMA InitHolds == Init => HoldInv
<1> SUFFICES ASSUME Init PROVE HoldInv
  OBVIOUS
<1>1. /\ bankrupt = {} /\ DOMAIN log = {} /\ DOMAIN mortgages = {} /\ DOMAIN loans = {}
      /\ DOMAIN trades = {} /\ TypeInv
  BY InitTypes DEF Init
<1>2. TilesHeld
  <2>1. \A t \in DOMAIN registry : registry[t] \in TileState
    BY <1>1, RegistryFacts DEF TypeInv
  <2> QED BY <1>1, <2>1 DEF TilesHeld, TileState, Active
<1> QED BY <1>1, <1>2 DEF HoldInv, EstateHeld, LogHeld, MortgagesHeld, LoansHeld, TradesHeld, WalletsHeld

\* Every step keeps it so.
LEMMA HoldKept == TypeInv /\ TypeInv' /\ HoldInv /\ [Next]_vars => HoldInv'
<1> SUFFICES ASSUME TypeInv, TypeInv', HoldInv, [Next]_vars PROVE HoldInv'
  OBVIOUS
<1>1. EstateHeld
  BY DEF HoldInv
<1>2. EstateHeld'
  <2>1. CASE UNCHANGED vars
    BY <1>1, <2>1, EstateQuiet DEF vars, money
  <2>2. CASE Next
    <3>1. BankruptcyStep => EstateHeld'
      BY <1>1, BankruptcyHoldsEstate DEF BankruptcyStep
    <3> QED BY <1>1, <2>2, <3>1, MoneyHoldsEstate, TilesHoldEstate, MortgagesHoldEstate,
               TradesHoldEstate, ReversalHoldsEstate DEF Next
  <2> QED BY <2>1, <2>2
<1>3. LoansHeld' /\ TradesHeld' /\ WalletsHeld'
  BY LoansStayHeld, TradesStayHeld, WalletsStayHeld DEF HoldInv
<1> QED BY <1>2, <1>3 DEF HoldInv

\* A bankrupt player keeps nothing and owes nothing, and no later operation,
\* reversal or acceptance gives them anything (BankruptHoldNothing).  For the
\* reversals it takes that the tiles a transaction moved were its participants'
\* or the bank's, and that a redeemed mortgage is under a participant.
THEOREM TheBankruptHoldNothing == Spec => []BankruptHoldNothing
<1>1. Spec => []TypeInv
  BY BankTypes, PTL
<1>2. Spec => []HoldInv
  BY <1>1, InitHolds, HoldKept, PTL DEF Spec
<1>3. TypeInv /\ HoldInv => BankruptHoldNothing
  <2> SUFFICES ASSUME TypeInv, HoldInv, NEW p \in bankrupt
               PROVE  /\ wallet[p] = 0
                      /\ Owned(p) = {}
                      /\ \A m \in ActiveMortgages : mortgages[m].player # p
                      /\ \A l \in ActiveLoans : p \notin {loans[l].lender, loans[l].borrower}
                      /\ \A r \in DOMAIN trades :
                           trades[r].state = "PENDING" => p \notin {trades[r].from, trades[r].to}
    BY DEF BankruptHoldNothing
  <2>1. p \notin Active /\ p # Bank
    BY LedgerAssumption DEF Active, TypeInv, TableTyped
  <2>2. Owned(p) = {}
    BY <2>1 DEF Owned, HoldInv, EstateHeld, TilesHeld
  <2>3. \A m \in ActiveMortgages : mortgages[m].player # p
    BY <2>1 DEF ActiveMortgages, HoldInv, EstateHeld, MortgagesHeld, MortgageHeld
  <2>4. \A l \in ActiveLoans : p \notin {loans[l].lender, loans[l].borrower}
    BY DEF ActiveLoans, HoldInv, LoansHeld
  <2>5. \A r \in DOMAIN trades :
          trades[r].state = "PENDING" => p \notin {trades[r].from, trades[r].to}
    BY DEF HoldInv, TradesHeld
  <2>6. wallet[p] = 0
    BY DEF HoldInv, WalletsHeld
  <2> QED BY <2>2, <2>3, <2>4, <2>5, <2>6
<1> QED BY <1>1, <1>2, <1>3, PTL

-----------------------------------------------------------------------------
(* The loans agree with their repayments *)

RepaymentsOf(l) == {y \in repayments : y.loan = l}
RepaidOf(l) == SumFunction([x \in RepaymentsOf(l) |-> x.amount])

\* A request for a loan that its lender accepted.
AskedFor(l) ==
  \E r \in DOMAIN requests :
    requests[r].kind = "LOAN" /\ requests[r].state = "ACCEPTED" /\ requests[r].tx = l

LoanSound(l) ==
  /\ loans[l].repaid = RepaidOf(l)
  /\ loans[l].state = "REPAID" <=> loans[l].repaid = loans[l].principal
  /\ loans[l].lender # Bank => AskedFor(l)

\* Repayments name loans and transactions there are, so a new one is new.
RepaymentsKnown == \A x \in repayments : x.tx \in DOMAIN log /\ x.loan \in DOMAIN loans

OneBankLoan == \A k, l \in BankLoans : loans[k].borrower = loans[l].borrower => k = l

LoanInv == RepaymentsKnown /\ OneBankLoan /\ \A l \in DOMAIN loans : LoanSound(l)

\* What is repaid of a loan is a number, and depends on its repayments only.
LEMMA RepaidOfFacts ==
    ASSUME CreditTyped, NEW l
    PROVE  /\ IsFiniteSet(RepaymentsOf(l)) /\ RepaymentsOf(l) \subseteq RepaymentRows
           /\ [x \in RepaymentsOf(l) |-> x.amount] \in [RepaymentsOf(l) -> Int]
           /\ RepaidOf(l) \in Int
           /\ RepaymentsOf(l) = {} => RepaidOf(l) = 0
<1> DEFINE S == RepaymentsOf(l)
           f == [x \in S |-> x.amount]
<1>1. IsFiniteSet(S) /\ S \subseteq RepaymentRows
  <2>1. S \subseteq repayments /\ IsFiniteSet(repayments) /\ repayments \subseteq RepaymentRows
    BY DEF RepaymentsOf, CreditTyped
  <2> QED BY <2>1, FS_Subset
<1>2. f \in [S -> Int]
  <2>1. \A x \in S : x.amount \in Int
    BY <1>1 DEF RepaymentRows
  <2> QED BY <2>1
<1>3. S = {} => DOMAIN f = {}
  OBVIOUS
<1> HIDE DEF f, S
<1>4. SumFunction(f) \in Int
  BY <1>1, <1>2, FunctionSumType
<1>5. S = {} => SumFunction(f) = 0
  BY <1>3, FunctionSumEmpty
<1> QED BY <1>1, <1>2, <1>4, <1>5 DEF f, S, RepaidOf

\* One repayment more adds its amount.
LEMMA RepaidOfMore ==
    ASSUME TypeInv, TypeInv', NEW l, NEW x \in RepaymentRows, x \notin repayments,
           RepaymentsOf(l)' = RepaymentsOf(l) \cup {x}
    PROVE  RepaidOf(l)' = RepaidOf(l) + x.amount
<1> DEFINE S == RepaymentsOf(l)
           f == [y \in S |-> y.amount]
<1>1. PICK g : g = [y \in RepaymentsOf(l)' |-> y.amount]
  OBVIOUS
<1>2. IsFiniteSet(S) /\ S \subseteq RepaymentRows /\ f \in [S -> Int] /\ x \notin S
  BY RepaidOfFacts DEF TypeInv, RepaymentsOf
<1>3. g \in [S \cup {x} -> Int] /\ (\A y \in S : g[y] = f[y]) /\ g[x] = x.amount
  <2>1. \A y \in S \cup {x} : y.amount \in Int
    BY <1>2 DEF RepaymentRows
  <2>2. g = [y \in S \cup {x} |-> y.amount]
    BY <1>1
  <2> QED BY <2>1, <2>2
<1>4. SumFunction(f) = RepaidOf(l) /\ SumFunction(g) = RepaidOf(l)'
  BY <1>1 DEF RepaidOf
<1> HIDE DEF f, S
<1>5. SumFunction(g) = SumFunction(f) + g[x]
  BY <1>2, <1>3, FunctionSumOneMore
<1> QED BY <1>3, <1>4, <1>5

\* The same repayments, the same sum.
LEMMA RepaidOfSame ==
    ASSUME NEW l, RepaymentsOf(l)' = RepaymentsOf(l)
    PROVE  RepaidOf(l)' = RepaidOf(l)
  BY DEF RepaidOf

\* An accepted request stays what it is.
LEMMA AcceptedStays ==
    ASSUME TypeInv, [Next]_vars, NEW l, AskedFor(l)
    PROVE  AskedFor(l)'
<1>1. PICK r \in DOMAIN requests :
        requests[r].kind = "LOAN" /\ requests[r].state = "ACCEPTED" /\ requests[r].tx = l
  BY DEF AskedFor
<1>2. r \in DOMAIN requests' /\ requests'[r] = requests[r]
  <2>1. CASE UNCHANGED vars
    BY <2>1 DEF vars
  <2>2. CASE Unsettling
    BY <1>1, <2>2 DEF Unsettling, Kept, Expired, Resolved, Pending
  <2>3. ASSUME NEW s \in DOMAIN requests, Settling(s)
        PROVE  r \in DOMAIN requests' /\ requests'[r] = requests[r]
    BY <1>1, <2>3 DEF Settling, Kept, Expired, Pending
  <2> QED BY <2>1, <2>2, <2>3, SettlingSteps
<1> QED BY <1>1, <1>2 DEF AskedFor

\* A step that leaves loans and repayments alone.
LEMMA LoansQuiet ==
    ASSUME TypeInv, TypeInv', LoanInv, [Next]_vars, UNCHANGED <<loans, repayments>>,
           log' = log \/ \E tx : log' = Append(log, tx)
    PROVE  LoanInv'
<1>1. RepaymentsKnown'
  BY LogKept DEF LoanInv, RepaymentsKnown
<1>2. OneBankLoan'
  BY DEF LoanInv, OneBankLoan, BankLoans, ActiveLoans
<1>3. ASSUME NEW l \in DOMAIN loans PROVE LoanSound(l)'
  <2>1. LoanSound(l) /\ RepaidOf(l)' = RepaidOf(l)
    BY RepaidOfSame DEF LoanInv, RepaymentsOf
  <2> QED BY <2>1, AcceptedStays DEF LoanSound
<1> QED BY <1>1, <1>2, <1>3 DEF LoanInv

\* A loan is made: by the bank to somebody who has none of it, or for a request
\* that is accepted with it.
LEMMA NewLoan ==
    ASSUME TypeInv, TypeInv', LoanInv, [Next]_vars, \E tx : log' = Append(log, tx),
           NEW lender, NEW borrower, NEW a \in Amounts,
           loans' = Insert(loans, Loan(lender, borrower, a)), repayments' = repayments,
           lender = Bank => bankLoanOf(borrower) = {},
           lender # Bank => \E r \in DOMAIN requests' :
             requests'[r].kind = "LOAN" /\ requests'[r].state = "ACCEPTED" /\ requests'[r].tx = NextId
    PROVE  LoanInv'
<1>1. PICK n : n = NextId
  OBVIOUS
<1>2. PICK row : row = Loan(lender, borrower, a)
  OBVIOUS
<1>3. /\ row.lender = lender /\ row.borrower = borrower /\ row.principal = a /\ row.repaid = 0
      /\ row.state = "ACTIVE"
  BY <1>2 DEF Loan
<1>4. /\ DOMAIN loans' = DOMAIN loans \cup {n} /\ n \notin DOMAIN loans
      /\ loans'[n] = row /\ \A l \in DOMAIN loans : loans'[l] = loans[l]
  BY <1>1, <1>2, LoanAdded
<1>5. RepaymentsKnown'
  BY <1>4, LogKept DEF LoanInv, RepaymentsKnown
<1>6. OneBankLoan'
  <2>1. BankLoans' = IF lender = Bank THEN BankLoans \cup {n} ELSE BankLoans
    BY <1>3, <1>4 DEF BankLoans, ActiveLoans
  <2>2. BankLoans \subseteq DOMAIN loans /\ OneBankLoan
    BY DEF BankLoans, ActiveLoans, LoanInv
  <2>3. lender = Bank => \A l \in BankLoans : loans[l].borrower # borrower
    BY DEF bankLoanOf
  <2>4. \A l \in BankLoans : loans'[l].borrower = loans[l].borrower
    BY <1>4, <2>2
  <2> QED BY <1>3, <1>4, <2>1, <2>2, <2>3, <2>4 DEF OneBankLoan
<1>7. ASSUME NEW l \in DOMAIN loans PROVE LoanSound(l)'
  <2>1. LoanSound(l) /\ RepaidOf(l)' = RepaidOf(l) /\ loans'[l] = loans[l]
    BY <1>4, RepaidOfSame DEF LoanInv, RepaymentsOf
  <2> QED BY <2>1, AcceptedStays DEF LoanSound
<1>8. LoanSound(n)'
  <2>1. RepaymentsOf(n)' = {}
    BY <1>4 DEF RepaymentsOf, LoanInv, RepaymentsKnown
  <2>2. RepaidOf(n)' = 0
    <3>1. \A x \in {} : x.amount = 0
      OBVIOUS
    <3>2. PICK g : g = [x \in RepaymentsOf(n)' |-> x.amount]
      OBVIOUS
    <3>3. DOMAIN g = {} /\ RepaidOf(n)' = SumFunction(g)
      BY <2>1, <3>2 DEF RepaidOf
    <3> QED BY <3>3, FunctionSumEmpty
  <2>3. a # 0
    BY AmountsAssumption
  <2>4. lender # Bank => AskedFor(n)'
    BY <1>1 DEF AskedFor
  <2> QED BY <1>3, <1>4, <2>2, <2>3, <2>4 DEF LoanSound
<1> QED BY <1>4, <1>5, <1>6, <1>7, <1>8 DEF LoanInv

\* A running loan is repaid by an amount.
LEMMA LoanRepaid ==
    ASSUME TypeInv, TypeInv', LoanInv, [Next]_vars, \E tx : log' = Append(log, tx),
           NEW l \in ActiveLoans, NEW a \in Nat, NEW i \in Nat, loans' = Repaid(l, a),
           repayments' = repayments \cup {Repayment(l, a, i)}
    PROVE  LoanInv'
<1>1. PICK n : n = NextId
  OBVIOUS
<1>2. PICK x : x = Repayment(l, a, i)
  OBVIOUS
<1>3. l \in DOMAIN loans /\ loans[l].state = "ACTIVE"
  BY DEF ActiveLoans
<1>4. n \in DOMAIN log' /\ n \notin DOMAIN log
  BY <1>1, AddedRow
<1>5. x.tx = n /\ x.loan = l /\ x.amount = a
  BY <1>1, <1>2 DEF Repayment
<1>6. x \in RepaymentRows /\ x \notin repayments /\ repayments' = repayments \cup {x}
  <2>1. x \notin repayments
    BY <1>4, <1>5 DEF LoanInv, RepaymentsKnown
  <2>2. x \in RepaymentRows
    BY <1>2 DEF TypeInv, CreditTyped
  <2> QED BY <1>2, <2>1, <2>2
<1>7. /\ DOMAIN loans' = DOMAIN loans
      /\ \A k \in DOMAIN loans \ {l} : loans'[k] = loans[k]
      /\ loans'[l].lender = loans[l].lender /\ loans'[l].borrower = loans[l].borrower
      /\ loans'[l].principal = loans[l].principal
      /\ loans'[l].repaid = loans[l].repaid + a
      /\ loans'[l].state = IF loans[l].repaid + a = loans[l].principal
                             THEN "REPAID" ELSE "ACTIVE"
  BY <1>3, LoanReduced
<1>8. RepaymentsKnown'
  BY <1>3, <1>4, <1>5, <1>6, <1>7, LogKept DEF LoanInv, RepaymentsKnown
<1>9. OneBankLoan'
  <2>1. BankLoans' \subseteq BankLoans
    BY <1>3, <1>7 DEF BankLoans, ActiveLoans
  <2>2. \A k \in BankLoans : loans'[k].borrower = loans[k].borrower
    BY <1>7 DEF BankLoans, ActiveLoans
  <2> QED BY <2>1, <2>2 DEF OneBankLoan, LoanInv
<1>10. ASSUME NEW k \in DOMAIN loans, k # l PROVE LoanSound(k)'
  <2>1. RepaymentsOf(k)' = RepaymentsOf(k)
    BY <1>5, <1>6, <1>10 DEF RepaymentsOf
  <2>2. LoanSound(k) /\ RepaidOf(k)' = RepaidOf(k) /\ loans'[k] = loans[k]
    BY <1>7, <1>10, <2>1, RepaidOfSame DEF LoanInv
  <2> QED BY <2>2, AcceptedStays DEF LoanSound
<1>11. LoanSound(l)'
  <2>1. RepaymentsOf(l)' = RepaymentsOf(l) \cup {x}
    BY <1>5, <1>6 DEF RepaymentsOf
  <2>2. RepaidOf(l)' = RepaidOf(l) + a
    BY <1>5, <1>6, <2>1, RepaidOfMore
  <2>3. LoanSound(l)
    BY <1>3 DEF LoanInv
  <2> QED BY <1>3, <1>7, <2>2, <2>3, AcceptedStays DEF LoanSound
<1> QED BY <1>7, <1>8, <1>9, <1>10, <1>11 DEF LoanInv

\* What the bank takes of a bankrupt is recorded, loan by loan.
LEMMA SettlementsRecorded ==
    ASSUME TypeInv, TypeInv', LoanInv, NEW p \in Active, NEW l \in DOMAIN loans,
           repayments' = repayments \cup {s \in Settlements(p) : s.amount > 0}
    PROVE  /\ RepaidOf(l)' = RepaidOf(l) + PaidFor(p, l)
           /\ l \notin bankLoanOf(p) => PaidFor(p, l) = 0
<1>0. p \in Players
  BY DEF Active
<1>1. PICK cash : cash = wallet[p] + proceeds(p)
  OBVIOUS
<1>2. /\ Settlements(p) \subseteq RepaymentRows
      /\ \A s \in Settlements(p) : /\ s.tx = NextId /\ s.loan \in bankLoanOf(p)
                                   /\ s = settleBankLoan(s.loan, cash) /\ s.amount \in Nat
  BY <1>0, <1>1, SettlementsFacts
<1>3. RepaidOf(l) \in Int
  BY RepaidOfFacts DEF TypeInv
<1>4. /\ l \notin bankLoanOf(p) => PaidFor(p, l) = 0
      /\ \A s \in Settlements(p) : s.loan = l => PaidFor(p, l) = s.amount
      /\ PaidFor(p, l) \in Nat
  BY <1>0, PaidFacts
<1>5. CASE \E s \in Settlements(p) : s.loan = l /\ s.amount > 0
  <2>1. PICK s \in Settlements(p) : s.loan = l /\ s.amount > 0
    BY <1>5
  <2>2. \A u \in Settlements(p) : u.loan = l => u = s
    BY <1>2, <2>1
  <2>3. s \in RepaymentRows /\ s \notin repayments
    <3>1. NextId \notin DOMAIN log
      BY LenProperties DEF TypeInv, MoneyTyped, NextId
    <3> QED BY <1>2, <3>1 DEF LoanInv, RepaymentsKnown
  <2>4. RepaymentsOf(l)' = RepaymentsOf(l) \cup {s}
    BY <2>1, <2>2 DEF RepaymentsOf
  <2>5. RepaidOf(l)' = RepaidOf(l) + s.amount
    BY <2>3, <2>4, RepaidOfMore
  <2> QED BY <1>4, <2>1, <2>5
<1>6. CASE ~ \E s \in Settlements(p) : s.loan = l /\ s.amount > 0
  <2>1. RepaymentsOf(l)' = RepaymentsOf(l)
    BY <1>6 DEF RepaymentsOf
  <2>2. RepaidOf(l)' = RepaidOf(l)
    BY <2>1, RepaidOfSame
  <2>3. PaidFor(p, l) = 0
    <3>1. CASE l \notin bankLoanOf(p)
      BY <1>4, <3>1
    <3>2. CASE l \in bankLoanOf(p)
      <4>1. PICK s : s = settleBankLoan(l, cash)
        OBVIOUS
      <4>2. cash \in Nat
        BY <1>0, <1>1, SettlementsFacts
      <4>3. s \in Settlements(p) /\ s.loan = l
        BY <1>0, <1>1, <3>2, <4>1, <4>2, SettlementsFacts, SettlementFacts
      <4> QED BY <1>2, <1>4, <1>6, <4>3
    <3> QED BY <3>1, <3>2
  <2> QED BY <1>3, <1>4, <2>2, <2>3
<1> QED BY <1>4, <1>5, <1>6

\* A bankruptcy settles, forgives and passes on, and the loans still agree.
LEMMA BankruptcyKeepsLoans ==
    ASSUME TypeInv, TypeInv', LoanInv, [Next]_vars, NEW p \in Active,
           NEW heir \in Active \cup {Bank}, declareBankruptcy(p, heir)
    PROVE  LoanInv'
<1>1. /\ \E tx : log' = Append(log, tx)
      /\ loans' = [l \in DOMAIN loans |-> LoanAfter(p, heir, l)]
      /\ repayments' = repayments \cup {s \in Settlements(p) : s.amount > 0}
  BY BankruptLoanFacts DEF declareBankruptcy
<1>2. DOMAIN loans' = DOMAIN loans /\ p \in Players /\ p # Bank
  BY <1>1, LedgerAssumption DEF Active
<1>3. RepaymentsKnown'
  <2>1. PICK n : n = NextId
    OBVIOUS
  <2>2. n \in DOMAIN log' /\ DOMAIN log \subseteq DOMAIN log'
    BY <1>1, <2>1, AddedRow
  <2>3. \A s \in Settlements(p) : s.tx = n /\ s.loan \in DOMAIN loans
    BY <1>2, <2>1, SettlementsFacts
  <2> QED BY <1>1, <1>2, <2>2, <2>3 DEF LoanInv, RepaymentsKnown
<1>4. ASSUME NEW l \in DOMAIN loans
      PROVE  /\ LoanSound(l)'
             /\ l \in BankLoans' => l \in BankLoans
             /\ loans'[l].borrower = loans[l].borrower
  <2>1. loans'[l] = LoanAfter(p, heir, l) /\ loans[l] \in LoanRows /\ LoanSound(l)
    BY <1>1, LoanFacts DEF TypeInv, LoanInv
  <2>2. PICK paid : paid = PaidFor(p, l)
    OBVIOUS
  <2>3. RepaidOf(l)' = RepaidOf(l) + paid /\ (l \notin bankLoanOf(p) => paid = 0)
    BY <1>1, <2>2, SettlementsRecorded
  <2>4. AskedFor(l) => AskedFor(l)'
    BY AcceptedStays
  <2>5. RepaidOf(l) \in Int /\ loans[l].repaid = RepaidOf(l)
    BY <2>1, RepaidOfFacts DEF TypeInv, LoanSound
  <2>6. CASE l \notin ActiveLoans \/ p \notin {loans[l].borrower, loans[l].lender}
    <3>1. loans'[l] = loans[l]
      BY <2>1, <2>6 DEF LoanAfter
    <3>2. paid = 0
      BY <2>3, <2>6 DEF bankLoanOf, BankLoans
    <3>3. RepaidOf(l)' = RepaidOf(l)
      BY <2>3, <2>5, <3>2
    <3> QED BY <1>2, <2>1, <2>4, <3>1, <3>3 DEF LoanSound, BankLoans, ActiveLoans
  <2>7. CASE l \in ActiveLoans /\ loans[l].borrower = p
    <3>1. PICK s : s = IF loans[l].repaid + paid = loans[l].principal
                         THEN "REPAID" ELSE "WRITTEN_OFF"
      OBVIOUS
    <3>2. loans'[l] = [loans[l] EXCEPT !.repaid = loans[l].repaid + paid, !.state = s]
      BY <2>1, <2>2, <2>7, <3>1 DEF LoanAfter
    <3>3. /\ loans'[l].repaid = loans[l].repaid + paid /\ loans'[l].state = s
          /\ loans'[l].principal = loans[l].principal /\ loans'[l].lender = loans[l].lender
          /\ loans'[l].borrower = loans[l].borrower
      BY <2>1, <3>2 DEF LoanRows
    <3>4. l \notin BankLoans'
      BY <3>1, <3>3 DEF BankLoans, ActiveLoans
    <3> QED BY <2>1, <2>3, <2>4, <2>5, <3>1, <3>3, <3>4 DEF LoanSound
  <2>8. CASE l \in ActiveLoans /\ loans[l].borrower # p /\ loans[l].lender = p
    <3>1. paid = 0
      BY <2>3, <2>8 DEF bankLoanOf
    <3>2. RepaidOf(l)' = RepaidOf(l)
      BY <2>3, <2>5, <3>1
    <3>3. AskedFor(l)' /\ loans[l].repaid # loans[l].principal /\ loans[l].state = "ACTIVE"
      BY <1>2, <2>1, <2>4, <2>8 DEF LoanSound, ActiveLoans
    <3>4. /\ loans'[l].repaid = loans[l].repaid /\ loans'[l].principal = loans[l].principal
          /\ loans'[l].borrower = loans[l].borrower /\ loans'[l].state \in {"ACTIVE", "WRITTEN_OFF"}
          /\ loans'[l].state = "ACTIVE" => loans'[l].lender # Bank
      <4>1. CASE heir \notin {Bank, loans[l].borrower}
        <5>1. loans'[l] = [loans[l] EXCEPT !.lender = heir]
          BY <2>1, <2>8, <4>1 DEF LoanAfter
        <5> QED BY <2>1, <3>3, <4>1, <5>1 DEF LoanRows
      <4>2. CASE ~(heir \notin {Bank, loans[l].borrower})
        <5>1. loans'[l] = [loans[l] EXCEPT !.state = "WRITTEN_OFF"]
          BY <2>1, <2>8, <4>2 DEF LoanAfter
        <5> QED BY <2>1, <5>1 DEF LoanRows
      <4> QED BY <4>1, <4>2
    <3>5. l \notin BankLoans'
      BY <3>4 DEF BankLoans, ActiveLoans
    <3> QED BY <2>5, <3>2, <3>3, <3>4, <3>5 DEF LoanSound
  <2> QED BY <2>6, <2>7, <2>8
<1>5. OneBankLoan'
  <2>1. BankLoans' \subseteq BankLoans
    BY <1>2, <1>4 DEF BankLoans, ActiveLoans
  <2>2. \A k \in BankLoans : loans'[k].borrower = loans[k].borrower
    BY <1>4 DEF BankLoans, ActiveLoans
  <2> QED BY <2>1, <2>2 DEF OneBankLoan, LoanInv
<1> QED BY <1>2, <1>3, <1>4, <1>5 DEF LoanInv

\* A step on loans.
LEMMA LoanStepsKeepLoans ==
    ASSUME TypeInv, TypeInv', LoanInv, [Next]_vars, LoanStep \/ BankLoanStep
    PROVE  LoanInv'
<1>1. ASSUME NEW p \in Active, NEW q \in Active, NEW a \in Amounts, createLoanRequest(p, q, a)
      PROVE  LoanInv'
  <2>1. UNCHANGED <<loans, repayments>> /\ log' = log
    BY <1>1, CreditQuiet DEF createLoanRequest, money
  <2> QED BY <2>1, LoansQuiet
<1>2. ASSUME NEW r \in DOMAIN requests, NEW later, acceptLoan(r, later) PROVE LoanInv'
  <2>1. PICK q : q = requests[r]
    OBVIOUS
  <2>2. /\ q.kind = "LOAN" /\ q.payer \in Active /\ q.due > later
        /\ loans' = Insert(loans, Loan(q.payer, q.recipient, q.amount)) /\ repayments' = repayments
    BY <1>2, <2>1 DEF acceptLoan, settle
  <2>3. q.amount \in Amounts /\ q \in RequestRows /\ q.payer # Bank
    BY <2>1, RequestDelta, LedgerAssumption DEF RequestRows
  <2>4. \E tx : log' = Append(log, tx)
    BY <1>2 DEF acceptLoan, settle, Commit
  <2>5. PICK n : n = NextId
    OBVIOUS
  <2>6. /\ r \in DOMAIN requests' /\ requests'[r].kind = "LOAN"
        /\ requests'[r].state = "ACCEPTED" /\ requests'[r].tx = n
    <3>1. Pending(requests, r) /\ requests' =
            [expirePending(requests) EXCEPT ![r].state = "ACCEPTED", ![r].tx = n]
      BY <1>2, <2>1, <2>2, <2>5 DEF acceptLoan, settle
    <3>2. DOMAIN expirePending(requests) = DOMAIN requests /\ expirePending(requests)[r] = q
      BY <2>1, <3>1, ExpireMoves
    <3> QED BY <2>2, <2>3, <3>1, <3>2 DEF RequestRows
  <2> QED BY <2>2, <2>3, <2>4, <2>5, <2>6, NewLoan
<1>3. ASSUME NEW l \in ActiveLoans, NEW a \in Amounts, repayLoan(l, a) PROVE LoanInv'
  <2>1. a \in Nat /\ 0 \in Nat
    BY AmountsAssumption
  <2>2. /\ loans' = Repaid(l, a) /\ repayments' = repayments \cup {Repayment(l, a, 0)}
        /\ \E tx : log' = Append(log, tx)
    BY <1>3 DEF repayLoan, Commit
  <2> QED BY <2>1, <2>2, LoanRepaid
<1>4. ASSUME NEW p \in Active, NEW a \in Amounts, NEW ack, issueBankLoan(p, a, ack) PROVE LoanInv'
  <2>1. /\ loans' = Insert(loans, Loan(Bank, p, a)) /\ repayments' = repayments
        /\ bankLoanOf(p) = {} /\ \E tx : log' = Append(log, tx)
    BY <1>4 DEF issueBankLoan, Commit
  <2> QED BY <2>1, NewLoan
<1>5. ASSUME NEW l \in BankLoans, NEW rate \in Rates, repayBankLoan(l, rate) PROVE LoanInv'
  <2> DEFINE owed == loans[l].principal - loans[l].repaid
             i == bankLoanInterest(owed, rate)
  <2>1. l \in ActiveLoans /\ l \in DOMAIN loans
    BY DEF BankLoans, ActiveLoans
  <2>2. owed \in Nat
    BY <2>1, LoanFacts DEF TypeInv
  <2>3. i \in Nat
    <3> HIDE DEF owed
    <3> QED BY <2>2, InterestNat
  <2>4. /\ loans' = Repaid(l, owed) /\ repayments' = repayments \cup {Repayment(l, owed, i)}
        /\ \E tx : log' = Append(log, tx)
    BY <1>5 DEF repayBankLoan, Commit
  <2> HIDE DEF owed, i
  <2> QED BY <2>1, <2>2, <2>3, <2>4, LoanRepaid
<1> QED BY <1>1, <1>2, <1>3, <1>4, <1>5 DEF LoanStep, BankLoanStep

\* Every step keeps loans, repayments and requests in agreement.
LEMMA LoanInvKept == TypeInv /\ TypeInv' /\ LoanInv /\ [Next]_vars => LoanInv'
<1> SUFFICES ASSUME TypeInv, TypeInv', LoanInv, [Next]_vars PROVE LoanInv'
  OBVIOUS
<1>1. log' = log \/ \E tx : log' = Append(log, tx)
  <2>1. CASE UNCHANGED vars
    BY <2>1 DEF vars, money
  <2>2. CASE Next
    BY <2>2, BookStep DEF Entered, money
  <2> QED BY <2>1, <2>2
<1>2. ASSUME UNCHANGED <<loans, repayments>> PROVE LoanInv'
  BY <1>1, <1>2, LoansQuiet
<1>3. CASE UNCHANGED vars
  BY <1>2, <1>3 DEF vars, credit
<1>4. CASE Next
  <2>1. BankruptcyStep => LoanInv'
    BY BankruptcyKeepsLoans DEF BankruptcyStep
  <2>2. \/ MoneyStep \/ RequestStep \/ TileStep \/ BuildingStep \/ MortgageStep
        \/ TradeStep \/ ReverseStep \/ Tick
        => LoanInv'
    BY <1>2, CreditQuiet
  <2>3. LoanStep \/ BankLoanStep => LoanInv'
    BY LoanStepsKeepLoans
  <2> QED BY <1>4, <2>1, <2>2, <2>3 DEF Next
<1> QED BY <1>3, <1>4

\* There are no loans at first.
LEMMA InitLoans == Init => LoanInv
<1> SUFFICES ASSUME Init PROVE LoanInv
  OBVIOUS
<1>1. DOMAIN loans = {} /\ repayments = {}
  BY DEF Init
<1> QED BY <1>1 DEF LoanInv, RepaymentsKnown, OneBankLoan, BankLoans, ActiveLoans

\* The loans agree with the repayments recorded for them, a loan is closed as
\* repaid exactly when its principal is covered, nobody has two of the bank's,
\* and one between players was accepted by its lender (LoansMatchRepayments),
\* whoever goes bankrupt and whatever the bank then takes.
THEOREM LoansAlwaysMatch == Spec => []LoansMatchRepayments
<1>1. Spec => []TypeInv
  BY BankTypes, PTL
<1>2. Spec => []LoanInv
  BY <1>1, InitLoans, LoanInvKept, PTL DEF Spec
<1>3. TypeInv /\ LoanInv => LoansMatchRepayments
  <2> SUFFICES ASSUME TypeInv, LoanInv PROVE LoansMatchRepayments
    OBVIOUS
  <2>1. ASSUME NEW l \in DOMAIN loans
        PROVE  /\ loans[l].repaid = SumFunction([x \in {y \in repayments : y.loan = l} |-> x.amount])
               /\ loans[l].repaid <= loans[l].principal
               /\ loans[l].state = "REPAID" <=> loans[l].repaid = loans[l].principal
               /\ loans[l].lender # Bank => AskedFor(l)
    <3>1. LoanSound(l) /\ loans[l].repaid <= loans[l].principal
      BY LoanFacts DEF LoanInv, TypeInv
    <3> QED BY <3>1 DEF LoanSound, RepaidOf, RepaymentsOf
  <2>2. ASSUME NEW p \in Players PROVE Cardinality(bankLoanOf(p)) <= 1
    <3>1. \A k, l \in bankLoanOf(p) : k = l
      BY DEF LoanInv, OneBankLoan, bankLoanOf
    <3>2. CASE bankLoanOf(p) = {}
      BY <3>2, FS_EmptySet
    <3>3. ASSUME NEW l \in bankLoanOf(p) PROVE Cardinality(bankLoanOf(p)) <= 1
      <4>1. bankLoanOf(p) = {l}
        BY <3>1
      <4>2. Cardinality({l}) = 1
        BY FS_Singleton
      <4>3. Cardinality(bankLoanOf(p)) = 1
        BY <4>1, <4>2, Zenon
      <4> QED BY <4>3
    <3> QED BY <3>2, <3>3
  <2> QED BY <2>1, <2>2 DEF LoansMatchRepayments, AskedFor
<1> QED BY <1>1, <1>2, <1>3, PTL

-----------------------------------------------------------------------------
(* Mortgages and tiles tell one story *)

\* The rows that changed tile t by an operation on it, and were not reversed since.
Standing(t) ==
  {j \in DOMAIN log :
     log[j].type \in RegistryTypes /\ t \in DOMAIN log[j].changes /\ ~Reversed(j)}

\* A participant went bankrupt: the row will not be reversed.
Stuck(j) == \E p \in DOMAIN log[j].delta : p \in bankrupt

\* After row j, o may own what it changed.
Holder(j, o) == o = Bank \/ o \in DOMAIN log[j].delta \/ Stuck(j)

\* The owner of a tile took part in the last transaction that stands on it ...
TopHolds(t) ==
  Standing(t) # {} =>
    \E k \in Standing(t) :
      (\A i \in Standing(t) : i <= k) /\ Holder(k, registry[t].owner)

\* ... and whom a reversal gives it back to, in the one that stands before.
BelowHolds(t) ==
  \A j \in Standing(t) :
    \/ \A i \in Standing(t) : j <= i
    \/ \E k \in Standing(t) :
         /\ k < j /\ \A i \in Standing(t) : i <= k \/ j <= i
         /\ Holder(k, log[j].changes[t].before.owner)

\* What a transaction says of the tiles it changes: it names them, their owner
\* takes part in it, and it takes up or redeems a mortgage if that is its type.
TellsTiles(tx) ==
  /\ tx.type \in {"MORTGAGE", "MORTGAGE_REDEMPTION"} => tx.tiles = DOMAIN tx.changes
  /\ tx.type \notin RegistryTypes \cup {"REVERSAL", "BANKRUPTCY_TRANSFER"} =>
       DOMAIN tx.changes = {}
  /\ tx.type \in RegistryTypes =>
       \A t \in DOMAIN tx.changes :
         LET c == tx.changes[t]
         IN /\ t \in tx.tiles /\ c.after.owner \in DOMAIN tx.delta
            /\ tx.type = "MORTGAGE" => ~c.before.mortgaged /\ c.after.mortgaged
            /\ tx.type = "MORTGAGE_REDEMPTION" => c.before.mortgaged /\ ~c.after.mortgaged
            /\ tx.type \notin {"MORTGAGE", "MORTGAGE_REDEMPTION"} =>
                 c.before.mortgaged = c.after.mortgaged

RowsTell ==
  \A j \in DOMAIN log : TellsTiles(log[j]) /\ log[j].undoes \in DOMAIN log \cup {0}

On(t) == {m \in DOMAIN mortgages : mortgages[m].item = t}

\* Mortgage m was redeemed by row r.
RedeemedIn(m, r, t) ==
  /\ mortgages[m].state = "REDEEMED" /\ r \in DOMAIN log /\ r > m
  /\ log[r].type = "MORTGAGE_REDEMPTION" /\ log[r].tiles = {t} /\ ~Reversed(r)
  /\ log[r].changes[t].before.owner = mortgages[m].player

\* The row of a mortgage and the log: it is redeemed while its redemption stands, and
\* released when it was reversed or can no longer be.
MortgageTold(m, t) ==
  /\ log[m].type = "MORTGAGE" /\ log[m].tiles = {t}
  /\ mortgages[m].redeemedBy # 0 => RedeemedIn(m, mortgages[m].redeemedBy, t)
  /\ mortgages[m].state = "REDEEMED" => mortgages[m].redeemedBy # 0
  /\ mortgages[m].state # "RELEASED" => ~Reversed(m)
  /\ mortgages[m].state = "RELEASED" =>
       Reversed(m) \/ \E k \in Standing(t) : m <= k /\ Stuck(k)

\* What the log says of a tile's mortgages, the table says too.
MortgagesKnown(t) ==
  /\ \A m \in On(t) : MortgageTold(m, t)
  /\ \A m, n \in On(t) :
       mortgages[m].redeemedBy = mortgages[n].redeemedBy /\ mortgages[m].redeemedBy # 0 => m = n
  /\ \A j \in Standing(t) :
       /\ log[j].type = "MORTGAGE" => j \in On(t)
       /\ log[j].type = "MORTGAGE_REDEMPTION" => \E m \in On(t) : mortgages[m].redeemedBy = j

\* A tile is mortgaged while one active row stands for it, under its owner.
Matched(t) ==
  /\ registry[t].mortgaged <=> \E m \in On(t) : mortgages[m].state = "ACTIVE"
  /\ \A m, n \in On(t) : mortgages[m].state = "ACTIVE" /\ mortgages[n].state = "ACTIVE" => m = n
  /\ \A m \in On(t) : mortgages[m].state = "ACTIVE" => mortgages[m].player = registry[t].owner

TileStory(t) == TopHolds(t) /\ BelowHolds(t) /\ MortgagesKnown(t) /\ Matched(t)

StoryInv == RowsTell /\ \A t \in DOMAIN registry : TileStory(t)

\* What a row that is added makes of the rows there are.
LEMMA RowsGrow ==
    ASSUME TypeInv, TypeInv', RowsTell, NEW tx, log' = Append(log, tx), NEW x, x = NextId,
           tx.undoes \in DOMAIN log \cup {0}, TellsTiles(tx)
    PROVE  /\ x \in Nat /\ x \notin DOMAIN log
           /\ \A j \in DOMAIN log : j \in Nat /\ j # 0 /\ j < x /\ log'[j] = log[j]
           /\ DOMAIN log' = DOMAIN log \cup {x} /\ log'[x] = tx
           /\ \A j \in DOMAIN log : Reversed(j)' <=> Reversed(j) \/ tx.undoes = j
           /\ ~Reversed(x)'
           /\ RowsTell'
<1>1. /\ x \in Nat /\ x \notin DOMAIN log
      /\ DOMAIN log' = DOMAIN log \cup {x} /\ log'[x] = tx
      /\ \A j \in DOMAIN log : log'[j] = log[j]
  BY AddedRow
<1>2. \A j \in DOMAIN log : j \in Nat /\ j # 0 /\ j < x
  BY LenProperties DEF TypeInv, MoneyTyped, NextId
<1>3. \A j \in DOMAIN log : Reversed(j)' <=> Reversed(j) \/ tx.undoes = j
  BY <1>1 DEF Reversed
<1>4. ~Reversed(x)'
  BY <1>1, <1>2 DEF Reversed, RowsTell
<1>5. RowsTell'
  BY <1>1 DEF RowsTell
<1> QED BY <1>1, <1>2, <1>3, <1>4, <1>5

\* The rows that stand on a tile after a row that reverses none.
LEMMA StandingGrows ==
    ASSUME TypeInv, TypeInv', RowsTell, NEW tx, log' = Append(log, tx), NEW x, x = NextId,
           tx.undoes = 0, TellsTiles(tx), NEW t
    PROVE  Standing(t)' = IF tx.type \in RegistryTypes /\ t \in DOMAIN tx.changes
                          THEN Standing(t) \cup {x} ELSE Standing(t)
<1>1. /\ DOMAIN log' = DOMAIN log \cup {x} /\ log'[x] = tx /\ x \notin DOMAIN log
      /\ \A j \in DOMAIN log : j # 0 /\ log'[j] = log[j]
      /\ \A j \in DOMAIN log : Reversed(j)' <=> Reversed(j) \/ tx.undoes = j
      /\ ~Reversed(x)'
  BY RowsGrow
<1>2. \A j \in DOMAIN log : j \in Standing(t)' <=> j \in Standing(t)
  BY <1>1 DEF Standing
<1>3. x \in Standing(t)' <=> tx.type \in RegistryTypes /\ t \in DOMAIN tx.changes
  BY <1>1 DEF Standing
<1>4. Standing(t) \subseteq DOMAIN log /\ Standing(t)' \subseteq DOMAIN log \cup {x}
  BY <1>1 DEF Standing
<1>5. CASE tx.type \in RegistryTypes /\ t \in DOMAIN tx.changes
  <2>1. Standing(t)' = Standing(t) \cup {x}
    BY <1>2, <1>3, <1>4, <1>5
  <2> QED BY <1>5, <2>1
<1>6. CASE ~(tx.type \in RegistryTypes /\ t \in DOMAIN tx.changes)
  <2>1. Standing(t)' = Standing(t)
    BY <1>2, <1>3, <1>4, <1>6
  <2> QED BY <1>6, <2>1
<1> QED BY <1>5, <1>6

\* A tile on which nothing happens, unless its owner goes bankrupt.
LEMMA StackUntouched ==
    ASSUME NEW t, TopHolds(t), BelowHolds(t), Standing(t)' = Standing(t),
           bankrupt \subseteq bankrupt', \A j \in Standing(t) : log'[j] = log[j],
           registry'[t].owner = registry[t].owner \/ registry[t].owner \in bankrupt' \ {Bank}
    PROVE  TopHolds(t)' /\ BelowHolds(t)'
<1>1. ASSUME NEW k \in Standing(t), NEW o, Holder(k, o) PROVE Holder(k, o)'
  BY <1>1 DEF Holder, Stuck
<1>2. ASSUME NEW k \in Standing(t), Holder(k, registry[t].owner) PROVE Holder(k, registry[t].owner)'
  <2>1. CASE registry'[t].owner = registry[t].owner
    BY <1>1, <1>2, <2>1 DEF Holder, Stuck
  <2>2. CASE registry[t].owner \in bankrupt' \ {Bank}
    BY <1>2, <2>2 DEF Holder, Stuck
  <2> QED BY <2>1, <2>2
<1>3. TopHolds(t)'
  BY <1>2 DEF TopHolds
<1>4. BelowHolds(t)'
  <2>1. ASSUME NEW k \in Standing(t), NEW j \in Standing(t),
               Holder(k, log[j].changes[t].before.owner)
        PROVE  Holder(k, log[j].changes[t].before.owner)'
    BY <2>1 DEF Holder, Stuck
  <2> QED BY <2>1 DEF BelowHolds
<1> QED BY <1>3, <1>4

\* A transaction of the owner comes to stand on the tile.
LEMMA StackPushed ==
    ASSUME NEW t, NEW x \in Nat, TopHolds(t), BelowHolds(t), Standing(t)' = Standing(t) \cup {x},
           \A j \in Standing(t) : j \in Nat /\ j < x /\ log'[j] = log[j], bankrupt' = bankrupt,
           log'[x].changes[t].before.owner = registry[t].owner,
           registry'[t].owner \in DOMAIN log'[x].delta
    PROVE  TopHolds(t)' /\ BelowHolds(t)'
<1>1. TopHolds(t)'
  <2>1. Holder(x, registry[t].owner)'
    BY DEF Holder
  <2> QED BY <2>1 DEF TopHolds
<1>2. ASSUME NEW k \in Standing(t), NEW j \in Standing(t),
             Holder(k, log[j].changes[t].before.owner)
      PROVE  Holder(k, log[j].changes[t].before.owner)'
  BY <1>2 DEF Holder, Stuck
<1>3. ASSUME NEW k \in Standing(t), Holder(k, registry[t].owner)
      PROVE  Holder(k, log[x].changes[t].before.owner)'
  BY <1>3 DEF Holder, Stuck
<1>4. BelowHolds(t)'
  <2>1. ASSUME NEW j \in Standing(t)
        PROVE  \/ \A i \in Standing(t) \cup {x} : j <= i
               \/ \E k \in Standing(t) \cup {x} :
                    /\ k < j /\ \A i \in Standing(t) \cup {x} : i <= k \/ j <= i
                    /\ Holder(k, log[j].changes[t].before.owner)'
    BY <1>2, <2>1 DEF BelowHolds
  <2>2. \/ \A i \in Standing(t) \cup {x} : x <= i
        \/ \E k \in Standing(t) \cup {x} :
             /\ k < x /\ \A i \in Standing(t) \cup {x} : i <= k \/ x <= i
             /\ Holder(k, log[x].changes[t].before.owner)'
    BY <1>3 DEF TopHolds
  <2> QED BY <2>1, <2>2 DEF BelowHolds
<1> QED BY <1>1, <1>4

\* The last transaction on the tile is undone.
LEMMA StackPopped ==
    ASSUME NEW t, NEW i \in Standing(t), BelowHolds(t), Standing(t)' = Standing(t) \ {i},
           \A j \in Standing(t) : j \in Nat /\ j <= i /\ log'[j] = log[j], bankrupt' = bankrupt,
           registry'[t].owner = log[i].changes[t].before.owner
    PROVE  TopHolds(t)' /\ BelowHolds(t)'
<1>1. ASSUME NEW k \in Standing(t), NEW j \in Standing(t),
             Holder(k, log[j].changes[t].before.owner)
      PROVE  Holder(k, log[j].changes[t].before.owner)'
  BY <1>1 DEF Holder, Stuck
<1>2. ASSUME NEW k \in Standing(t), Holder(k, log[i].changes[t].before.owner)
      PROVE  Holder(k, registry[t].owner)'
  BY <1>2 DEF Holder, Stuck
<1>3. TopHolds(t)'
  <2>1. ASSUME NEW k \in Standing(t), k < i, \A h \in Standing(t) : h <= k \/ i <= h
        PROVE  k \in Standing(t) \ {i} /\ \A h \in Standing(t) \ {i} : h <= k
    BY <2>1
  <2> QED BY <1>2, <2>1 DEF TopHolds, BelowHolds
<1>4. BelowHolds(t)'
  <2>1. ASSUME NEW j \in Standing(t) \ {i}
        PROVE  \/ \A h \in Standing(t) \ {i} : j <= h
               \/ \E k \in Standing(t) \ {i} :
                    /\ k < j /\ \A h \in Standing(t) \ {i} : h <= k \/ j <= h
                    /\ Holder(k, log[j].changes[t].before.owner)'
    BY <1>1 DEF BelowHolds
  <2> QED BY <2>1 DEF BelowHolds
<1> QED BY <1>3, <1>4

\* A mortgage nothing happens to, told of in the log as before.
LEMMA ToldAsBefore ==
    ASSUME TypeInv, TypeInv', RowsTell, NEW tx, log' = Append(log, tx),
           tx.undoes \in DOMAIN log \cup {0}, TellsTiles(tx), NEW t, NEW m \in On(t), MortgageTold(m, t),
           tx.undoes # m, tx.undoes = 0 \/ tx.undoes # mortgages[m].redeemedBy,
           \A k \in Standing(t) : Stuck(k) => k \in Standing(t)', bankrupt \subseteq bankrupt',
           mortgages'[m].state = mortgages[m].state,
           mortgages'[m].redeemedBy = mortgages[m].redeemedBy,
           mortgages[m].redeemedBy # 0 => mortgages'[m].player = mortgages[m].player
    PROVE  MortgageTold(m, t)'
<1>1. PICK x : x = NextId
  OBVIOUS
<1>2. /\ \A j \in DOMAIN log : j # 0 /\ log'[j] = log[j]
      /\ \A j \in DOMAIN log : Reversed(j)' <=> Reversed(j) \/ tx.undoes = j
      /\ DOMAIN log \subseteq DOMAIN log'
  BY <1>1, RowsGrow
<1>3. m \in DOMAIN log
  BY LenProperties DEF On, TypeInv, EstateTyped, Table, MoneyTyped
<1>4. log'[m] = log[m] /\ (Reversed(m)' <=> Reversed(m))
  BY <1>2, <1>3
<1>5. PICK r : r = mortgages[m].redeemedBy
  OBVIOUS
<1>r. ASSUME r # 0 PROVE RedeemedIn(m, r, t)'
  <2>1. RedeemedIn(m, r, t)
    BY <1>5, <1>r DEF MortgageTold
  <2>2. r \in DOMAIN log /\ ~Reversed(r)
    BY <2>1 DEF RedeemedIn
  <2>3. r \in DOMAIN log' /\ log'[r] = log[r] /\ ~Reversed(r)'
    BY <1>2, <1>5, <1>r, <2>2
  <2> QED BY <1>5, <1>r, <2>1, <2>3 DEF RedeemedIn
<1>6. ASSUME NEW k \in Standing(t), Stuck(k) PROVE k \in Standing(t)' /\ Stuck(k)'
  <2>1. log'[k] = log[k]
    BY <1>2 DEF Standing
  <2> QED BY <1>6, <2>1 DEF Stuck
<1>7. mortgages[m].state = "RELEASED" => Reversed(m)' \/ \E k \in Standing(t)' : m <= k /\ Stuck(k)'
  BY <1>4, <1>6 DEF MortgageTold
<1>8. mortgages'[m].redeemedBy # 0 => RedeemedIn(m, mortgages[m].redeemedBy, t)'
  BY <1>5, <1>r DEF RedeemedIn
<1> QED BY <1>4, <1>7, <1>8 DEF MortgageTold

\* The mortgages of a tile on which no mortgage is taken up or redeemed.
LEMMA KnownAsBefore ==
    ASSUME NEW t, MortgagesKnown(t), On(t)' = On(t), \A m \in On(t) : MortgageTold(m, t)',
           \A m \in On(t) : mortgages'[m].redeemedBy = mortgages[m].redeemedBy,
           \A j \in Standing(t) : log'[j] = log[j],
           \A j \in Standing(t)' :
             j \in Standing(t) \/ log'[j].type \notin {"MORTGAGE", "MORTGAGE_REDEMPTION"}
    PROVE  MortgagesKnown(t)'
<1>1. ASSUME NEW j \in Standing(t)'
      PROVE  /\ log'[j].type = "MORTGAGE" => j \in On(t)
             /\ log'[j].type = "MORTGAGE_REDEMPTION" => \E m \in On(t) : mortgages'[m].redeemedBy = j
  BY <1>1 DEF MortgagesKnown
<1>2. \A m, n \in On(t) :
        mortgages'[m].redeemedBy = mortgages'[n].redeemedBy /\ mortgages'[m].redeemedBy # 0 => m = n
  BY DEF MortgagesKnown
<1> QED BY <1>1, <1>2 DEF MortgagesKnown

\* ... and the flag of the tile.
LEMMA MatchedAsBefore ==
    ASSUME NEW t, Matched(t), On(t)' = On(t), registry'[t].mortgaged = registry[t].mortgaged,
           \A m \in On(t) : mortgages'[m].state = mortgages[m].state,
           \A m \in On(t) : mortgages[m].state = "ACTIVE" => mortgages'[m].player = registry'[t].owner
    PROVE  Matched(t)'
  BY DEF Matched

\* The transaction moves a tile, from its owner before to one who takes part in it.
MovesTile(tx, t) ==
  IF tx.type \in RegistryTypes /\ t \in DOMAIN tx.changes
    THEN /\ tx.changes[t].before.owner = registry[t].owner
         /\ registry'[t].owner \in DOMAIN tx.delta
    ELSE registry'[t].owner = registry[t].owner

\* The stack of a tile after a transaction.
LEMMA StackKept ==
    ASSUME TypeInv, TypeInv', RowsTell, NEW tx, log' = Append(log, tx), tx.undoes = 0,
           TellsTiles(tx), bankrupt' = bankrupt, NEW t, TopHolds(t), BelowHolds(t), MovesTile(tx, t)
    PROVE  TopHolds(t)' /\ BelowHolds(t)'
<1>1. PICK x : x = NextId
  OBVIOUS
<1>2. /\ x \in Nat /\ log'[x] = tx
      /\ \A j \in DOMAIN log : j \in Nat /\ j < x /\ log'[j] = log[j]
  BY <1>1, RowsGrow
<1>3. \A j \in Standing(t) : j \in Nat /\ j < x /\ log'[j] = log[j]
  BY <1>2 DEF Standing
<1>4. Standing(t)' = IF tx.type \in RegistryTypes /\ t \in DOMAIN tx.changes
                     THEN Standing(t) \cup {x} ELSE Standing(t)
  BY <1>1, StandingGrows
<1>5. CASE tx.type \in RegistryTypes /\ t \in DOMAIN tx.changes
  <2>1. Standing(t)' = Standing(t) \cup {x}
    BY <1>4, <1>5
  <2>2. log'[x].changes[t].before.owner = registry[t].owner /\ registry'[t].owner \in DOMAIN log'[x].delta
    BY <1>2, <1>5 DEF MovesTile
  <2> QED BY <1>2, <1>3, <2>1, <2>2, StackPushed
<1>6. CASE ~(tx.type \in RegistryTypes /\ t \in DOMAIN tx.changes)
  <2>1. Standing(t)' = Standing(t) /\ registry'[t].owner = registry[t].owner
    BY <1>4, <1>6 DEF MovesTile
  <2> QED BY <1>3, <2>1, StackUntouched
<1> QED BY <1>5, <1>6

\* A tile whose mortgages a transaction leaves alone, or takes to its new owner.
LEMMA StoryStays ==
    ASSUME TypeInv, TypeInv', RowsTell, NEW tx, log' = Append(log, tx), tx.undoes = 0,
           TellsTiles(tx), bankrupt' = bankrupt, NEW t, TileStory(t), MovesTile(tx, t),
           tx.type \notin {"MORTGAGE", "MORTGAGE_REDEMPTION"} \/ t \notin DOMAIN tx.changes,
           On(t)' = On(t), registry'[t].mortgaged = registry[t].mortgaged,
           \A m \in On(t) : /\ mortgages'[m].state = mortgages[m].state
                            /\ mortgages'[m].redeemedBy = mortgages[m].redeemedBy
                            /\ mortgages[m].redeemedBy # 0 => mortgages'[m].player = mortgages[m].player
                            /\ mortgages[m].state = "ACTIVE" => mortgages'[m].player = registry'[t].owner
    PROVE  TileStory(t)'
<1>1. TopHolds(t)' /\ BelowHolds(t)'
  BY StackKept DEF TileStory
<1>2. PICK x : x = NextId
  OBVIOUS
<1>3. log'[x] = tx /\ \A j \in DOMAIN log : j # 0 /\ log'[j] = log[j]
  BY <1>2, RowsGrow
<1>4. Standing(t)' = IF tx.type \in RegistryTypes /\ t \in DOMAIN tx.changes
                     THEN Standing(t) \cup {x} ELSE Standing(t)
  BY <1>2, StandingGrows
<1>5. \A j \in Standing(t) : j \in Standing(t)' /\ log'[j] = log[j]
  BY <1>3, <1>4 DEF Standing
<1>6. ASSUME NEW m \in On(t) PROVE MortgageTold(m, t)'
  <2>1. m \in DOMAIN log
    BY LenProperties DEF On, TypeInv, EstateTyped, Table, MoneyTyped
  <2>2. tx.undoes # m
    BY <1>3, <2>1
  <2>3. MortgageTold(m, t)
    BY DEF TileStory, MortgagesKnown
  <2> QED BY <1>5, <2>2, <2>3, ToldAsBefore
<1>7. \A j \in Standing(t)' :
        j \in Standing(t) \/ log'[j].type \notin {"MORTGAGE", "MORTGAGE_REDEMPTION"}
  BY <1>3, <1>4
<1>8. MortgagesKnown(t)'
  BY <1>5, <1>6, <1>7, KnownAsBefore DEF TileStory
<1>9. Matched(t)'
  BY MatchedAsBefore DEF TileStory
<1> QED BY <1>1, <1>8, <1>9 DEF TileStory

\* A step that touches no tile leaves every story as it was.
LEMMA StoryQuiet ==
    ASSUME TypeInv, TypeInv', StoryInv, UNCHANGED <<estate, bankrupt>>,
           log' = log \/ \E tx : log' = Append(log, tx) /\ Bare(tx)
    PROVE  StoryInv'
<1>1. CASE log' = log
  <2>1. UNCHANGED <<log, registry, mortgages, bankrupt>>
    BY <1>1 DEF estate
  <2>2. RowsTell'
    BY <2>1 DEF StoryInv, RowsTell
  <2>3. ASSUME NEW t, TileStory(t) PROVE TileStory(t)'
    <3>1. \A j : Reversed(j)' <=> Reversed(j)
      BY <2>1 DEF Reversed
    <3>2. Standing(t)' = Standing(t) /\ On(t)' = On(t)
      BY <2>1, <3>1 DEF Standing, On
    <3>3. \A j : Stuck(j)' <=> Stuck(j)
      BY <2>1 DEF Stuck
    <3>4. \A j, o : Holder(j, o)' <=> Holder(j, o)
      BY <2>1, <3>3 DEF Holder
    <3>5. TopHolds(t)' /\ BelowHolds(t)'
      BY <2>1, <2>3, <3>2, <3>4 DEF TileStory, TopHolds, BelowHolds, Holder, Stuck
    <3>6. Matched(t)'
      BY <2>1, <2>3, <3>2 DEF TileStory, Matched
    <3>7. \A m : MortgageTold(m, t)' <=> MortgageTold(m, t)
      BY <2>1, <3>1, <3>2, <3>3 DEF MortgageTold, RedeemedIn
    <3>8. MortgagesKnown(t)'
      BY <2>1, <2>3, <3>2, <3>7 DEF TileStory, MortgagesKnown
    <3> QED BY <3>5, <3>6, <3>8 DEF TileStory
  <2> QED BY <2>1, <2>2, <2>3 DEF StoryInv
<1>2. ASSUME NEW tx, log' = Append(log, tx), Bare(tx) PROVE StoryInv'
  <2>1. tx.undoes = 0 /\ tx.tiles = {} /\ DOMAIN tx.changes = {}
    BY <1>2 DEF Bare, NoChange
  <2>2. TellsTiles(tx)
    BY <2>1 DEF TellsTiles
  <2>3. RowsTell'
    BY <1>2, <2>1, <2>2, RowsGrow DEF StoryInv
  <2>4. UNCHANGED <<registry, mortgages, bankrupt>>
    BY DEF estate
  <2>5. ASSUME NEW t \in DOMAIN registry PROVE TileStory(t)'
    <3>1. TileStory(t) /\ On(t)' = On(t) /\ MovesTile(tx, t)
      BY <2>1, <2>4 DEF StoryInv, On, MovesTile
    <3>2. \A m \in On(t) : mortgages[m].state = "ACTIVE" => mortgages'[m].player = registry'[t].owner
      BY <2>4, <3>1 DEF TileStory, Matched
    <3> QED BY <1>2, <2>1, <2>2, <2>4, <3>1, <3>2, StoryStays DEF StoryInv
  <2> QED BY <2>3, <2>4, <2>5 DEF StoryInv
<1> QED BY <1>1, <1>2

\* A deal that takes up and redeems no mortgage.
LEMMA StoryDeal ==
    ASSUME TypeInv, TypeInv', StoryInv, NEW type \in RegistryTypes, NEW d, NEW tiles, NEW c,
           type \notin {"MORTGAGE", "MORTGAGE_REDEMPTION"}, DOMAIN c \subseteq tiles,
           Deal(type, d, tiles, c), UNCHANGED mortgages,
           \A t \in DOMAIN c :
             /\ t \in DOMAIN registry /\ c[t].before = registry[t]
             /\ ~registry[t].mortgaged /\ c[t].after.mortgaged = registry[t].mortgaged
             /\ c[t].after.owner \in DOMAIN d
    PROVE  StoryInv'
<1> DEFINE tx == TileTx(type, d, tiles, c)
<1>1. /\ log' = Append(log, tx) /\ registry' = applyChanges(registry, c) /\ bankrupt' = bankrupt
  BY DEF Deal, Commit, Frame
<1>2. tx.changes = c /\ tx.delta = d /\ tx.type = type /\ tx.tiles = tiles /\ tx.undoes = 0
  BY DEF TileTx, Tx
<1> HIDE DEF tx
<1>3. TellsTiles(tx)
  BY <1>2 DEF TellsTiles
<1>4. RowsTell'
  BY <1>1, <1>2, <1>3, RowsGrow DEF StoryInv
<1>5. /\ DOMAIN registry' = DOMAIN registry
      /\ \A t \in DOMAIN registry :
           registry'[t] = IF t \in DOMAIN c THEN c[t].after ELSE registry[t]
  BY <1>1 DEF applyChanges
<1>6. ASSUME NEW t \in DOMAIN registry PROVE TileStory(t)'
  <2>1. TileStory(t) /\ On(t)' = On(t) /\ MovesTile(tx, t)
    BY <1>2, <1>5 DEF StoryInv, On, MovesTile
  <2>2. registry'[t].mortgaged = registry[t].mortgaged
    BY <1>5
  <2>3. \A m \in On(t) : mortgages[m].state = "ACTIVE" => mortgages'[m].player = registry'[t].owner
    <3>1. CASE t \in DOMAIN c
      BY <2>1, <3>1 DEF TileStory, Matched
    <3>2. CASE t \notin DOMAIN c
      BY <1>5, <2>1, <3>2 DEF TileStory, Matched
    <3> QED BY <3>1, <3>2
  <2> QED BY <1>1, <1>2, <1>3, <2>1, <2>2, <2>3, StoryStays DEF StoryInv
<1> QED BY <1>4, <1>5, <1>6 DEF StoryInv

\* Buying, building and rent.
LEMMA TilesTell == ASSUME TypeInv, TypeInv', StoryInv, TileStep \/ BuildingStep PROVE StoryInv'
<1>0. EstateTyped /\ DOMAIN registry \subseteq Tiles
  BY RegistryFacts DEF TypeInv
<1>1. ASSUME NEW p \in Active, NEW t \in DOMAIN registry, NEW price, propertyPurchase(p, t, price)
      PROVE  StoryInv'
  <2> DEFINE d == Pays(p, price)
             c == One(t, ownerChange(registry[t], p))
  <2>1. /\ registry[t].owner = Bank /\ Deal("PROPERTY_PURCHASE", d, {t}, c)
        /\ UNCHANGED mortgages /\ DOMAIN d = {p}
    BY <1>1 DEF propertyPurchase, Pays
  <2>2. registry[t] \in TileState /\ p # Bank
    BY <1>0, RegistryFacts, LedgerAssumption DEF Active
  <2>3. /\ [registry[t] EXCEPT !.owner = p].owner = p
        /\ [registry[t] EXCEPT !.owner = p].mortgaged = registry[t].mortgaged
        /\ ~registry[t].mortgaged
    BY <2>1, <2>2 DEF TileState
  <2>4. /\ DOMAIN c = {t} /\ c[t].before = registry[t]
        /\ c[t].after = [registry[t] EXCEPT !.owner = p]
    BY <2>2 DEF One, ownerChange, Change
  <2> HIDE DEF c, d
  <2>5. /\ DOMAIN c \subseteq {t}
        /\ \A u \in DOMAIN c : /\ u \in DOMAIN registry /\ c[u].before = registry[u]
                             /\ ~registry[u].mortgaged /\ c[u].after.mortgaged = registry[u].mortgaged
                             /\ c[u].after.owner \in DOMAIN d
    BY <2>1, <2>3, <2>4
  <2>6. /\ "PROPERTY_PURCHASE" \in RegistryTypes
        /\ "PROPERTY_PURCHASE" \notin {"MORTGAGE", "MORTGAGE_REDEMPTION"}
    BY DEF RegistryTypes
  <2> QED BY <2>1, <2>5, <2>6, StoryDeal
<1>2. ASSUME NEW p \in Active, NEW t \in DOMAIN registry, NEW dice, payRent(p, t, dice)
      PROVE  StoryInv'
  <2> DEFINE d == Moves(p, registry[t].owner, rentFor(registry, t, dice))
  <2>1. Deal("PAY_RENT", d, {t}, NoChange) /\ UNCHANGED mortgages
    BY <1>2 DEF payRent
  <2>2. DOMAIN NoChange = {}
    BY DEF NoChange
  <2> HIDE DEF d
  <2> QED BY <2>1, <2>2, StoryDeal DEF RegistryTypes
<1>3. ASSUME NEW p \in Active, NEW targets, NEW direction, building(p, targets, direction)
      PROVE  StoryInv'
  <2> DEFINE c == LevelChanges(targets)
  <2>1. /\ \E a : \/ Deal("PROPERTY_BUILD", Pays(p, a), DOMAIN c, c)
                  \/ Deal("PROPERTY_SELL_BUILDING", Gets(p, a), DOMAIN c, c)
        /\ UNCHANGED mortgages /\ registry # <<>>
        /\ planBuildings(registry, p, targets, direction)
    BY <1>3 DEF building
  <2>2. ASSUME NEW t \in DOMAIN c
        PROVE  /\ t \in DOMAIN registry /\ c[t].before = registry[t]
               /\ ~registry[t].mortgaged /\ c[t].after.mortgaged = registry[t].mortgaged
               /\ c[t].after.owner = p
    <3>1. registry \in [Tiles -> TileState]
      BY <1>0, <2>1, RegistryFacts
    <3>2. PICK g \in DOMAIN targets :
            /\ holdsFullGroup(registry, g, p) /\ DOMAIN targets \subseteq groupTiles(g)
            /\ \A u \in groupTiles(g) : ~registry[u].mortgaged
      BY <2>1 DEF planBuildings
    <3>3. t \in DOMAIN targets /\ t \in Tiles /\ registry[t].owner = p /\ ~registry[t].mortgaged
      BY <3>2 DEF LevelChanges, holdsFullGroup, groupTiles
    <3>4. /\ [registry[t] EXCEPT !.houses = targets[t]].owner = p
          /\ [registry[t] EXCEPT !.houses = targets[t]].mortgaged = registry[t].mortgaged
      BY <3>1, <3>3 DEF TileState
    <3>5. c[t] = buildingChange(registry[t], targets[t])
      BY DEF LevelChanges
    <3> HIDE DEF c
    <3>6. c[t].before = registry[t] /\ c[t].after = [registry[t] EXCEPT !.houses = targets[t]]
      BY <3>5 DEF buildingChange, Change
    <3> QED BY <3>1, <3>3, <3>4, <3>6
  <2> HIDE DEF c
  <2>3. ASSUME NEW type \in {"PROPERTY_BUILD", "PROPERTY_SELL_BUILDING"}, NEW d, DOMAIN d = {p},
               Deal(type, d, DOMAIN c, c)
        PROVE  StoryInv'
    <3>1. type \in RegistryTypes /\ type \notin {"MORTGAGE", "MORTGAGE_REDEMPTION"}
      BY DEF RegistryTypes
    <3> QED BY <2>1, <2>2, <2>3, <3>1, StoryDeal
  <2>4. PICK a : \/ Deal("PROPERTY_BUILD", Pays(p, a), DOMAIN c, c)
                 \/ Deal("PROPERTY_SELL_BUILDING", Gets(p, a), DOMAIN c, c)
    BY <2>1
  <2>5. DOMAIN Pays(p, a) = {p} /\ DOMAIN Gets(p, a) = {p}
    BY DEF Pays, Gets
  <2> QED BY <2>3, <2>4, <2>5
<1> QED BY <1>1, <1>2, <1>3 DEF TileStep, BuildingStep

\* A mortgage that is taken up on a tile.
LEMMA TakenUpTells ==
    ASSUME TypeInv, TypeInv', StoryInv, NEW p \in Active, NEW t \in DOMAIN registry, mortgageTile(p, t)
    PROVE  StoryInv'
<1> DEFINE d == Gets(p, Tile[t].mortgage)
           c == One(t, mortgageChange(registry[t], TRUE))
           tx == TileTx("MORTGAGE", d, {t}, c)
           row == MortgageRow(p, t, Tile[t].mortgage)
<1>1. /\ registry[t].owner = p /\ ~registry[t].mortgaged
      /\ log' = Append(log, tx) /\ registry' = applyChanges(registry, c) /\ bankrupt' = bankrupt
      /\ mortgages' = Insert(mortgages, row)
  BY DEF mortgageTile, canMortgage, Deal, Commit, Frame
<1>2. /\ tx.changes = c /\ DOMAIN tx.delta = {p} /\ tx.type = "MORTGAGE" /\ tx.tiles = {t}
      /\ tx.undoes = 0
  BY DEF TileTx, Tx, Gets
<1>3. /\ DOMAIN c = {t} /\ c[t].before = registry[t]
      /\ c[t].after.owner = p /\ c[t].after.mortgaged
  <2>1. registry[t] \in TileState
    BY RegistryFacts DEF TypeInv
  <2>2. /\ [registry[t] EXCEPT !.mortgaged = TRUE].owner = p
        /\ [registry[t] EXCEPT !.mortgaged = TRUE].mortgaged
    BY <1>1, <2>1 DEF TileState
  <2> QED BY <2>2 DEF One, mortgageChange, Change
<1>4. row.player = p /\ row.item = t /\ row.state = "ACTIVE" /\ row.redeemedBy = 0
  BY DEF MortgageRow
<1> HIDE DEF c, d, tx, row
<1>5. TellsTiles(tx)
  BY <1>1, <1>2, <1>3 DEF TellsTiles, RegistryTypes
<1>6. PICK x : x = NextId
  OBVIOUS
<1>7. /\ RowsTell' /\ x \notin DOMAIN log /\ log'[x] = tx /\ ~Reversed(x)'
      /\ \A j \in DOMAIN log : j # 0 /\ log'[j] = log[j]
  BY <1>1, <1>2, <1>5, <1>6, RowsGrow DEF StoryInv
<1>8. /\ DOMAIN mortgages' = DOMAIN mortgages \cup {x} /\ DOMAIN mortgages \subseteq DOMAIN log
      /\ mortgages'[x] = row /\ \A m \in DOMAIN mortgages : mortgages'[m] = mortgages[m]
  <2>1. DOMAIN mortgages \subseteq DOMAIN log
    BY LenProperties DEF TypeInv, MoneyTyped, EstateTyped, Table
  <2> QED BY <1>1, <1>6, <1>7, <2>1 DEF Insert
<1>9. /\ DOMAIN registry' = DOMAIN registry
      /\ \A u \in DOMAIN registry : registry'[u] = IF u = t THEN c[t].after ELSE registry[u]
  BY <1>1, <1>3 DEF applyChanges
<1>10. \A u \in DOMAIN registry : MovesTile(tx, u)
  BY <1>1, <1>2, <1>3, <1>9 DEF MovesTile, RegistryTypes
<1>11. ASSUME NEW u \in DOMAIN registry, u # t PROVE TileStory(u)'
  <2>1. TileStory(u) /\ MovesTile(tx, u)
    BY <1>10 DEF StoryInv
  <2>2. On(u)' = On(u) /\ \A m \in On(u) : mortgages'[m] = mortgages[m]
    BY <1>4, <1>7, <1>8, <1>11 DEF On
  <2>3. registry'[u] = registry[u] /\ u \notin DOMAIN tx.changes
    BY <1>2, <1>3, <1>9, <1>11
  <2>4. \A m \in On(u) : mortgages[m].state = "ACTIVE" => mortgages'[m].player = registry'[u].owner
    BY <2>1, <2>2, <2>3 DEF TileStory, Matched
  <2> QED BY <1>1, <1>2, <1>5, <2>1, <2>2, <2>3, <2>4, StoryStays DEF StoryInv
<1>12. TileStory(t)'
  <2>1. TopHolds(t) /\ BelowHolds(t) /\ MortgagesKnown(t) /\ Matched(t) /\ MovesTile(tx, t) /\ RowsTell
    BY <1>10 DEF StoryInv, TileStory
  <2>2. TopHolds(t)' /\ BelowHolds(t)'
    BY <1>1, <1>2, <1>5, <2>1, StackKept
  <2>3. Standing(t)' = Standing(t) \cup {x}
    BY <1>1, <1>2, <1>3, <1>5, <1>6, <2>1, StandingGrows DEF RegistryTypes
  <2>4. On(t)' = On(t) \cup {x} /\ x \notin On(t) /\ \A m \in On(t) : mortgages'[m] = mortgages[m]
    BY <1>4, <1>7, <1>8 DEF On
  <2>5. ASSUME NEW m \in On(t) PROVE MortgageTold(m, t)'
    <3>1. MortgageTold(m, t) /\ tx.undoes # m /\ bankrupt \subseteq bankrupt' /\ mortgages'[m] = mortgages[m]
      BY <1>1, <1>2, <1>7, <1>8, <2>1, <2>4 DEF MortgagesKnown, On
    <3> QED BY <1>1, <1>2, <1>5, <2>1, <2>3, <3>1, ToldAsBefore
  <2>6. MortgageTold(x, t)'
    BY <1>2, <1>4, <1>7, <1>8 DEF MortgageTold
  <2>7. MortgagesKnown(t)'
    <3>1. \A m, n \in On(t)' :
            mortgages'[m].redeemedBy = mortgages'[n].redeemedBy /\ mortgages'[m].redeemedBy # 0 => m = n
      BY <1>4, <1>8, <2>1, <2>4 DEF MortgagesKnown
    <3>2. ASSUME NEW j \in Standing(t)'
          PROVE  /\ log'[j].type = "MORTGAGE" => j \in On(t)'
                 /\ log'[j].type = "MORTGAGE_REDEMPTION" =>
                      \E m \in On(t)' : mortgages'[m].redeemedBy = j
      <4>1. CASE j = x
        BY <1>2, <1>7, <2>4, <4>1
      <4>2. CASE j \in Standing(t)
        <5>1. log'[j] = log[j]
          BY <1>7, <4>2 DEF Standing
        <5> QED BY <2>1, <2>4, <4>2, <5>1 DEF MortgagesKnown
      <4> QED BY <2>3, <3>2, <4>1, <4>2
    <3> QED BY <2>4, <2>5, <2>6, <3>1, <3>2 DEF MortgagesKnown
  <2>8. Matched(t)'
    <3>1. \A m \in On(t) : mortgages'[m].state # "ACTIVE"
      BY <1>1, <2>1, <2>4 DEF Matched
    <3>2. mortgages'[x].state = "ACTIVE" /\ mortgages'[x].player = registry'[t].owner
      BY <1>3, <1>4, <1>8, <1>9
    <3>3. registry'[t].mortgaged
      BY <1>3, <1>9
    <3> QED BY <2>4, <3>1, <3>2, <3>3 DEF Matched
  <2> QED BY <2>2, <2>7, <2>8 DEF TileStory
<1> QED BY <1>7, <1>9, <1>11, <1>12 DEF StoryInv

\* A mortgage on a typed-in name: there is no registry to agree with.
LEMMA NamesTell ==
    ASSUME TypeInv, TypeInv', StoryInv, NEW p \in Active, NEW name, NEW value,
           mortgageProperty(p, name, value)
    PROVE  StoryInv'
<1> DEFINE tx == Tx("MORTGAGE", Gets(p, value))
<1>1. log' = Append(log, tx) /\ DOMAIN registry' = {}
  BY DEF mortgageProperty, Commit
<1>2. Bare(tx)
  BY TxBare
<1> HIDE DEF tx
<1>3. tx.undoes = 0 /\ TellsTiles(tx)
  BY <1>2 DEF Bare, NoChange, TellsTiles
<1>4. RowsTell'
  BY <1>1, <1>3, RowsGrow DEF StoryInv
<1> QED BY <1>1, <1>4 DEF StoryInv

\* A mortgage that is redeemed.
LEMMA RedemptionTells ==
    ASSUME TypeInv, TypeInv', StoryInv, NEW m \in ActiveMortgages, redeemMortgage(m)
    PROVE  StoryInv'
<1> DEFINE p == mortgages[m].player
           t == mortgages[m].item
           d == Pays(p, redemptionCost(mortgages[m].value))
           c == One(t, mortgageChange(registry[t], FALSE))
<1>1. /\ p \in Active /\ mortgages' = Redeemed(m) /\ m \in DOMAIN mortgages
      /\ mortgages[m].state = "ACTIVE" /\ DOMAIN d = {p}
      /\ \/ /\ t \in DOMAIN registry /\ registry[t].owner = p /\ registry[t].mortgaged
            /\ Deal("MORTGAGE_REDEMPTION", d, {t}, c)
         \/ /\ t \notin DOMAIN registry /\ Commit(Tx("MORTGAGE_REDEMPTION", d))
            /\ UNCHANGED registry /\ Frame
  BY DEF redeemMortgage, Pays, ActiveMortgages
<1>2. PICK x : x = NextId
  OBVIOUS
<1>3. /\ DOMAIN mortgages' = DOMAIN mortgages
      /\ mortgages'[m].state = "REDEEMED" /\ mortgages'[m].redeemedBy = x
      /\ mortgages'[m].player = p /\ mortgages'[m].item = t
      /\ \A n \in DOMAIN mortgages \ {m} : mortgages'[n] = mortgages[n]
  <2>1. mortgages \in [DOMAIN mortgages -> MortgageRows] /\ mortgages[m] \in MortgageRows
    BY <1>1 DEF TypeInv, EstateTyped, Table
  <2> QED BY <1>1, <1>2, <2>1 DEF Redeemed, MortgageRows
<1>4. \A u : On(u)' = On(u)
  <2>1. \A n \in DOMAIN mortgages : mortgages'[n].item = mortgages[n].item
    BY <1>3
  <2> QED BY <1>3, <2>1 DEF On
<1>5. DOMAIN mortgages \subseteq DOMAIN log
  BY LenProperties DEF TypeInv, MoneyTyped, EstateTyped, Table
<1>6. ASSUME NEW tx, log' = Append(log, tx), tx.undoes = 0, TellsTiles(tx), bankrupt' = bankrupt,
             NEW u \in DOMAIN registry, u # t, MovesTile(tx, u), u \notin DOMAIN tx.changes,
             registry'[u] = registry[u]
      PROVE  TileStory(u)'
  <2>1. TileStory(u) /\ \A n \in On(u) : mortgages'[n] = mortgages[n]
    BY <1>3, <1>6 DEF StoryInv, On
  <2>2. \A n \in On(u) : mortgages[n].state = "ACTIVE" => mortgages'[n].player = registry'[u].owner
    BY <1>6, <2>1 DEF TileStory, Matched
  <2> HIDE DEF t
  <2> QED BY <1>4, <1>6, <2>1, <2>2, StoryStays DEF StoryInv
<1>7. CASE /\ t \notin DOMAIN registry /\ Commit(Tx("MORTGAGE_REDEMPTION", d))
           /\ UNCHANGED registry /\ Frame
  <2> DEFINE tx == Tx("MORTGAGE_REDEMPTION", d)
  <2>1. log' = Append(log, tx) /\ registry' = registry /\ bankrupt' = bankrupt
    BY <1>7 DEF Commit, Frame
  <2>2. Bare(tx)
    BY TxBare
  <2> HIDE DEF tx, d
  <2>3. tx.undoes = 0 /\ TellsTiles(tx) /\ DOMAIN tx.changes = {}
    BY <2>2 DEF Bare, NoChange, TellsTiles
  <2>4. RowsTell'
    BY <2>1, <2>3, RowsGrow DEF StoryInv
  <2>5. \A u \in DOMAIN registry : u # t /\ MovesTile(tx, u)
    BY <1>7, <2>1, <2>3 DEF MovesTile
  <2> HIDE DEF t
  <2> QED BY <1>6, <2>1, <2>3, <2>4, <2>5 DEF StoryInv
<1>8. CASE /\ t \in DOMAIN registry /\ registry[t].owner = p /\ registry[t].mortgaged
           /\ Deal("MORTGAGE_REDEMPTION", d, {t}, c)
  <2> DEFINE tx == TileTx("MORTGAGE_REDEMPTION", d, {t}, c)
  <2>1. log' = Append(log, tx) /\ registry' = applyChanges(registry, c) /\ bankrupt' = bankrupt
    BY <1>8 DEF Deal, Commit, Frame
  <2>2. /\ tx.changes = c /\ DOMAIN tx.delta = {p} /\ tx.type = "MORTGAGE_REDEMPTION"
        /\ tx.tiles = {t} /\ tx.undoes = 0
    BY <1>1 DEF TileTx, Tx
  <2>3. /\ DOMAIN c = {t} /\ c[t].before = registry[t]
        /\ c[t].after.owner = p /\ ~c[t].after.mortgaged
    <3>1. registry[t] \in TileState
      BY <1>8, RegistryFacts DEF TypeInv
    <3>2. /\ [registry[t] EXCEPT !.mortgaged = FALSE].owner = p
          /\ ~[registry[t] EXCEPT !.mortgaged = FALSE].mortgaged
      BY <1>8, <3>1 DEF TileState
    <3> QED BY <3>2 DEF One, mortgageChange, Change
  <2>4. PICK u : u = t
    OBVIOUS
  <2>5. PICK q : q = p
    OBVIOUS
  <2>6. /\ DOMAIN c = {u} /\ c[u].before = registry[u] /\ c[u].after.owner = q
        /\ ~c[u].after.mortgaged /\ u \in DOMAIN registry /\ registry[u].owner = q
        /\ registry[u].mortgaged /\ mortgages[m].item = u /\ mortgages[m].player = q
        /\ DOMAIN tx.delta = {q} /\ tx.tiles = {u} /\ mortgages'[m].player = q
    BY <1>3, <1>8, <2>2, <2>3, <2>4, <2>5
  <2> HIDE DEF c, d, tx
  <2>7. TellsTiles(tx)
    BY <2>2, <2>6 DEF TellsTiles, RegistryTypes
  <2>8. /\ RowsTell' /\ x \notin DOMAIN log /\ x \in DOMAIN log' /\ log'[x] = tx /\ ~Reversed(x)'
        /\ \A j \in DOMAIN log : j # 0 /\ j < x /\ log'[j] = log[j]
        /\ \A j \in DOMAIN log : Reversed(j)' <=> Reversed(j)
    BY <1>2, <2>1, <2>2, <2>7, RowsGrow DEF StoryInv
  <2>9. /\ DOMAIN registry' = DOMAIN registry
        /\ \A v \in DOMAIN registry : registry'[v] = IF v = u THEN c[u].after ELSE registry[v]
    BY <2>1, <2>6 DEF applyChanges
  <2>10. \A v \in DOMAIN registry : MovesTile(tx, v)
    BY <2>2, <2>6, <2>9 DEF MovesTile, RegistryTypes
  <2>11. ASSUME NEW v \in DOMAIN registry, v # u PROVE TileStory(v)'
    <3>1. v # t /\ v \notin DOMAIN tx.changes /\ registry'[v] = registry[v]
      BY <2>2, <2>4, <2>6, <2>9, <2>11
    <3> HIDE DEF t
    <3> QED BY <1>6, <2>1, <2>2, <2>7, <2>10, <3>1
  <2> HIDE DEF p, t
  <2>12. TileStory(u)'
    <3>1. TopHolds(u) /\ BelowHolds(u) /\ MortgagesKnown(u) /\ Matched(u) /\ MovesTile(tx, u) /\ RowsTell
      BY <2>6, <2>10 DEF StoryInv, TileStory
    <3>0. x # 0
      BY <1>2, LenProperties DEF TypeInv, MoneyTyped, NextId
    <3>2. TopHolds(u)' /\ BelowHolds(u)'
      BY <2>1, <2>2, <2>7, <3>1, StackKept
    <3>3. Standing(u)' = Standing(u) \cup {x}
      BY <1>2, <2>1, <2>2, <2>6, <2>7, <3>1, StandingGrows DEF RegistryTypes
    <3>4. m \in On(u) /\ \A n \in On(u) \ {m} : mortgages'[n] = mortgages[n]
      BY <1>1, <1>3, <2>6 DEF On
    <3>5. ASSUME NEW n \in On(u), n # m PROVE MortgageTold(n, u)'
      <4>1. MortgageTold(n, u) /\ tx.undoes # n /\ bankrupt \subseteq bankrupt'
            /\ mortgages'[n] = mortgages[n]
        BY <1>5, <2>1, <2>2, <2>8, <3>1, <3>4, <3>5 DEF MortgagesKnown, On
      <4> QED BY <2>1, <2>2, <2>7, <3>1, <3>3, <4>1, ToldAsBefore
    <3>6. MortgageTold(m, u) /\ mortgages[m].redeemedBy = 0
      BY <1>1, <3>1, <3>4 DEF MortgagesKnown, MortgageTold, RedeemedIn
    <3>7. MortgageTold(m, u)'
      <4>1. RedeemedIn(m, mortgages[m].redeemedBy, u)'
        BY <1>1, <1>3, <1>5, <2>2, <2>6, <2>8 DEF RedeemedIn
      <4>2. ~Reversed(m)' /\ log'[m] = log[m]
        BY <1>1, <1>5, <2>8, <3>6 DEF MortgageTold
      <4> QED BY <1>3, <3>0, <3>6, <4>1, <4>2 DEF MortgageTold
    <3>8. \A n \in On(u) : mortgages[n].redeemedBy # x
      <4>1. \A n \in On(u) : mortgages[n].redeemedBy # 0 => mortgages[n].redeemedBy \in DOMAIN log
        BY <3>1 DEF MortgagesKnown, MortgageTold, RedeemedIn
      <4> QED BY <2>8, <3>0, <4>1
    <3>9. MortgagesKnown(u)'
      <4>1. \A n, k \in On(u) :
              mortgages'[n].redeemedBy = mortgages'[k].redeemedBy /\ mortgages'[n].redeemedBy # 0 => n = k
        BY <1>3, <3>1, <3>4, <3>8 DEF MortgagesKnown
      <4>2. ASSUME NEW j \in Standing(u)'
            PROVE  /\ log'[j].type = "MORTGAGE" => j \in On(u)
                   /\ log'[j].type = "MORTGAGE_REDEMPTION" =>
                        \E n \in On(u) : mortgages'[n].redeemedBy = j
        <5>1. CASE j = x
          BY <1>3, <2>2, <2>8, <3>4, <5>1
        <5>2. CASE j \in Standing(u)
          <6>1. log'[j] = log[j] /\ j # 0
            BY <2>8, <5>2 DEF Standing
          <6>2. log[j].type = "MORTGAGE_REDEMPTION" =>
                  \E n \in On(u) : n # m /\ mortgages[n].redeemedBy = j
            BY <3>1, <3>6, <5>2, <6>1 DEF MortgagesKnown
          <6>3. log[j].type = "MORTGAGE" => j \in On(u)
            BY <3>1, <5>2 DEF MortgagesKnown
          <6> QED BY <3>4, <6>1, <6>2, <6>3
        <5> QED BY <3>3, <4>2, <5>1, <5>2
      <4> QED BY <1>4, <3>5, <3>7, <4>1, <4>2 DEF MortgagesKnown
    <3>10. Matched(u)'
      <4>1. \A n \in On(u) : mortgages'[n].state # "ACTIVE"
        BY <1>1, <1>3, <3>1, <3>4 DEF Matched
      <4>2. ~registry'[u].mortgaged
        BY <2>6, <2>9
      <4> QED BY <1>4, <4>1, <4>2 DEF Matched
    <3> QED BY <3>2, <3>9, <3>10 DEF TileStory
  <2> QED BY <2>8, <2>9, <2>11, <2>12 DEF StoryInv
<1> QED BY <1>1, <1>7, <1>8

\* Mortgages.
LEMMA MortgagesTell == ASSUME TypeInv, TypeInv', StoryInv, MortgageStep PROVE StoryInv'
  BY TakenUpTells, NamesTell, RedemptionTells DEF MortgageStep

\* A mortgage that is handed over keeps everything but its player.
LEMMA HandOverKeeps ==
    ASSUME TypeInv, NEW c, NEW m \in DOMAIN mortgages
    PROVE  LET row == HandOver(c)[m]
           IN /\ row.item = mortgages[m].item /\ row.state = mortgages[m].state
              /\ row.redeemedBy = mortgages[m].redeemedBy
              /\ row.player =
                   IF /\ mortgages[m].state = "ACTIVE" /\ mortgages[m].item \in DOMAIN c
                      /\ c[mortgages[m].item].before.mortgaged
                      /\ c[mortgages[m].item].after.mortgaged
                     THEN c[mortgages[m].item].after.owner ELSE mortgages[m].player
<1>1. mortgages[m] \in MortgageRows
  BY MortgageFacts DEF TypeInv
<1>2. PICK t : t = mortgages[m].item
  OBVIOUS
<1>3. CASE /\ mortgages[m].state = "ACTIVE" /\ t \in DOMAIN c
           /\ c[t].before.mortgaged /\ c[t].after.mortgaged
  <2>1. HandOver(c)[m] = [mortgages[m] EXCEPT !.player = c[t].after.owner]
    BY <1>2, <1>3 DEF HandOver
  <2> QED BY <1>1, <1>2, <1>3, <2>1 DEF MortgageRows
<1>4. CASE ~ /\ mortgages[m].state = "ACTIVE" /\ t \in DOMAIN c
             /\ c[t].before.mortgaged /\ c[t].after.mortgaged
  <2>1. HandOver(c)[m] = mortgages[m]
    BY <1>2, <1>4 DEF HandOver
  <2> QED BY <1>2, <1>4, <2>1
<1> QED BY <1>3, <1>4

\* A trade that is accepted.
LEMMA TradeTells ==
    ASSUME TypeInv, TypeInv', StoryInv, NEW r \in DOMAIN trades, acceptTradeRequest(r)
    PROVE  StoryInv'
<1> DEFINE x == trades[r]
           tx == transferProperties(x)
           c == TransferChanges(x)
<1>1. /\ Tradable(x.from, x.to, x.give, x.take) /\ log' = Append(log, tx) /\ bankrupt' = bankrupt
      /\ registry' = applyChanges(registry, c) /\ mortgages' = HandOver(c)
  BY DEF acceptTradeRequest, Commit, Frame
<1>2. /\ tx.changes = c /\ DOMAIN tx.delta = {x.from, x.to} /\ tx.type = "PROPERTY_TRANSFER"
      /\ tx.tiles = x.give \cup x.take /\ tx.undoes = 0
  BY DEF transferProperties, Tx, TransferDelta
<1>3. DOMAIN c = x.give \cup x.take /\ DOMAIN c \subseteq DOMAIN registry
  BY <1>1 DEF TransferChanges, Tradable
<1>4. ASSUME NEW t \in DOMAIN c
      PROVE  /\ c[t].before = registry[t] /\ c[t].after.owner \in {x.from, x.to}
             /\ c[t].after.mortgaged = registry[t].mortgaged
  <2>1. t \in x.give \cup x.take /\ t \in DOMAIN registry
    BY <1>3
  <2>2. registry[t] \in TileState
    BY <2>1, RegistryFacts DEF TypeInv
  <2>3. PICK q : q = IF t \in x.give THEN x.to ELSE x.from
    OBVIOUS
  <2>4. c[t] = ownerChange(registry[t], q) /\ q \in {x.from, x.to} /\ q # Bank
    BY <1>1, <2>1, <2>3, LedgerAssumption DEF TransferChanges, Tradable, Active
  <2>5. /\ [registry[t] EXCEPT !.owner = q].owner = q
        /\ [registry[t] EXCEPT !.owner = q].mortgaged = registry[t].mortgaged
    BY <2>2 DEF TileState
  <2> HIDE DEF c, x
  <2>6. c[t].before = registry[t] /\ c[t].after = [registry[t] EXCEPT !.owner = q]
    BY <2>4 DEF ownerChange, Change
  <2> QED BY <2>4, <2>5, <2>6
<1> HIDE DEF x, tx, c
<1>5. TellsTiles(tx)
  BY <1>2, <1>3, <1>4 DEF TellsTiles, RegistryTypes
<1>6. RowsTell'
  BY <1>1, <1>2, <1>5, RowsGrow DEF StoryInv
<1>7. /\ DOMAIN registry' = DOMAIN registry
      /\ \A t \in DOMAIN registry :
           registry'[t] = IF t \in DOMAIN c THEN c[t].after ELSE registry[t]
  BY <1>1 DEF applyChanges
<1>8. \A t \in DOMAIN registry : MovesTile(tx, t)
  BY <1>2, <1>4, <1>7 DEF MovesTile, RegistryTypes
<1>9. DOMAIN mortgages' = DOMAIN mortgages
  BY <1>1 DEF HandOver
<1>10. ASSUME NEW t \in DOMAIN registry PROVE TileStory(t)'
  <2>1. TileStory(t) /\ MovesTile(tx, t)
    BY <1>8 DEF StoryInv
  <2>2. On(t)' = On(t)
    <3>1. \A m \in DOMAIN mortgages : mortgages'[m].item = mortgages[m].item
      BY <1>1, HandOverKeeps
    <3> QED BY <1>9, <3>1 DEF On
  <2>3. registry'[t].mortgaged = registry[t].mortgaged
    BY <1>4, <1>7
  <2>4. ASSUME NEW m \in On(t)
        PROVE  /\ mortgages'[m].state = mortgages[m].state
               /\ mortgages'[m].redeemedBy = mortgages[m].redeemedBy
               /\ mortgages[m].redeemedBy # 0 => mortgages'[m].player = mortgages[m].player
               /\ mortgages[m].state = "ACTIVE" => mortgages'[m].player = registry'[t].owner
    <3>1. m \in DOMAIN mortgages /\ mortgages[m].item = t /\ MortgageTold(m, t)
      BY <2>1 DEF On, TileStory, MortgagesKnown
    <3>2. /\ mortgages'[m].state = mortgages[m].state
          /\ mortgages'[m].redeemedBy = mortgages[m].redeemedBy
          /\ mortgages'[m].player =
               IF mortgages[m].state = "ACTIVE" /\ t \in DOMAIN c
                  /\ c[t].before.mortgaged /\ c[t].after.mortgaged
                 THEN c[t].after.owner ELSE mortgages[m].player
      BY <1>1, <3>1, HandOverKeeps
    <3>3. mortgages[m].redeemedBy # 0 => mortgages[m].state # "ACTIVE"
      BY <3>1 DEF MortgageTold, RedeemedIn
    <3>4. mortgages[m].state = "ACTIVE" =>
            registry[t].mortgaged /\ mortgages[m].player = registry[t].owner
      BY <2>1 DEF TileStory, Matched
    <3>5. mortgages[m].state = "ACTIVE" => mortgages'[m].player = registry'[t].owner
      <4>1. CASE t \in DOMAIN c
        BY <1>4, <1>7, <3>2, <3>4, <4>1
      <4>2. CASE t \notin DOMAIN c
        BY <1>7, <3>2, <3>4, <4>2
      <4> QED BY <4>1, <4>2
    <3> QED BY <3>2, <3>3, <3>5
  <2> QED BY <1>1, <1>2, <1>5, <2>1, <2>2, <2>3, <2>4, StoryStays DEF StoryInv
<1> QED BY <1>6, <1>7, <1>10 DEF StoryInv

\* Trades.
LEMMA TradesTell == ASSUME TypeInv, TypeInv', StoryInv, TradeStep PROVE StoryInv'
<1>1. ASSUME \/ \E p, q \in Active, give, take \in Sides, cashGive, cashTake \in Cash :
                  createTradeRequest(p, q, give, take, cashGive, cashTake)
             \/ \E r \in DOMAIN trades, state \in {"DECLINED", "CANCELLED"} :
                  resolveTradeRequest(r, state)
             \/ listTradeRequests
      PROVE  StoryInv'
  <2>1. UNCHANGED <<log, estate, bankrupt>>
    BY <1>1, TradesTalk DEF Frame
  <2> QED BY <2>1, StoryQuiet
<1> QED BY <1>1, TradeTells DEF TradeStep

\* What a reversal makes of the log, the registry and the mortgages.
LEMMA ReversalFacts ==
    ASSUME TypeInv, TypeInv', StoryInv, NEW i \in DOMAIN log, reverseTransaction(i)
    PROVE  /\ log' = Append(log, Undoing(i)) /\ Undoing(i).undoes = i /\ TellsTiles(Undoing(i))
           /\ RowsTell' /\ bankrupt' = bankrupt /\ mortgages' = mortgageReversal(i)
           /\ i \in Nat \ {0} /\ ~Reversed(i) /\ ~Stuck(i)
           /\ \A j \in DOMAIN log : /\ j \in Nat \ {0} /\ log'[j] = log[j]
                                    /\ Reversed(j)' <=> Reversed(j) \/ i = j
           /\ \A t : Standing(t)' = Standing(t) \ {i}
           /\ DOMAIN registry' = DOMAIN registry
           /\ \A t \in DOMAIN registry :
                registry'[t] = IF t \in DOMAIN log[i].changes THEN log[i].changes[t].before
                                                              ELSE registry[t]
           /\ \A t \in DOMAIN log[i].changes : registry[t] = log[i].changes[t].after
           /\ log[i].type \in RegistryTypes \/ DOMAIN log[i].changes = {}
           /\ \A j \in DOMAIN log :
                ~Reversed(j) /\ log[j].type \in RegistryTypes /\ Overlap(log[i].tiles, log[j].tiles) =>
                  j <= i
<1> DEFINE c == invertChanges(log[i].changes)
           tx == Undoing(i)
<1>1. /\ log[i].type \notin NonReversible /\ ~Reversed(i) /\ ReversalDependencies(i) = {}
      /\ DOMAIN log[i].delta \subseteq Active /\ Matches(registry, c)
      /\ log' = Append(log, tx) /\ registry' = applyChanges(registry, c)
      /\ mortgages' = mortgageReversal(i) /\ bankrupt' = bankrupt
  BY DEF reverseTransaction, reversibleTransaction, Undoing, Commit, Frame
<1>2. tx.type = "REVERSAL" /\ tx.undoes = i
  BY DEF Undoing, TileTx, Tx
<1>3. /\ DOMAIN c = DOMAIN log[i].changes
      /\ \A t \in DOMAIN c : c[t].before = log[i].changes[t].after /\ c[t].after = log[i].changes[t].before
  BY DEF invertChanges, Change
<1> HIDE DEF c, tx
<1>4. TellsTiles(tx)
  BY <1>2 DEF TellsTiles, RegistryTypes
<1>5. PICK x : x = NextId
  OBVIOUS
<1>6. /\ RowsTell' /\ x \notin DOMAIN log /\ log'[x] = tx /\ DOMAIN log' = DOMAIN log \cup {x}
      /\ \A j \in DOMAIN log : /\ j \in Nat \ {0} /\ log'[j] = log[j]
                               /\ Reversed(j)' <=> Reversed(j) \/ i = j
  BY <1>1, <1>2, <1>4, <1>5, RowsGrow DEF StoryInv
<1>7. ~Stuck(i)
  BY <1>1 DEF Stuck, Active
<1>8. ASSUME NEW t PROVE Standing(t)' = Standing(t) \ {i}
  <2>1. \A j \in DOMAIN log : j \in Standing(t)' <=> j \in Standing(t) \ {i}
    BY <1>6 DEF Standing
  <2>2. x \notin Standing(t)'
    BY <1>2, <1>6 DEF Standing, RegistryTypes
  <2>3. Standing(t)' \subseteq DOMAIN log \cup {x} /\ Standing(t) \subseteq DOMAIN log
    BY <1>6 DEF Standing
  <2> QED BY <2>1, <2>2, <2>3
<1>9. /\ DOMAIN registry' = DOMAIN registry
      /\ \A t \in DOMAIN registry :
           registry'[t] = IF t \in DOMAIN log[i].changes THEN log[i].changes[t].before
                                                         ELSE registry[t]
  BY <1>1, <1>3 DEF applyChanges
<1>10. \A t \in DOMAIN log[i].changes : registry[t] = log[i].changes[t].after
  BY <1>1, <1>3 DEF Matches
<1>11. log[i].type \in RegistryTypes \/ DOMAIN log[i].changes = {}
  <2>1. TellsTiles(log[i])
    BY DEF StoryInv, RowsTell
  <2> QED BY <1>1, <2>1 DEF TellsTiles, NonReversible
<1>12. ASSUME NEW j \in DOMAIN log, ~Reversed(j), log[j].type \in RegistryTypes,
              Overlap(log[i].tiles, log[j].tiles)
       PROVE  j <= i
  <2>1. Len(log) \in Nat /\ j \in 1 .. Len(log) /\ i \in Nat
    BY <1>6, LenProperties DEF TypeInv, MoneyTyped
  <2>2. j \notin i + 1 .. Len(log)
    BY <1>1, <1>12 DEF ReversalDependencies
  <2> QED BY <2>1, <2>2
<1> QED BY <1>1, <1>2, <1>4, <1>6, <1>7, <1>8, <1>9, <1>10, <1>11, <1>12 DEF tx

\* What it makes of one mortgage.
LEMMA ReversedRow ==
    ASSUME TypeInv, NEW i \in DOMAIN log, NEW m \in DOMAIN mortgages
    PROVE  LET row == mortgageReversal(i)[m]
           IN /\ row.item = mortgages[m].item
              /\ m = i => /\ row.state = "RELEASED" /\ row.player = mortgages[m].player
                          /\ row.redeemedBy = mortgages[m].redeemedBy
              /\ m # i /\ mortgages[m].redeemedBy = i =>
                   row.state = "ACTIVE" /\ row.player = mortgages[m].player /\ row.redeemedBy = 0
              /\ m # i /\ mortgages[m].redeemedBy # i =>
                   row = HandOver(invertChanges(log[i].changes))[m]
<1>1. mortgages[m] \in MortgageRows
  BY MortgageFacts DEF TypeInv
<1>2. CASE m = i
  <2>1. mortgageReversal(i)[m] = [mortgages[m] EXCEPT !.state = "RELEASED"]
    BY <1>2 DEF mortgageReversal
  <2> QED BY <1>1, <1>2, <2>1 DEF MortgageRows
<1>3. CASE m # i /\ mortgages[m].redeemedBy = i
  <2>1. mortgageReversal(i)[m] = [mortgages[m] EXCEPT !.state = "ACTIVE", !.redeemedBy = 0]
    BY <1>3 DEF mortgageReversal
  <2> QED BY <1>1, <1>3, <2>1 DEF MortgageRows
<1>4. CASE m # i /\ mortgages[m].redeemedBy # i
  <2>1. mortgageReversal(i)[m] = HandOver(invertChanges(log[i].changes))[m]
    BY <1>4 DEF mortgageReversal
  <2> QED BY <1>4, <2>1, HandOverKeeps
<1> QED BY <1>2, <1>3, <1>4

\* A tile of which the undone transaction moved nothing, or all but its mortgage.
LEMMA PlainUndone ==
    ASSUME TypeInv, TypeInv', StoryInv, NEW i \in DOMAIN log, reverseTransaction(i),
           NEW t \in DOMAIN registry, TopHolds(t)', BelowHolds(t)', On(t)' = On(t),
           log[i].type \notin {"MORTGAGE", "MORTGAGE_REDEMPTION"} \/ t \notin DOMAIN log[i].changes
    PROVE  TileStory(t)'
<1> DEFINE ch == log[i].changes
<1>1. /\ TileStory(t) /\ TellsTiles(log[i])
      /\ log' = Append(log, Undoing(i)) /\ Undoing(i).undoes = i /\ TellsTiles(Undoing(i))
      /\ bankrupt \subseteq bankrupt' /\ mortgages' = mortgageReversal(i) /\ i # 0 /\ ~Stuck(i)
      /\ \A j \in DOMAIN log : log'[j] = log[j]
      /\ Standing(t)' = Standing(t) \ {i}
      /\ registry'[t] = IF t \in DOMAIN ch THEN ch[t].before ELSE registry[t]
      /\ t \in DOMAIN ch => registry[t] = ch[t].after
      /\ log[i].type \in RegistryTypes \/ DOMAIN ch = {}
  BY ReversalFacts DEF StoryInv, RowsTell
<1>2. /\ DOMAIN invertChanges(ch) = DOMAIN ch
      /\ t \in DOMAIN ch => /\ invertChanges(ch)[t].before = ch[t].after
                            /\ invertChanges(ch)[t].after = ch[t].before
  BY DEF invertChanges, Change
<1> HIDE DEF ch
<1>3. t \in DOMAIN ch => ch[t].before.mortgaged = ch[t].after.mortgaged
  BY <1>1 DEF TellsTiles, ch
<1>4. ASSUME NEW m \in On(t)
      PROVE  /\ m # i /\ mortgages[m].redeemedBy # i
             /\ mortgages'[m].state = mortgages[m].state
             /\ mortgages'[m].redeemedBy = mortgages[m].redeemedBy
             /\ mortgages[m].redeemedBy # 0 => mortgages'[m].player = mortgages[m].player
             /\ mortgages[m].state = "ACTIVE" => mortgages'[m].player = registry'[t].owner
             /\ MortgageTold(m, t)
  <2>1. MortgageTold(m, t) /\ m \in DOMAIN mortgages /\ mortgages[m].item = t
    BY <1>1 DEF TileStory, MortgagesKnown, On
  <2>2. log[i].type \in {"MORTGAGE", "MORTGAGE_REDEMPTION"} => t \notin log[i].tiles
    BY <1>1 DEF TellsTiles
  <2>3. m # i
    BY <2>1, <2>2 DEF MortgageTold
  <2>4. mortgages[m].redeemedBy # i
    <3>1. CASE mortgages[m].redeemedBy = i
      <4>1. log[i].type = "MORTGAGE_REDEMPTION" /\ log[i].tiles = {t}
        BY <1>1, <2>1, <3>1 DEF MortgageTold, RedeemedIn
      <4> QED BY <2>2, <4>1
    <3> QED BY <3>1
  <2>5. mortgages'[m] = HandOver(invertChanges(ch))[m]
    BY <1>1, <2>1, <2>3, <2>4, ReversedRow DEF ch
  <2>6. /\ mortgages'[m].state = mortgages[m].state
        /\ mortgages'[m].redeemedBy = mortgages[m].redeemedBy
        /\ mortgages'[m].player =
             IF mortgages[m].state = "ACTIVE" /\ t \in DOMAIN ch
                /\ ch[t].after.mortgaged /\ ch[t].before.mortgaged
               THEN ch[t].before.owner ELSE mortgages[m].player
    BY <1>2, <2>1, <2>5, HandOverKeeps
  <2>7. mortgages[m].redeemedBy # 0 => mortgages[m].state # "ACTIVE"
    BY <2>1 DEF MortgageTold, RedeemedIn
  <2>8. mortgages[m].state = "ACTIVE" =>
          registry[t].mortgaged /\ mortgages[m].player = registry[t].owner
    BY <1>1 DEF TileStory, Matched
  <2>9. mortgages[m].state = "ACTIVE" => mortgages'[m].player = registry'[t].owner
    <3>1. CASE t \in DOMAIN ch
      BY <1>1, <1>3, <2>6, <2>8, <3>1
    <3>2. CASE t \notin DOMAIN ch
      BY <1>1, <2>6, <2>8, <3>2
    <3> QED BY <3>1, <3>2
  <2> QED BY <2>1, <2>3, <2>4, <2>6, <2>7, <2>9
<1>5. ASSUME NEW m \in On(t) PROVE MortgageTold(m, t)'
  <2>1. \A k \in Standing(t) : Stuck(k) => k \in Standing(t)'
    BY <1>1
  <2> QED BY <1>1, <1>4, <2>1, ToldAsBefore DEF StoryInv
<1>6. MortgagesKnown(t)'
  <2>1. \A j \in Standing(t) : log'[j] = log[j]
    BY <1>1 DEF Standing
  <2> QED BY <1>1, <1>4, <1>5, <2>1, KnownAsBefore DEF TileStory
<1>7. registry'[t].mortgaged = registry[t].mortgaged
  BY <1>1, <1>3
<1>8. Matched(t)'
  BY <1>1, <1>4, <1>7, MatchedAsBefore DEF TileStory
<1> QED BY <1>6, <1>8 DEF TileStory

\* A mortgage that is undone.
LEMMA MortgageUndone ==
    ASSUME TypeInv, TypeInv', StoryInv, NEW i \in DOMAIN log, reverseTransaction(i),
           NEW t \in DOMAIN registry, TopHolds(t)', BelowHolds(t)', On(t)' = On(t),
           log[i].type = "MORTGAGE", t \in DOMAIN log[i].changes,
           i \in Standing(t), \A j \in Standing(t) : j <= i
    PROVE  TileStory(t)'
<1> DEFINE ch == log[i].changes
<1>1. /\ TileStory(t) /\ TellsTiles(log[i])
      /\ log' = Append(log, Undoing(i)) /\ Undoing(i).undoes = i /\ TellsTiles(Undoing(i))
      /\ bankrupt \subseteq bankrupt' /\ mortgages' = mortgageReversal(i) /\ i \in Nat \ {0} /\ ~Stuck(i)
      /\ \A j \in DOMAIN log : log'[j] = log[j] /\ (Reversed(j)' <=> Reversed(j) \/ i = j) /\ j \in Nat
      /\ Standing(t)' = Standing(t) \ {i} /\ ~Reversed(i)
      /\ registry'[t] = ch[t].before /\ registry[t] = ch[t].after
      /\ \A j \in DOMAIN log :
           ~Reversed(j) /\ log[j].type \in RegistryTypes /\ Overlap(log[i].tiles, log[j].tiles) => j <= i
  BY ReversalFacts DEF StoryInv, RowsTell
<1>2. /\ ~ch[t].before.mortgaged /\ ch[t].after.mortgaged
  BY <1>1 DEF TellsTiles, RegistryTypes
<1> HIDE DEF ch
<1>3. MortgagesKnown(t) /\ Matched(t) /\ RowsTell
  BY <1>1 DEF TileStory, StoryInv
<1>4. i \in On(t) /\ MortgageTold(i, t)
  BY <1>3 DEF MortgagesKnown
<1>5. i \in DOMAIN mortgages /\ mortgages[i].state \in {"ACTIVE", "REDEEMED", "RELEASED"}
  BY <1>4, MortgageFacts DEF On, TypeInv, MortgageRows
<1>6. mortgages[i].redeemedBy = 0
  <2>1. ASSUME NEW r, r = mortgages[i].redeemedBy, r # 0 PROVE FALSE
    <3>1. RedeemedIn(i, r, t)
      BY <1>4, <2>1 DEF MortgageTold
    <3>2. r \in DOMAIN log /\ r > i /\ log[r].type \in RegistryTypes /\ ~Reversed(r)
          /\ log[r].tiles = {t} /\ log[i].tiles = {t}
      BY <1>4, <3>1 DEF RedeemedIn, RegistryTypes, MortgageTold
    <3>3. r <= i
      BY <1>1, <3>2 DEF Overlap
    <3> QED BY <1>1, <3>2, <3>3
  <2> QED BY <2>1
<1>7. mortgages[i].state # "RELEASED"
  <2>1. ASSUME NEW k \in Standing(t), i <= k, Stuck(k) PROVE FALSE
    <3>1. k \in Nat /\ k <= i
      BY <1>1 DEF Standing
    <3>2. k = i
      BY <1>1, <2>1, <3>1
    <3> QED BY <1>1, <2>1, <3>2
  <2> QED BY <1>1, <1>4, <2>1 DEF MortgageTold
<1>8. mortgages[i].state = "ACTIVE"
  BY <1>4, <1>5, <1>6, <1>7 DEF MortgageTold
<1>9. mortgages'[i].state = "RELEASED" /\ mortgages'[i].redeemedBy = 0
  BY <1>1, <1>5, <1>6, ReversedRow
<1>10. ASSUME NEW m \in On(t), m # i
       PROVE  /\ MortgageTold(m, t) /\ mortgages[m].redeemedBy # i /\ mortgages[m].state # "ACTIVE"
              /\ mortgages'[m].state = mortgages[m].state
              /\ mortgages'[m].redeemedBy = mortgages[m].redeemedBy
              /\ mortgages'[m].player = mortgages[m].player
  <2>1. MortgageTold(m, t) /\ m \in DOMAIN mortgages
    BY <1>3 DEF MortgagesKnown, On
  <2>2. mortgages[m].redeemedBy # i
    BY <1>1, <2>1 DEF MortgageTold, RedeemedIn
  <2>3. mortgages[m].state # "ACTIVE"
    BY <1>3, <1>4, <1>8, <1>10 DEF Matched
  <2>4. mortgages'[m] = HandOver(invertChanges(log[i].changes))[m]
    BY <1>1, <1>10, <2>1, <2>2, ReversedRow
  <2> QED BY <2>1, <2>2, <2>3, <2>4, HandOverKeeps
<1>11. ASSUME NEW m \in On(t) PROVE MortgageTold(m, t)'
  <2>1. CASE m = i
    <3>1. Reversed(i)' /\ log'[i] = log[i]
      BY <1>1
    <3>2. mortgages'[m].redeemedBy = 0 /\ mortgages'[m].state = "RELEASED"
      BY <1>9, <2>1
    <3>3. log'[m].type = "MORTGAGE" /\ log'[m].tiles = {t} /\ Reversed(m)'
      BY <1>4, <2>1, <3>1 DEF MortgageTold
    <3> QED BY <3>2, <3>3 DEF MortgageTold
  <2>2. CASE m # i
    <3>1. \A k \in Standing(t) : Stuck(k) => k \in Standing(t)'
      BY <1>1
    <3> QED BY <1>1, <1>3, <1>10, <2>2, <3>1, ToldAsBefore
  <2> QED BY <2>1, <2>2
<1>12. MortgagesKnown(t)'
  <2>1. \A m \in On(t) : mortgages'[m].redeemedBy = mortgages[m].redeemedBy
    BY <1>6, <1>9, <1>10
  <2>2. \A j \in Standing(t) : log'[j] = log[j]
    BY <1>1 DEF Standing
  <2> QED BY <1>1, <1>3, <1>11, <2>1, <2>2, KnownAsBefore
<1>13. Matched(t)'
  <2>1. \A m \in On(t) : mortgages'[m].state # "ACTIVE"
    BY <1>9, <1>10
  <2>2. ~registry'[t].mortgaged
    BY <1>1, <1>2
  <2> QED BY <2>1, <2>2 DEF Matched
<1> QED BY <1>12, <1>13 DEF TileStory

\* A redemption that is undone.
LEMMA RedemptionUndone ==
    ASSUME TypeInv, TypeInv', StoryInv, NEW i \in DOMAIN log, reverseTransaction(i),
           NEW t \in DOMAIN registry, TopHolds(t)', BelowHolds(t)', On(t)' = On(t),
           log[i].type = "MORTGAGE_REDEMPTION", t \in DOMAIN log[i].changes, i \in Standing(t)
    PROVE  TileStory(t)'
<1> DEFINE ch == log[i].changes
<1>1. /\ TileStory(t) /\ TellsTiles(log[i])
      /\ log' = Append(log, Undoing(i)) /\ Undoing(i).undoes = i /\ TellsTiles(Undoing(i))
      /\ bankrupt \subseteq bankrupt' /\ mortgages' = mortgageReversal(i) /\ i \in Nat \ {0} /\ ~Stuck(i)
      /\ \A j \in DOMAIN log : log'[j] = log[j] /\ (Reversed(j)' <=> Reversed(j) \/ i = j) /\ j \in Nat
      /\ Standing(t)' = Standing(t) \ {i}
      /\ registry'[t] = ch[t].before /\ registry[t] = ch[t].after
  BY ReversalFacts DEF StoryInv, RowsTell
<1>2. /\ ch[t].before.mortgaged /\ ~ch[t].after.mortgaged
  BY <1>1 DEF TellsTiles, RegistryTypes
<1>3. MortgagesKnown(t) /\ Matched(t) /\ RowsTell
  BY <1>1 DEF TileStory, StoryInv
<1>4. PICK m \in On(t) : mortgages[m].redeemedBy = i
  BY <1>3 DEF MortgagesKnown
<1>5. MortgageTold(m, t) /\ m \in DOMAIN mortgages
  BY <1>3 DEF MortgagesKnown, On
<1>6. m \in DOMAIN log
  BY <1>5, LenProperties DEF TypeInv, EstateTyped, Table, MoneyTyped
<1>7. mortgages[m].state = "REDEEMED" /\ i > m /\ ch[t].before.owner = mortgages[m].player
  BY <1>1, <1>4, <1>5 DEF MortgageTold, RedeemedIn
<1>8. m # i /\ m \in Nat
  BY <1>1, <1>6, <1>7
<1> HIDE DEF ch
<1>9. /\ mortgages'[m].state = "ACTIVE" /\ mortgages'[m].redeemedBy = 0
      /\ mortgages'[m].player = registry'[t].owner
  BY <1>1, <1>4, <1>5, <1>7, <1>8, ReversedRow
<1>10. ASSUME NEW n \in On(t), n # m
       PROVE  /\ MortgageTold(n, t) /\ n # i /\ mortgages[n].redeemedBy # i /\ mortgages[n].state # "ACTIVE"
              /\ mortgages'[n].state = mortgages[n].state
              /\ mortgages'[n].redeemedBy = mortgages[n].redeemedBy
              /\ mortgages'[n].player = mortgages[n].player
  <2>1. MortgageTold(n, t) /\ n \in DOMAIN mortgages
    BY <1>3 DEF MortgagesKnown, On
  <2>2. mortgages[n].redeemedBy # i
    BY <1>1, <1>3, <1>4, <1>10 DEF MortgagesKnown
  <2>3. mortgages[n].state # "ACTIVE"
    BY <1>1, <1>2, <1>3 DEF Matched
  <2>4. n # i
    BY <2>1 DEF MortgageTold
  <2>5. mortgages'[n] = HandOver(invertChanges(log[i].changes))[n]
    BY <1>1, <2>1, <2>2, <2>4, ReversedRow
  <2> QED BY <2>1, <2>2, <2>3, <2>4, <2>5, HandOverKeeps
<1>11. ASSUME NEW n \in On(t) PROVE MortgageTold(n, t)'
  <2>1. CASE n = m
    <3>1. ~Reversed(m)' /\ log'[m] = log[m]
      BY <1>1, <1>5, <1>6, <1>7, <1>8 DEF MortgageTold
    <3>2. log'[m].type = "MORTGAGE" /\ log'[m].tiles = {t}
      BY <1>5, <3>1 DEF MortgageTold
    <3>3. MortgageTold(m, t)'
      BY <1>9, <3>1, <3>2 DEF MortgageTold
    <3> QED BY <2>1, <3>3
  <2>2. CASE n # m
    <3>1. \A k \in Standing(t) : Stuck(k) => k \in Standing(t)'
      BY <1>1
    <3> QED BY <1>1, <1>3, <1>10, <2>2, <3>1, ToldAsBefore
  <2> QED BY <2>1, <2>2
<1>12. MortgagesKnown(t)'
  <2>1. \A n, k \in On(t) :
          mortgages'[n].redeemedBy = mortgages'[k].redeemedBy /\ mortgages'[n].redeemedBy # 0 => n = k
    BY <1>3, <1>9, <1>10 DEF MortgagesKnown
  <2>2. ASSUME NEW j \in Standing(t)'
        PROVE  /\ log'[j].type = "MORTGAGE" => j \in On(t)
               /\ log'[j].type = "MORTGAGE_REDEMPTION" => \E n \in On(t) : mortgages'[n].redeemedBy = j
    <3>1. j \in Standing(t) /\ j # i /\ log'[j] = log[j]
      BY <1>1, <2>2 DEF Standing
    <3>2. log[j].type = "MORTGAGE" => j \in On(t)
      BY <1>3, <3>1 DEF MortgagesKnown
    <3>3. log[j].type = "MORTGAGE_REDEMPTION" => \E n \in On(t) : mortgages[n].redeemedBy = j
      BY <1>3, <3>1 DEF MortgagesKnown
    <3> QED BY <1>4, <1>10, <3>1, <3>2, <3>3
  <2> QED BY <1>11, <2>1, <2>2 DEF MortgagesKnown
<1>13. Matched(t)'
  <2>1. registry'[t].mortgaged
    BY <1>1, <1>2
  <2>2. \A n \in On(t) : n # m => mortgages'[n].state # "ACTIVE"
    BY <1>10
  <2> QED BY <1>9, <2>1, <2>2 DEF Matched
<1> QED BY <1>12, <1>13 DEF TileStory

\* A reversal.
LEMMA ReversalTells == ASSUME TypeInv, TypeInv', StoryInv, ReverseStep PROVE StoryInv'
<1>1. PICK i \in DOMAIN log : reverseTransaction(i)
  BY DEF ReverseStep
<1>2. /\ RowsTell' /\ bankrupt' = bankrupt /\ mortgages' = mortgageReversal(i)
      /\ i \in Nat /\ ~Reversed(i) /\ \A j \in DOMAIN log : j \in Nat /\ log'[j] = log[j]
      /\ \A t : Standing(t)' = Standing(t) \ {i}
      /\ DOMAIN registry' = DOMAIN registry
      /\ \A t \in DOMAIN registry :
           registry'[t] = IF t \in DOMAIN log[i].changes THEN log[i].changes[t].before ELSE registry[t]
      /\ log[i].type \in RegistryTypes \/ DOMAIN log[i].changes = {}
      /\ \A j \in DOMAIN log :
           ~Reversed(j) /\ log[j].type \in RegistryTypes /\ Overlap(log[i].tiles, log[j].tiles) => j <= i
  BY <1>1, ReversalFacts
<1>3. \A t : On(t)' = On(t)
  <2>1. DOMAIN mortgages' = DOMAIN mortgages
    BY <1>2 DEF mortgageReversal
  <2>2. \A m \in DOMAIN mortgages : mortgages'[m].item = mortgages[m].item
    BY <1>2, ReversedRow
  <2> QED BY <2>1, <2>2 DEF On
<1>4. ASSUME NEW t \in DOMAIN registry PROVE TileStory(t)'
  <2>1. TopHolds(t) /\ BelowHolds(t) /\ RowsTell
    BY DEF StoryInv, TileStory
  <2>2. CASE t \notin DOMAIN log[i].changes
    <3>1. i \notin Standing(t)
      BY <2>2 DEF Standing
    <3>2. Standing(t)' = Standing(t) /\ registry'[t].owner = registry[t].owner
      BY <1>2, <2>2, <3>1
    <3>3. \A j \in Standing(t) : log'[j] = log[j]
      BY <1>2 DEF Standing
    <3>4. TopHolds(t)' /\ BelowHolds(t)'
      BY <1>2, <2>1, <3>2, <3>3, StackUntouched
    <3> QED BY <1>1, <1>3, <2>2, <3>4, PlainUndone
  <2>3. CASE t \in DOMAIN log[i].changes
    <3>1. i \in Standing(t) /\ log[i].type \in RegistryTypes
      BY <1>2, <2>3 DEF Standing
    <3>2. ASSUME NEW j \in Standing(t) PROVE j \in Nat /\ j <= i /\ log'[j] = log[j]
      <4>1. j \in DOMAIN log /\ ~Reversed(j) /\ log[j].type \in RegistryTypes /\ t \in DOMAIN log[j].changes
        BY DEF Standing
      <4>2. t \in log[j].tiles /\ t \in log[i].tiles
        BY <2>1, <2>3, <3>1, <4>1 DEF RowsTell, TellsTiles
      <4>3. Overlap(log[i].tiles, log[j].tiles)
        BY <4>2 DEF Overlap
      <4> QED BY <1>2, <4>1, <4>3
    <3>3. TopHolds(t)' /\ BelowHolds(t)'
      <4>1. registry'[t].owner = log[i].changes[t].before.owner
        BY <1>2, <2>3
      <4> QED BY <1>2, <2>1, <3>1, <3>2, <4>1, StackPopped
    <3> QED BY <1>1, <1>3, <2>3, <3>1, <3>2, <3>3, PlainUndone, MortgageUndone, RedemptionUndone
  <2> QED BY <2>2, <2>3
<1> QED BY <1>2, <1>4 DEF StoryInv

\* A mortgage that is released when its player goes bankrupt can never be undone.
LEMMA ReleasedForGood ==
    ASSUME TypeInv, TypeInv', RowsTell, NEW t, TopHolds(t), NEW p, p # Bank, p = registry[t].owner,
           bankrupt' = bankrupt \cup {p}, Standing(t)' = Standing(t),
           \A j \in DOMAIN log : log'[j] = log[j],
           NEW m \in On(t), MortgageTold(m, t), mortgages[m].state = "ACTIVE",
           mortgages'[m].state = "RELEASED", mortgages'[m].redeemedBy = mortgages[m].redeemedBy
    PROVE  MortgageTold(m, t)'
<1>1. m \in DOMAIN log /\ m \in Nat
  BY LenProperties DEF On, TypeInv, EstateTyped, Table, MoneyTyped
<1>2. m \in Standing(t)
  <2>1. log[m].type = "MORTGAGE" /\ log[m].tiles = {t} /\ ~Reversed(m) /\ TellsTiles(log[m])
    BY <1>1 DEF MortgageTold, RowsTell
  <2> QED BY <1>1, <2>1 DEF Standing, TellsTiles, RegistryTypes
<1>3. PICK k \in Standing(t) : (\A i \in Standing(t) : i <= k) /\ Holder(k, p)
  BY <1>2 DEF TopHolds
<1>4. m <= k /\ log'[k] = log[k] /\ k \in Standing(t)'
  BY <1>2, <1>3 DEF Standing
<1>5. Stuck(k)'
  BY <1>3, <1>4 DEF Holder, Stuck
<1>6. mortgages'[m].redeemedBy = 0
  BY DEF MortgageTold, RedeemedIn
<1>7. log'[m] = log[m]
  BY <1>1
<1> QED BY <1>4, <1>5, <1>6, <1>7 DEF MortgageTold

\* A bankruptcy.
LEMMA BankruptcyTells ==
    ASSUME TypeInv, TypeInv', StoryInv, NEW p \in Active, NEW heir \in Active \cup {Bank},
           declareBankruptcy(p, heir)
    PROVE  StoryInv'
<1> DEFINE c == bankruptcyAssets(p, heir)
           tx == TileTx("BANKRUPTCY_TRANSFER", bankruptcyDelta(p, heir), {}, c)
<1>1. /\ p # heir /\ log' = Append(log, tx) /\ bankrupt' = bankrupt \cup {p}
      /\ registry' = applyChanges(registry, c) /\ mortgages' = bankruptMortgages(p, heir)
  BY DEF declareBankruptcy
<1>2. tx.type = "BANKRUPTCY_TRANSFER" /\ tx.undoes = 0
  BY DEF TileTx, Tx
<1>3. /\ DOMAIN registry' = DOMAIN registry
      /\ \A t \in DOMAIN registry :
           registry'[t] = IF t \notin Owned(p) THEN registry[t]
                          ELSE IF heir = Bank THEN Unowned
                          ELSE [registry[t] EXCEPT !.owner = heir, !.houses = 0]
  BY <1>1 DEF applyChanges, bankruptcyAssets, Change
<1> HIDE DEF tx, c
<1>4. p # Bank
  BY LedgerAssumption DEF Active
<1>5. TellsTiles(tx)
  BY <1>2 DEF TellsTiles, RegistryTypes
<1>6. PICK x : x = NextId
  OBVIOUS
<1>7. RowsTell' /\ \A j \in DOMAIN log : j # 0 /\ log'[j] = log[j]
  BY <1>1, <1>2, <1>5, <1>6, RowsGrow DEF StoryInv
<1>8. \A t : Standing(t)' = Standing(t)
  BY <1>1, <1>2, <1>5, <1>6, StandingGrows DEF StoryInv, RegistryTypes
<1>9. /\ DOMAIN mortgages' = DOMAIN mortgages
      /\ \A m \in DOMAIN mortgages :
           mortgages'[m] = IF m \notin ActiveMortgages \/ mortgages[m].player # p THEN mortgages[m]
                           ELSE IF heir = Bank \/ Clash(m, heir)
                                  THEN [mortgages[m] EXCEPT !.state = "RELEASED"]
                                  ELSE [mortgages[m] EXCEPT !.player = heir]
  BY <1>1 DEF bankruptMortgages
<1>10. \A m \in DOMAIN mortgages :
         /\ mortgages'[m].item = mortgages[m].item /\ mortgages'[m].redeemedBy = mortgages[m].redeemedBy
         /\ mortgages[m].state # "ACTIVE" \/ mortgages[m].player # p => mortgages'[m] = mortgages[m]
         /\ mortgages[m].state = "ACTIVE" /\ mortgages[m].player = p =>
              IF heir = Bank \/ Clash(m, heir)
                THEN mortgages'[m].state = "RELEASED"
                ELSE mortgages'[m].state = "ACTIVE" /\ mortgages'[m].player = heir
  <2>1. ASSUME NEW m \in DOMAIN mortgages
        PROVE  LET released == [mortgages[m] EXCEPT !.state = "RELEASED"]
                   handed == [mortgages[m] EXCEPT !.player = heir]
               IN /\ released.item = mortgages[m].item /\ released.redeemedBy = mortgages[m].redeemedBy
                  /\ released.state = "RELEASED"
                  /\ handed.item = mortgages[m].item /\ handed.redeemedBy = mortgages[m].redeemedBy
                  /\ handed.state = mortgages[m].state /\ handed.player = heir
    BY MortgageFacts DEF TypeInv, MortgageRows
  <2> QED BY <1>9, <2>1 DEF ActiveMortgages
<1>11. \A t : On(t)' = On(t)
  BY <1>9, <1>10 DEF On
<1>12. ASSUME NEW t \in DOMAIN registry PROVE TileStory(t)'
  <2>1. TopHolds(t) /\ BelowHolds(t) /\ MortgagesKnown(t) /\ Matched(t) /\ RowsTell
    BY DEF StoryInv, TileStory
  <2>2. TopHolds(t)' /\ BelowHolds(t)'
    <3>1. registry'[t].owner = registry[t].owner \/ registry[t].owner \in bankrupt' \ {Bank}
      BY <1>1, <1>3, <1>4 DEF Owned
    <3>2. bankrupt \subseteq bankrupt' /\ \A j \in Standing(t) : log'[j] = log[j]
      BY <1>1, <1>7 DEF Standing
    <3> QED BY <1>8, <2>1, <3>1, <3>2, StackUntouched
  <2>3. registry[t] \in TileState
    BY RegistryFacts DEF TypeInv
  <2>4. ASSUME NEW m \in On(t)
        PROVE  /\ m \in DOMAIN mortgages /\ mortgages[m].item = t /\ MortgageTold(m, t)
               /\ mortgages[m].state = "ACTIVE" =>
                    /\ mortgages[m].player = registry[t].owner /\ mortgages[m].redeemedBy = 0
                    /\ registry[t].mortgaged
    BY <2>1 DEF On, MortgagesKnown, Matched, MortgageTold, RedeemedIn
  <2>5. \A m \in On(t) : mortgages[m].state = "ACTIVE" /\ mortgages[m].player = p => ~Clash(m, heir)
    <3>1. ASSUME NEW m \in On(t), mortgages[m].state = "ACTIVE", mortgages[m].player = p,
                 NEW n \in ActiveMortgages, mortgages[n].player = heir,
                 mortgages[n].item = mortgages[m].item
          PROVE  FALSE
      <4>1. n \in On(t) /\ mortgages[n].state = "ACTIVE"
        BY <2>4, <3>1 DEF On, ActiveMortgages
      <4> QED BY <1>1, <2>4, <3>1, <4>1
    <3> QED BY <3>1 DEF Clash
  <2>6. ASSUME NEW m \in On(t)
        PROVE  \/ mortgages'[m].state = mortgages[m].state
               \/ /\ mortgages[m].state = "ACTIVE" /\ mortgages'[m].state = "RELEASED"
                  /\ registry[t].owner = p /\ heir = Bank
    BY <1>10, <2>4, <2>5
  <2>7. ASSUME NEW m \in On(t) PROVE MortgageTold(m, t)'
    <3>1. MortgageTold(m, t) /\ mortgages'[m].redeemedBy = mortgages[m].redeemedBy
      BY <1>10, <2>4
    <3>2. CASE mortgages'[m].state = mortgages[m].state
      <4>1. mortgages[m].redeemedBy # 0 => mortgages'[m].player = mortgages[m].player
        BY <1>10, <2>4
      <4>2. tx.undoes # m
        <5>1. m \in DOMAIN log
          BY <2>4, LenProperties DEF TypeInv, EstateTyped, Table, MoneyTyped
        <5> QED BY <1>2, <1>7, <5>1
      <4>3. bankrupt \subseteq bankrupt' /\ \A k \in Standing(t) : Stuck(k) => k \in Standing(t)'
        BY <1>1, <1>8
      <4> QED BY <1>1, <1>2, <1>5, <2>1, <3>1, <3>2, <4>1, <4>2, <4>3, ToldAsBefore
    <3>3. CASE /\ mortgages[m].state = "ACTIVE" /\ mortgages'[m].state = "RELEASED"
               /\ registry[t].owner = p
      <4>1. Standing(t)' = Standing(t) /\ \A j \in DOMAIN log : log'[j] = log[j]
        BY <1>7, <1>8
      <4> QED BY <1>1, <1>4, <2>1, <3>1, <3>3, <4>1, ReleasedForGood
    <3> QED BY <2>6, <3>2, <3>3
  <2>8. MortgagesKnown(t)'
    <3>1. \A m \in On(t) : mortgages'[m].redeemedBy = mortgages[m].redeemedBy
      BY <1>10, <2>4
    <3>2. \A j \in Standing(t) : log'[j] = log[j]
      BY <1>7 DEF Standing
    <3> QED BY <1>8, <1>11, <2>1, <2>7, <3>1, <3>2, KnownAsBefore
  <2>9. Matched(t)'
    <3>1. CASE registry[t].owner # p
      <4>1. registry'[t] = registry[t]
        <5>1. t \notin Owned(p)
          BY <3>1 DEF Owned
        <5> QED BY <1>3, <5>1
      <4>2. \A m \in On(t) : mortgages'[m] = mortgages[m]
        BY <1>10, <2>4, <3>1
      <4> QED BY <1>11, <2>1, <2>4, <4>1, <4>2, MatchedAsBefore
    <3>2. CASE registry[t].owner = p /\ heir # Bank
      <4>1. registry'[t].owner = heir /\ registry'[t].mortgaged = registry[t].mortgaged
        BY <1>3, <2>3, <3>2 DEF Owned, TileState
      <4>2. \A m \in On(t) : mortgages'[m].state = mortgages[m].state
        BY <2>6, <3>2
      <4>3. \A m \in On(t) : mortgages[m].state = "ACTIVE" => mortgages'[m].player = registry'[t].owner
        BY <1>10, <2>4, <2>5, <3>2, <4>1
      <4> QED BY <1>11, <2>1, <4>1, <4>2, <4>3, MatchedAsBefore
    <3>3. CASE registry[t].owner = p /\ heir = Bank
      <4>1. ~registry'[t].mortgaged
        BY <1>3, <3>3 DEF Owned, Unowned
      <4>2. \A m \in On(t) : mortgages'[m].state # "ACTIVE"
        BY <1>10, <2>4, <3>3
      <4> QED BY <1>11, <4>1, <4>2 DEF Matched
    <3> QED BY <3>1, <3>2, <3>3
  <2> QED BY <2>2, <2>8, <2>9 DEF TileStory
<1> QED BY <1>3, <1>7, <1>12 DEF StoryInv

\* Every step keeps the story of every tile.
LEMMA StoryKept == TypeInv /\ TypeInv' /\ StoryInv /\ [Next]_vars => StoryInv'
<1> SUFFICES ASSUME TypeInv, TypeInv', StoryInv, [Next]_vars PROVE StoryInv'
  OBVIOUS
<1>1. CASE UNCHANGED vars
  BY <1>1, StoryQuiet DEF vars, money
<1>2. CASE MoneyStep \/ RequestStep \/ LoanStep \/ BankLoanStep \/ Tick
  <2>1. /\ UNCHANGED <<estate, bankrupt>>
        /\ log' = log \/ \E tx : log' = Append(log, tx) /\ Bare(tx)
    BY <1>2, MoneyBare
  <2> QED BY <2>1, StoryQuiet
<1>3. CASE TileStep \/ BuildingStep
  BY <1>3, TilesTell
<1>4. CASE MortgageStep
  BY <1>4, MortgagesTell
<1>5. CASE TradeStep
  BY <1>5, TradesTell
<1>6. CASE ReverseStep
  BY <1>6, ReversalTells
<1>7. CASE BankruptcyStep
  BY <1>7, BankruptcyTells DEF BankruptcyStep
<1> QED BY <1>1, <1>2, <1>3, <1>4, <1>5, <1>6, <1>7 DEF Next

\* At first nothing is owned or mortgaged that the empty log would have to tell of.
LEMMA InitStory == Init => StoryInv
<1> SUFFICES ASSUME Init PROVE StoryInv
  OBVIOUS
<1>1. log = <<>> /\ mortgages = <<>> /\ registry \in Start
  BY DEF Init
<1>2. DOMAIN log = {} /\ DOMAIN mortgages = {}
  BY <1>1
<1>3. RowsTell
  BY <1>2 DEF RowsTell
<1>4. ASSUME NEW t \in DOMAIN registry PROVE TileStory(t)
  <2>1. Standing(t) = {} /\ On(t) = {}
    BY <1>2 DEF Standing, On
  <2>2. ~registry[t].mortgaged
    BY <1>1, StartAssumption
  <2> QED BY <2>1, <2>2 DEF TileStory, TopHolds, BelowHolds, MortgagesKnown, Matched
<1> QED BY <1>3, <1>4 DEF StoryInv

\* The story of every tile is the property the runs check.
LEMMA StoryTold == StoryInv => MortgagesMatchTiles
<1> SUFFICES ASSUME StoryInv, NEW t \in DOMAIN registry
             PROVE  LET rows == {m \in ActiveMortgages : mortgages[m].item = t}
                    IN /\ registry[t].mortgaged <=> rows # {}
                       /\ \A m \in rows : rows = {m} /\ mortgages[m].player = registry[t].owner
  BY DEF MortgagesMatchTiles
<1>1. PICK rows : rows = {m \in ActiveMortgages : mortgages[m].item = t}
  OBVIOUS
<1>2. \A m : m \in rows <=> m \in On(t) /\ mortgages[m].state = "ACTIVE"
  BY <1>1 DEF On, ActiveMortgages
<1>3. Matched(t)
  BY DEF StoryInv, TileStory
<1>4. registry[t].mortgaged <=> rows # {}
  BY <1>2, <1>3 DEF Matched
<1>5. \A m \in rows : rows = {m} /\ mortgages[m].player = registry[t].owner
  BY <1>2, <1>3 DEF Matched
<1> QED BY <1>1, <1>4, <1>5

\* The mortgage flag of a tile and the table of mortgages always tell the same story,
\* whatever is traded, redeemed, reversed or left behind by a bankrupt.
THEOREM MortgagesAlwaysMatch == Spec => []MortgagesMatchTiles
<1>1. Init => StoryInv
  BY InitStory
<1>2. TypeInv /\ TypeInv' /\ StoryInv /\ [Next]_vars => StoryInv'
  BY StoryKept
<1>3. Spec => []TypeInv
  BY BankTypes, PTL
<1>4. StoryInv => MortgagesMatchTiles
  BY StoryTold
<1> QED BY <1>1, <1>2, <1>3, <1>4, PTL DEF Spec
=============================================================================
