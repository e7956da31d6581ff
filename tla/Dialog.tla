------------------------------- MODULE Dialog -------------------------------
(***************************************************************************)
(* What the client shows before the server decides: the actions it offers  *)
(* on a tile, whether a form can be confirmed, and the balances previewed  *)
(* in the confirmation.  The client works all of it out again from the     *)
(* books it last saw; here it sees them as they are, so that only the two  *)
(* computations are compared.                                              *)
(***************************************************************************)
EXTENDS Bank

\* No sum is zero: not what GO pays, nor what a property can be mortgaged for.
ASSUME PositiveAssumption ==
  PassGoReward > 0 /\ 0 \notin Values /\ \A t \in Tiles : Tile[t].mortgage > 0

\* What the boards of the game have in common: either every tile of a group can
\* be built on or none, and the house rules name the rent for as many railways
\* or utilities as there are.
ASSUME PresetAssumption ==
  \A t \in Tiles :
    /\ \A u \in groupTiles(t) : Buildable(u) <=> Buildable(t)
    /\ Tile[t].kind = "railway" => 1 .. Cardinality(groupTiles(t)) \subseteq DOMAIN Rules.railwayRent
    /\ Tile[t].kind = "utility" =>
         1 .. Cardinality(groupTiles(t)) \subseteq DOMAIN Rules.utilityDiceMultiplier

\* A filled-in form: the wallet it was opened on, the other party, the sum
\* the dialog shows, the interest on top, and the mortgage or loan chosen.
Form(type, p, target, amount, interest, item) ==
  [type |-> type, player |-> p, target |-> target, amount |-> amount,
   interest |-> interest, item |-> item]

PlainForm(type, p, amount) == Form(type, p, Bank, amount, 0, 0)

RepaymentForm(l, amount, interest) ==
  Form("LOAN_REPAYMENT", loans[l].borrower, loans[l].lender, amount, interest, l)

owed(l) == loans[l].principal - loans[l].repaid

\* The forms of one type somebody may have filled in, for the wallets still in
\* the game; a LOAN_ISSUE is one from the bank.
Forms(type) ==
  CASE type \in {"PLAYER_TO_BANK", "TO_JACKPOT", "BANK_TO_PLAYER", "PLAYER_TO_ALL",
                 "ALL_TO_PLAYER", "LOAN_ISSUE"} ->
         {PlainForm(type, p, a) : p \in Active, a \in Amounts}
    [] type = "PLAYER_TO_PLAYER" -> {Form(type, p, q, a, 0, 0) : p, q \in Active, a \in Amounts}
    [] type = "PASS_GO" -> {PlainForm(type, p, n * PassGoReward) : p \in Active, n \in {1, 2}}
    [] type = "JACKPOT_PAYOUT" -> {PlainForm(type, p, pot) : p \in Active}
    [] type = "MORTGAGE" ->
         {Form(type, p, Bank, v, 0, name) : p \in Active, v \in Values, name \in Names}
    [] type = "MORTGAGE_REDEMPTION" ->
         {Form(type, mortgages[m].player, Bank, redemptionCost(mortgages[m].value), 0, m) :
            m \in ActiveMortgages}
    [] type = "LOAN_REPAYMENT" ->
         {RepaymentForm(l, a, 0) : l \in ActiveLoans \ BankLoans, a \in Amounts}
         \cup {RepaymentForm(l, owed(l), bankLoanInterest(owed(l), rate)) :
                 l \in BankLoans, rate \in Rates}
    [] OTHER -> {}
-----------------------------------------------------------------------------
\* Everybody else in the list the dialog was given, bankrupt or not.
others(p) == Players \ {p}

\* Mutant: the interest is left out.
RepaymentPrincipal(f) ==
  IF f.target = Bank THEN Pays(f.player, f.amount) ELSE Moves(f.player, f.target, f.amount)

\* A loan's interest leaves the game, its principal goes to a player's wallet.
repaymentDeltas(f) ==
  IF f.target = Bank THEN Pays(f.player, f.amount + f.interest)
                     ELSE Moves(f.player, f.target, f.amount)

\* One wallet against several others, each moving by a.
fanDeltas(p, rest, a) ==
  [q \in {p} \cup rest |-> IF q = p THEN -a * Cardinality(rest) ELSE a]

previewDeltas(f) ==
  CASE f.type = "PLAYER_TO_PLAYER" -> Moves(f.player, f.target, f.amount)
    [] f.type = "PLAYER_TO_ALL" -> fanDeltas(f.player, others(f.player), f.amount)
    [] f.type = "ALL_TO_PLAYER" -> fanDeltas(f.player, others(f.player), -f.amount)
    [] f.type = "LOAN_REPAYMENT" -> repaymentDeltas(f)
    [] f.type \in {"PLAYER_TO_BANK", "TO_JACKPOT", "MORTGAGE_REDEMPTION"} ->
         Pays(f.player, f.amount)
    [] OTHER -> Gets(f.player, f.amount)

\* The balances of the confirmation step.
previewBalances(f) == After(previewDeltas(f))

\* A form with this error cannot be confirmed.
preflightFundsError(f) ==
  CASE f.type = "PLAYER_TO_ALL" ->
         wallet[f.player] < f.amount * Cardinality(others(f.player))
    [] f.type = "ALL_TO_PLAYER" -> \E q \in others(f.player) : wallet[q] < f.amount
    [] f.type \in {"PLAYER_TO_PLAYER", "PLAYER_TO_BANK", "TO_JACKPOT",
                   "MORTGAGE_REDEMPTION", "LOAN_REPAYMENT"} ->
         wallet[f.player] < f.amount + f.interest
    [] OTHER -> FALSE

\* The form can go on to its confirmation: another party, a sum, a pot to
\* collect, no more than is owed, no second loan from the bank and none beyond
\* its limit.
isFormValid(f) ==
  /\ f.target # f.player /\ f.amount > 0
  /\ f.type = "JACKPOT_PAYOUT" => pot > 0
  /\ f.type = "LOAN_REPAYMENT" => f.amount <= owed(f.item)
  /\ f.type = "LOAN_ISSUE" => bankLoanOf(f.player) = {} /\ f.amount <= BankLoanMax

\* The operation the server performs for the form.
Submit(f) ==
  LET p == f.player
      a == f.amount
  IN CASE f.type = "PLAYER_TO_PLAYER" -> playerToPlayer(p, f.target, a)
       [] f.type = "PLAYER_TO_BANK" -> playerToBank(p, a)
       [] f.type = "TO_JACKPOT" -> toJackpot(p, a)
       [] f.type = "BANK_TO_PLAYER" -> bankToPlayer(p, a)
       [] f.type = "PLAYER_TO_ALL" -> playerToAll(p, a)
       [] f.type = "ALL_TO_PLAYER" -> allToPlayer(p, a)
       [] f.type = "PASS_GO" -> \E exact \in BOOLEAN :
            a = (IF exact THEN 2 ELSE 1) * PassGoReward /\ passGo(p, exact)
       [] f.type = "JACKPOT_PAYOUT" -> jackpotPayout(p)
       [] f.type = "MORTGAGE" -> mortgageProperty(p, f.item, a)
       [] f.type = "MORTGAGE_REDEMPTION" -> redeemMortgage(f.item)
       [] f.type = "LOAN_ISSUE" -> \E ack \in BOOLEAN : issueBankLoan(p, a, ack)
       [] f.type = "LOAN_REPAYMENT" /\ f.target # Bank -> repayLoan(f.item, a)
       [] OTHER -> \E rate \in Rates :
            bankLoanInterest(a, rate) = f.interest /\ repayBankLoan(f.item, rate)
-----------------------------------------------------------------------------
groupBuilt(t) == \E u \in groupTiles(t) : registry[u].houses > 0

\* The client's own reckoning of the rent; 0 when there is none to pay.
rentDue(t, dice) ==
  LET tile     == registry[t]
      progress == Cardinality({u \in groupTiles(t) : registry[u].owner = tile.owner})
      doubled  == progress = Cardinality(groupTiles(t)) /\ ~groupBuilt(t)
  IN IF tile.owner = Bank \/ tile.mortgaged THEN 0
     ELSE CASE Tile[t].kind = "railway" -> Rules.railwayRent[progress]
            [] Tile[t].kind = "utility" ->
                 dice * Rules.utilityDiceMultiplier[progress] * UtilityRentUnit
            [] Tile[t].kind = "street" ->
                 IF tile.houses > 0 THEN Tile[t].rent[Min({tile.houses, MaxBuildings})]
                 ELSE IF doubled THEN Tile[t].rent[0] * Rules.monopolyBaseRentMultiplier
                 ELSE Tile[t].rent[0]

\* The actions on a tile's sheet, for a viewer with one wallet.
tileIntents(t, p) ==
  LET owner == registry[t].owner
      Offers(kind) ==
        CASE kind = "PROPERTY_PURCHASE" -> owner = Bank
          [] kind = "MORTGAGE_REDEMPTION" -> owner = p /\ registry[t].mortgaged
          [] kind = "MORTGAGE" -> owner = p /\ ~registry[t].mortgaged /\ ~groupBuilt(t)
          [] kind = "PROPERTY_BUILD" -> owner = p /\ canBuild(registry, t, p)
          [] kind = "PROPERTY_SELL_BUILDING" -> owner = p /\ canSellBuilding(registry, t, p)
          [] kind = "PAY_RENT" -> owner \notin {p, Bank} /\ ~registry[t].mortgaged
          [] kind = "PROPERTY_TRANSFER" -> owner # Bank /\ ~groupBuilt(t)
  IN {kind \in {"PROPERTY_PURCHASE", "MORTGAGE_REDEMPTION", "MORTGAGE", "PROPERTY_BUILD",
                "PROPERTY_SELL_BUILDING", "PAY_RENT", "PROPERTY_TRANSFER"} : Offers(kind)}

\* The colour groups the building form lists, for building (1) or selling (-1).
buildingGroups(p, direction) ==
  {groupTiles(t) : t \in {u \in DOMAIN registry :
     IF direction = 1 THEN canBuild(registry, u, p) ELSE canSellBuilding(registry, u, p)}}

\* The tiles the trade dialog lists for one side.
tradable(p) == {t \in DOMAIN registry : registry[t].owner = p /\ ~groupBuilt(t)}

\* The client's own reckoning of both sides, cash and fees included.
tradeOutcome(x, p) ==
  IF p = x.from THEN x.cashTake - x.cashGive - FeesOf(x.take)
                ELSE x.cashGive - x.cashTake - FeesOf(x.give)

\* A trade form just filled in from the lists can be sent ...
sidesValid(p, q, give, take) ==
  /\ q \in Active \ {p}
  /\ give \subseteq tradable(p) /\ take \subseteq tradable(q)
  /\ give \cup take # {}

\* ... unless one of the two could not pay their part of it.
short(x) == \E p \in {x.from, x.to} : wallet[p] + tradeOutcome(x, p) < 0
-----------------------------------------------------------------------------
\* The sheet of one tile.
TileOffersAccepted(t, p) ==
  LET offered == tileIntents(t, p)
      step(n) == One(t, registry[t].houses + n)
  IN /\ WholeGroup(t) /\ registry[t].owner = p =>
          /\ "PROPERTY_BUILD" \in offered <=> planBuildings(registry, p, step(1), 1)
          /\ "PROPERTY_SELL_BUILDING" \in offered <=> planBuildings(registry, p, step(-1), -1)
     /\ "MORTGAGE_REDEMPTION" \in offered =>
          \E m \in ActiveMortgages : mortgages[m].item = t /\ mortgages[m].player = p
     /\ "MORTGAGE" \in offered => canMortgage(registry, t, p)
     /\ offered \cap {"PAY_RENT", "PROPERTY_TRANSFER"} # {} => registry[t].owner \in Active
     /\ "PAY_RENT" \in offered =>
          /\ rentKnown(registry, t)
          /\ \A dice \in Dice : rentDue(t, dice) = rentFor(registry, t, dice)

\* The building form of one whole colour group.
GroupOffersAccepted(streets, p) ==
  \A direction \in {1, -1} :
    streets \in buildingGroups(p, direction) <=>
      \E targets \in [streets -> 0 .. MaxBuildings] :
        planBuildings(registry, p, targets, direction)

\* What is offered is what the server's rules accept, money aside: a building
\* step fits the plan of the whole group and a group is listed exactly while
\* some plan of it is possible, a mortgage offered for redemption has a row
\* under its owner, rent and trades are proposed with owners who can still
\* take part, the rent being known and what the server charges, and the trade dialog
\* sends what the server would accept, money included.  The client decides
\* each from the registry alone (utils/property-view.ts, TradeDialog.tsx).
OfferedIsAccepted ==
  /\ \A p \in Active, t \in DOMAIN registry : TileOffersAccepted(t, p)
  /\ \A streets \in {groupTiles(t) : t \in {u \in DOMAIN registry : Buildable(u)}} :
       \A p \in Active :
         (\A t \in streets : WholeGroup(t) /\ registry[t].owner = p) =>
           GroupOffersAccepted(streets, p)
  /\ registry # <<>> =>
       \A p \in Active, q \in Players, give, take \in Sides :
         /\ sidesValid(p, q, give, take) <=> Tradable(p, q, give, take)
         /\ Tradable(p, q, give, take) => \A cashGive, cashTake \in Cash :
              LET x == [from |-> p, to |-> q, give |-> give, take |-> take,
                        cashGive |-> cashGive, cashTake |-> cashTake]
              IN ~short(x) <=> Covered(TransferDelta(x))

ShowsTheTruth(f) ==
  Submit(f) => previewBalances(f) = wallet' /\ isFormValid(f) /\ ~preflightFundsError(f)

FanTypes == {"PLAYER_TO_ALL", "ALL_TO_PLAYER"}

\* Whatever the server records for a form, the dialog would have let it
\* through, and the balances it previewed are the ones that result
\* (isFormValid, previewBalances, preflightFundsError).  A payment to or from everybody is
\* previewed rightly only while nobody at the table is bankrupt.
FormsShowTheTruth ==
  [][log' # log =>
       \A f \in Forms(Last(log').type) :
         (f.type \in FanTypes => bankrupt = {}) => ShowsTheTruth(f)]_vars

\* "built from the same delta rules the operations apply" (banking.ts:1433),
\* and "a collection from everyone skips a bankrupt player"
\* (banking.guards.test.ts:314): the same without the exception.
FanFormsShowTheTruth ==
  [][log' # log /\ Last(log').type \in FanTypes =>
       \A f \in Forms(Last(log').type) : ShowsTheTruth(f)]_vars
=============================================================================
