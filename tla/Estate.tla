------------------------------- MODULE Estate -------------------------------
(***************************************************************************)
(* Tiles: buying, building, rent, mortgages and trades.  A mortgaged tile  *)
(* is both a flag of the registry and a row of the mortgages table; in a   *)
(* game without a board there is only the row, under a typed-in name.      *)
(***************************************************************************)
EXTENDS Ledger

CONSTANTS
  Overrides,   \* bound: prices paid instead of the list price
  Levels,      \* bound: the building levels anybody asks for
  Dice,        \* bound: the sums of a roll that sets a utility's rent
  Cash,        \* bound: the sums offered in a trade
  Sides,       \* bound: the sets of tiles offered in a trade
  Values       \* bound: the mortgage values of free-text properties

ASSUME EstateAssumption ==
  /\ Overrides \cup Levels \cup Dice \cup Cash \cup Values \subseteq Nat
  /\ Sides \subseteq SUBSET Tiles

Frame == UNCHANGED <<pot, credit, requests, bankrupt, confirm, now>>

\* A transaction on tiles, with its registry changes.
Deal(type, delta, tiles, changes) ==
  /\ Commit(TileTx(type, delta, tiles, changes))
  /\ registry' = applyChanges(registry, changes)
  /\ UNCHANGED trades /\ Frame

One(t, change) == [u \in {t} |-> change]

\* Bought from the bank at a price, or won in an auction at the bid.
propertyPurchase(p, t, price) ==
  /\ registry[t].owner = Bank
  /\ price \in {Tile[t].price} \cup Overrides
  /\ Deal("PROPERTY_PURCHASE", Pays(p, price), {t}, One(t, ownerChange(registry[t], p)))
  /\ UNCHANGED mortgages

payRent(p, t, dice) ==
  LET owner == registry[t].owner
  IN /\ owner \in Active \ {p}
     /\ ~registry[t].mortgaged
     /\ rentKnown(registry, t)
     /\ Deal("PAY_RENT", Moves(p, owner, rentFor(registry, t, dice)), {t}, NoChange)
     /\ UNCHANGED mortgages

LevelChanges(targets) ==
  [t \in {u \in DOMAIN targets : targets[u] # registry[u].houses} |->
     buildingChange(registry[t], targets[t])]

Moved(changes) ==
  [t \in DOMAIN changes |-> changes[t].after.houses - changes[t].before.houses]

building(p, targets, direction) ==
  LET changes == LevelChanges(targets)
      moved   == Moved(changes)
      cost    == SumFunction([t \in DOMAIN moved |-> moved[t] * Tile[t].houseCost])
      refund  == - SumFunction([t \in DOMAIN moved |-> moved[t] * sellRefund(t)])
  IN /\ registry # <<>>
     /\ planBuildings(registry, p, targets, direction)
     /\ IF direction = 1
          THEN Deal("PROPERTY_BUILD", Pays(p, cost), DOMAIN changes, changes)
          ELSE refund > 0 /\ Deal("PROPERTY_SELL_BUILDING", Gets(p, refund), DOMAIN changes, changes)
     /\ UNCHANGED mortgages
-----------------------------------------------------------------------------
ActiveMortgages == {m \in DOMAIN mortgages : mortgages[m].state = "ACTIVE"}

MortgageRow(p, item, value) ==
  [player |-> p, item |-> item, value |-> value, state |-> "ACTIVE", redeemedBy |-> 0]

mortgageTile(p, t) ==
  /\ canMortgage(registry, t, p)
  /\ Deal("MORTGAGE", Gets(p, Tile[t].mortgage), {t}, One(t, mortgageChange(registry[t], TRUE)))
  /\ mortgages' = Insert(mortgages, MortgageRow(p, t, Tile[t].mortgage))

\* Without a board: any name the player has not mortgaged already.
mortgageProperty(p, name, value) ==
  /\ registry = <<>>
  /\ \A m \in ActiveMortgages : mortgages[m].player # p \/ mortgages[m].item # name
  /\ Commit(Tx("MORTGAGE", Gets(p, value)))
  /\ mortgages' = Insert(mortgages, MortgageRow(p, name, value))
  /\ UNCHANGED <<registry, trades>> /\ Frame

Redeemed(m) == [mortgages EXCEPT ![m].state = "REDEEMED", ![m].redeemedBy = NextId]

\* Only the player the mortgage stands under may redeem it.
redeemMortgage(m) ==
  LET row   == mortgages[m]
      delta == Pays(row.player, redemptionCost(row.value))
      t     == row.item
  IN /\ row.player \in Active
     /\ IF t \in DOMAIN registry
          THEN /\ registry[t].owner = row.player /\ registry[t].mortgaged
               /\ Deal("MORTGAGE_REDEMPTION", delta, {t},
                       One(t, mortgageChange(registry[t], FALSE)))
          ELSE /\ Commit(Tx("MORTGAGE_REDEMPTION", delta))
               /\ UNCHANGED <<registry, trades>> /\ Frame
     /\ mortgages' = Redeemed(m)

\* Mutant: the mortgage stays with whoever took it.
HandNothingOver(changes) == mortgages

\* A mortgage follows its tile to the new owner.
HandOver(changes) ==
  [m \in DOMAIN mortgages |->
    LET t == mortgages[m].item
    IN IF /\ mortgages[m].state = "ACTIVE" /\ t \in DOMAIN changes
          /\ changes[t].before.mortgaged /\ changes[t].after.mortgaged
         THEN [mortgages[m] EXCEPT !.player = changes[t].after.owner]
         ELSE mortgages[m]]
-----------------------------------------------------------------------------
\* Everything a trade between p and q needs, and what it is written as.
FeesOf(tiles) ==
  SumFunction([t \in {u \in tiles : registry[u].mortgaged} |-> mortgageTransferFee(t)])

Tradable(p, q, give, take) ==
  /\ {p, q} \subseteq Active /\ p # q
  /\ give \cup take # {} /\ give \cap take = {}
  /\ give \cup take \subseteq DOMAIN registry
  /\ \A t \in give : registry[t].owner = p
  /\ \A t \in take : registry[t].owner = q
  /\ \A t \in give \cup take : ~groupHasBuildings(registry, t)

TransferDelta(x) ==
  [p \in {x.from, x.to} |->
    IF p = x.from THEN x.cashTake - x.cashGive - FeesOf(x.take)
                  ELSE x.cashGive - x.cashTake - FeesOf(x.give)]

TransferChanges(x) ==
  [t \in x.give \cup x.take |->
    ownerChange(registry[t], IF t \in x.give THEN x.to ELSE x.from)]

transferProperties(x) ==
  [Tx("PROPERTY_TRANSFER", TransferDelta(x)) EXCEPT
     !.tiles = x.give \cup x.take, !.changes = TransferChanges(x), !.initiator = x.from]

\* A proposal is checked as if it were accepted at once.
createTradeRequest(p, q, give, take, cashGive, cashTake) ==
  LET x == [from |-> p, to |-> q, give |-> give, take |-> take,
            cashGive |-> cashGive, cashTake |-> cashTake,
            state |-> "PENDING", due |-> now + TimeToLive, tx |-> 0]
  IN /\ Len(trades) < MaxRequests
     /\ Tradable(p, q, give, take)
     /\ Covered(TransferDelta(x))
     /\ trades' = Append(expirePending(trades), x)
     /\ UNCHANGED <<wallet, log, estate>> /\ Frame

\* ... and checked again when it is.
acceptTradeRequest(r) ==
  LET x == trades[r]
  IN /\ Pending(trades, r)
     /\ Tradable(x.from, x.to, x.give, x.take)
     /\ Commit(transferProperties(x))
     /\ trades' = [expirePending(trades) EXCEPT ![r].state = "ACCEPTED", ![r].tx = NextId]
     /\ registry' = applyChanges(registry, TransferChanges(x))
     /\ mortgages' = HandOver(TransferChanges(x))
     /\ Frame

resolveTradeRequest(r, state) ==
  /\ Pending(trades, r)
  /\ trades' = Resolve(trades, r, state)
  /\ UNCHANGED <<wallet, log, estate>> /\ Frame

listTradeRequests ==
  /\ trades' = expirePending(trades)
  /\ trades' # trades
  /\ UNCHANGED <<wallet, log, estate>> /\ Frame

\* The streets one request may name: some or all of one colour group.
BuildingSites ==
  UNION {(SUBSET groupTiles(t)) \ {{}} : t \in {u \in Tiles : Buildable(u)}}

TileStep ==
  \E p \in Active, t \in DOMAIN registry :
    \/ \E price \in {Tile[t].price} \cup Overrides : propertyPurchase(p, t, price)
    \/ \E dice \in Dice : payRent(p, t, dice)

BuildingStep ==
  \E p \in Active, ts \in BuildingSites, direction \in {1, -1} :
    \E targets \in [ts -> Levels] : building(p, targets, direction)

MortgageStep ==
  \/ \E p \in Active, t \in DOMAIN registry : mortgageTile(p, t)
  \/ \E p \in Active, name \in Names, value \in Values : mortgageProperty(p, name, value)
  \/ \E m \in ActiveMortgages : redeemMortgage(m)

TradeStep ==
  \/ \E p, q \in Active, give, take \in Sides, cashGive, cashTake \in Cash :
       createTradeRequest(p, q, give, take, cashGive, cashTake)
  \/ \E r \in DOMAIN trades :
       \/ acceptTradeRequest(r)
       \/ \E state \in {"DECLINED", "CANCELLED"} : resolveTradeRequest(r, state)
  \/ listTradeRequests
=============================================================================
