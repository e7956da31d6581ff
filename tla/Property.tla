------------------------------ MODULE Property ------------------------------
(***************************************************************************)
(* The board of a game and the rules of its registry, as pure operators:   *)
(* src/shared/domain/property.ts with the prices of mortgage.ts.  A        *)
(* registry maps every tile to its state; a change is the state of a tile  *)
(* before and after an operation.                                          *)
(***************************************************************************)
EXTENDS Integers, FiniteSetsExt, Functions

CONSTANTS
  Board,       \* board_json of the game: its tiles, by id, and its house rules
  Bank         \* no player: the owner of an unowned tile

\* The card of a tile: kind, group, price, mortgage, houseCost, rent.
Tile == Board.tiles
Tiles == DOMAIN Tile

\* buildEvenly, refundPercent, monopolyBaseRentMultiplier, railwayRent,
\* utilityDiceMultiplier.
Rules == Board.rules

MaxBuildings == 5
UtilityRentUnit == 1000

ASSUME BoardAssumption ==
  /\ IsFiniteSet(Tiles)
  /\ \A t \in Tiles :
       /\ Tile[t].kind \in {"street", "railway", "utility"}
       /\ {Tile[t].price, Tile[t].mortgage, Tile[t].houseCost} \subseteq Nat
       /\ Tile[t].kind = "street" => \A n \in 0 .. MaxBuildings : Tile[t].rent[n] \in Nat
  /\ {Rules.refundPercent, Rules.monopolyBaseRentMultiplier} \subseteq Nat
  /\ \A n \in DOMAIN Rules.railwayRent : Rules.railwayRent[n] \in Nat
  /\ \A n \in DOMAIN Rules.utilityDiceMultiplier : Rules.utilityDiceMultiplier[n] \in Nat

Unowned == [owner |-> Bank, mortgaged |-> FALSE, houses |-> 0]

redemptionCost(value) == value + (value + 5) \div 10

\* What the receiver of a mortgaged tile owes the bank at once.
mortgageTransferFee(t) == redemptionCost(Tile[t].mortgage) - Tile[t].mortgage

groupTiles(t) == {u \in Tiles : Tile[u].group = Tile[t].group}

ownedCount(reg, t, p) == Cardinality({u \in groupTiles(t) : reg[u].owner = p})

holdsFullGroup(reg, t, p) == \A u \in groupTiles(t) : reg[u].owner = p

groupHasBuildings(reg, t) == \E u \in groupTiles(t) : reg[u].houses > 0

canMortgage(reg, t, p) ==
  /\ reg[t].owner = p
  /\ ~reg[t].mortgaged
  /\ ~groupHasBuildings(reg, t)

Buildable(t) == Tile[t].kind = "street" /\ Tile[t].houseCost > 0

\* What the interface offers: one building up ...
canBuild(reg, t, p) ==
  /\ Buildable(t)
  /\ holdsFullGroup(reg, t, p)
  /\ \A u \in groupTiles(t) : ~reg[u].mortgaged
  /\ reg[t].houses < MaxBuildings
  /\ Rules.buildEvenly => \A u \in groupTiles(t) : reg[t].houses <= reg[u].houses

\* ... or one down.
canSellBuilding(reg, t, p) ==
  /\ Buildable(t)
  /\ reg[t].owner = p
  /\ reg[t].houses > 0
  /\ Rules.buildEvenly => \A u \in groupTiles(t) : reg[t].houses >= reg[u].houses

\* The level of every street of the group of g once `targets` is applied.
FinalLevels(reg, g, targets) ==
  [u \in groupTiles(g) |-> IF u \in DOMAIN targets THEN targets[u] ELSE reg[u].houses]

\* Mutant: only the streets named are held against each other.
PlanNamedStreets(reg, p, targets, direction) ==
  \E g \in DOMAIN targets :
    /\ holdsFullGroup(reg, g, p)
    /\ DOMAIN targets \subseteq groupTiles(g)
    /\ \A t \in DOMAIN targets :
         /\ Buildable(t) /\ targets[t] \in 0 .. MaxBuildings
         /\ direction * (targets[t] - reg[t].houses) > 0
    /\ \A u \in groupTiles(g) : ~reg[u].mortgaged
    /\ Rules.buildEvenly => \A t, u \in DOMAIN targets : targets[t] - targets[u] <= 1

\* What the server accepts: the final levels of a whole colour group, in one
\* direction (+1 builds, -1 sells), validated as they will stand.
planBuildings(reg, p, targets, direction) ==
  \E g \in DOMAIN targets :
    LET final == FinalLevels(reg, g, targets)
    IN /\ holdsFullGroup(reg, g, p)
       /\ DOMAIN targets \subseteq groupTiles(g)
       /\ \A t \in DOMAIN targets : Buildable(t) /\ targets[t] \in 0 .. MaxBuildings
       /\ \A u \in groupTiles(g) :
            /\ ~reg[u].mortgaged
            /\ direction * (final[u] - reg[u].houses) >= 0
       /\ \E u \in groupTiles(g) : final[u] # reg[u].houses
       /\ Rules.buildEvenly => \A u, v \in groupTiles(g) : final[u] - final[v] <= 1

sellRefund(t) == (Tile[t].houseCost * Rules.refundPercent) \div 100

streetRent(reg, t) ==
  IF reg[t].houses > 0 THEN Tile[t].rent[reg[t].houses]
  ELSE IF holdsFullGroup(reg, t, reg[t].owner) /\ ~groupHasBuildings(reg, t)
    THEN Tile[t].rent[0] * Rules.monopolyBaseRentMultiplier
    ELSE Tile[t].rent[0]

\* The house rules say what a tile earns for so many of its kind; without a
\* line for the number held there is no rent to be had.
rentKnown(reg, t) ==
  LET held == ownedCount(reg, t, reg[t].owner)
  IN /\ Tile[t].kind = "railway" => held \in DOMAIN Rules.railwayRent
     /\ Tile[t].kind = "utility" => held \in DOMAIN Rules.utilityDiceMultiplier

rentFor(reg, t, dice) ==
  LET held == ownedCount(reg, t, reg[t].owner)
  IN CASE Tile[t].kind = "railway" -> Rules.railwayRent[held]
       [] Tile[t].kind = "utility" ->
            Rules.utilityDiceMultiplier[held] * dice * UtilityRentUnit
       [] Tile[t].kind = "street" -> streetRent(reg, t)

\* The changes an operation makes are a function from the tiles it touches.
Change(before, after) == [before |-> before, after |-> after]

buildingChange(before, houses) == Change(before, [before EXCEPT !.houses = houses])

\* A tile handed back to the bank is released from its mortgage.
ownerChange(before, p) ==
  Change(before, IF p = Bank THEN Unowned ELSE [before EXCEPT !.owner = p])

mortgageChange(before, flag) == Change(before, [before EXCEPT !.mortgaged = flag])

invertChanges(changes) ==
  [t \in DOMAIN changes |-> Change(changes[t].after, changes[t].before)]

\* Every change is guarded by the state it was planned on.
Matches(reg, changes) == \A t \in DOMAIN changes : reg[t] = changes[t].before

applyChanges(reg, changes) ==
  [t \in DOMAIN reg |-> IF t \in DOMAIN changes THEN changes[t].after ELSE reg[t]]
=============================================================================
