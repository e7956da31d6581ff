------------------------------- MODULE MCBank -------------------------------
(***************************************************************************)
(* Small instances of Bank.  A game draws its commands from one menu,      *)
(* chosen at the start, so that each group of operations is interleaved    *)
(* deeper than all of them together could be; `Depth` bounds the log of    *)
(* each menu.  Every menu has the reversal and the bankruptcy.             *)
(***************************************************************************)
EXTENDS Dialog, Statistics

CONSTANTS p1, p2, p3, brown1, brown2, rail, power,
  Menus     \* bound: the menus of the run, with the length of their logs

VARIABLE menu

Street(base) ==
  [kind |-> "street", group |-> "brown", price |-> 600, mortgage |-> 300, houseCost |-> 500,
   rent |-> [n \in 0 .. MaxBuildings |-> base * (n * n + 1)]]

Station(kind, price) ==
  [kind |-> kind, group |-> kind, price |-> price, mortgage |-> price \div 2, houseCost |-> 0,
   rent |-> <<>>]

Cards ==
  [t \in {brown1, brown2, rail, power} |->
    CASE t = brown1 -> Street(20) [] t = brown2 -> Street(40)
      [] t = rail -> Station("railway", 2000) [] t = power -> Station("utility", 1500)]

HouseRules ==
  [buildEvenly |-> TRUE, refundPercent |-> 50, monopolyBaseRentMultiplier |-> 2,
   railwayRent |-> <<250, 500>>, utilityDiceMultiplier |-> <<4, 10>>]

MCBoard == [tiles |-> Cards, rules |-> HouseRules]

Held(p) == [Unowned EXCEPT !.owner = p]

\* A game that has just begun to fill its board, and one with houses on it.
House(p) == [Held(p) EXCEPT !.houses = 1]
Early == (brown1 :> Held(p1)) @@ (brown2 :> Unowned) @@ (rail :> Unowned) @@ (power :> Held(p2))
Later == (brown1 :> House(p1)) @@ (brown2 :> Held(p1)) @@ (rail :> Held(p2)) @@ (power :> Held(p2))

Symmetry == Permutations(Players)

NoBoard == {<<>>}
Boards == {Early, Later}
MCSides == {{}, {brown2}, {rail}}

\* p1 proposes, offers a tile, and asks for a tile or for cash; nobody asks
\* for less than the greatest amount, which a player can repay in parts.
Simple ==
  /\ \A r \in DOMAIN trades' :
       LET x == trades'[r]
       IN x.from = p1 /\ x.give # {} /\ x.cashGive = 0 /\ (x.cashTake = 0 \/ x.take = {})
  /\ \A r \in DOMAIN requests' : requests'[r].amount = Max(Amounts)
  /\ \A l \in DOMAIN loans' : loans'[l].principal = Max(Amounts)

Depth == [cash |-> 3, requests |-> 3, loans |-> 4, bankloans |-> 5, estate |-> 5, trades |-> 3]

MCInit ==
  /\ Init
  /\ menu \in Menus
  /\ menu = "requests" <=> confirm
  /\ menu = "trades" => registry = Later
  /\ menu = "estate" => registry = Early

TurnStep == \E p \in Active : passGo(p, FALSE)

\* Every step of these records a transaction.
RecordingStep ==
  \/ menu = "cash" /\ (MoneyStep \/ MortgageStep)
  \/ menu \in {"loans", "bankloans"} /\ TurnStep
  \/ menu = "bankloans" /\ BankLoanStep
  \/ menu = "estate" /\ TileStep
  \/ menu \in {"estate", "trades"} /\ (BuildingStep \/ MortgageStep)
  \/ ReverseStep
  \/ BankruptcyStep

MCNext ==
  /\ UNCHANGED menu
  /\ \/ Len(log) < Depth[menu] /\ RecordingStep
     \/ menu = "requests" /\ (RequestStep \/ Tick)
     \/ menu = "loans" /\ (LoanStep \/ Tick)
     \/ menu = "trades" /\ (TradeStep \/ Tick)
  /\ Len(log') <= Depth[menu]
  /\ Simple

MCSpec == MCInit /\ [][MCNext]_<<vars, menu>>
=============================================================================
