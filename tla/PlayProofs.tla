----------------------------- MODULE PlayProofs -----------------------------
(***************************************************************************)
(* What is proved about the play of a game and the views the client makes  *)
(* of it, for every board, every table of players, every length of the log *)
(* and every number of points of a chart: the buildings on the board and   *)
(* the turns (module Bank), the statistics at the end of the game (module  *)
(* Statistics) and the forms the client fills in (module Dialog).          *)
(***************************************************************************)
EXTENDS BankProofs, Statistics, Dialog

-----------------------------------------------------------------------------
(* Buildings stay sound *)

Construction == {"PROPERTY_BUILD", "PROPERTY_SELL_BUILDING"}

\* Operations that pass a tile on, or release it, and leave a group without buildings.
Clearing == {"PROPERTY_PURCHASE", "PROPERTY_TRANSFER", "MORTGAGE_REDEMPTION"}

\* What an operation on tiles does to each: only building moves levels, up or
\* down, on unmortgaged streets of one group and of its only participant;
\* only a purchase and a trade move owners.
TellsLevels(tx) ==
  tx.type \in RegistryTypes =>
    \A t \in DOMAIN tx.changes :
      LET c == tx.changes[t]
      IN /\ tx.type \in Construction \cup Clearing \cup {"MORTGAGE"}
         /\ tx.type \notin Construction => c.after.houses = c.before.houses
         /\ tx.type \notin {"PROPERTY_PURCHASE", "PROPERTY_TRANSFER"} =>
              c.after.owner = c.before.owner
         /\ tx.type \in Construction =>
              /\ DOMAIN tx.delta = {c.before.owner} /\ c.before.owner # Bank
              /\ ~c.before.mortgaged /\ DOMAIN tx.changes \subseteq groupTiles(t)
         /\ tx.type = "PROPERTY_BUILD" => c.before.houses < c.after.houses
         /\ tx.type = "PROPERTY_SELL_BUILDING" => c.after.houses < c.before.houses

RowsBuild == \A j \in DOMAIN log : TellsLevels(log[j])

\* The row stands on a tile of the group of g.
Touches(j, g) == \E u \in groupTiles(g) : j \in Standing(u)

\* The rows that stand and built on tile v, or sold its buildings.
Shaping(v) == {j \in Standing(v) : log[j].type \in Construction}

\* The state tile v would have if all building on it since row i were reversed:
\* the one it has, or the one before the first that stands.
StoodAs(i, v, s) ==
  \/ (\A j \in Shaping(v) : j <= i) /\ s = registry[v]
  \/ \E j \in Shaping(v) :
       /\ i < j /\ \A k \in Shaping(v) : k <= i \/ j <= k
       /\ s = log[j].changes[v].before

\* A tile of the group was traded after row k.
Traded(k, g) ==
  \E j \in OfType("PROPERTY_TRANSFER") : k < j /\ Overlap(log[j].tiles, groupTiles(g))

Even(reg, g) ==
  Rules.buildEvenly => \A u, v \in groupTiles(g) : reg[u].houses - reg[v].houses <= 1

Whole(reg, g) ==
  \A u, v \in groupTiles(g) :
    ~reg[u].mortgaged /\ reg[u].owner = reg[v].owner /\ reg[u].owner # Bank

Sound(g) == groupHasBuildings(registry, g) => Whole(registry, g) /\ Even(registry, g)

Pawned(j, u) == j \in Standing(u) /\ log[j].type = "MORTGAGE"

\* Tile u is still its seller's; what was mortgaged or redeemed since row k
\* was mortgaged by a row since that stands.
SoldWith(k, u) ==
  /\ registry[u].owner \in DOMAIN log[k].delta
  /\ registry[u].mortgaged => \E j \in Standing(u) : k < j /\ Pawned(j, u)
  /\ \A r \in Standing(u) : k < r =>
       /\ log[r].type # "PROPERTY_PURCHASE"
       /\ log[r].type = "MORTGAGE_REDEMPTION" =>
            \E j \in Standing(u) : k < j /\ j < r /\ Pawned(j, u)

\* While nothing of the group is traded, a sale of buildings that can be reversed
\* finds the group in the hands it left it in.
SalesHold(g) ==
  \A k \in DOMAIN log :
    /\ log[k].type = "PROPERTY_SELL_BUILDING" /\ Touches(k, g)
    /\ ~Stuck(k) /\ ~Traded(k, g)
    => \A u \in groupTiles(g) : SoldWith(k, u)

\* Without the building since, a group with a tile bought, traded or redeemed is bare.
ClearHold(g) ==
  \A k \in DOMAIN log : log[k].type \in Clearing /\ Touches(k, g) =>
    \A v \in groupTiles(g), s \in TileState : StoodAs(k, v, s) => s.houses = 0

\* State s fits beside what row i had built on, if s is put back to level b.
Beside(i, b, s) ==
  /\ s.houses > 0 => s.owner \in DOMAIN log[i].delta
  /\ Rules.buildEvenly => s.houses - b <= 1 /\ b - s.houses <= 1

Fits(i, u, v) ==
  LET b == log[i].changes[u].before.houses
  IN IF v \in DOMAIN log[i].changes
       THEN Beside(i, b, log[i].changes[v].before)
       ELSE \A s \in TileState : StoodAs(i, v, s) => Beside(i, b, s)

\* What a reversal of building puts back fits beside the rest of the group.
LevelHold(g) ==
  \A i \in DOMAIN log : log[i].type \in Construction /\ Touches(i, g) /\ ~Stuck(i) =>
    \A u \in DOMAIN log[i].changes, v \in groupTiles(g) : Fits(i, u, v)

GroupSound(g) == Sound(g) /\ SalesHold(g) /\ ClearHold(g) /\ LevelHold(g)

\* Who built in a group built all there is: they own every tile with a building.
OneBuilder(g) ==
  \A u, v \in groupTiles(g) :
    registry[u].houses > 0 /\ registry[v].houses > 0 =>
      registry[u].owner = registry[v].owner /\ registry[u].owner # Bank

Passing == {"PROPERTY_PURCHASE", "PROPERTY_TRANSFER"}

\* Without the building since, a tile that was bought or traded is bare.
PassedBare(g) ==
  \A k \in DOMAIN log, v \in groupTiles(g) : log[k].type \in Passing /\ k \in Standing(v) =>
    \A s \in TileState : StoodAs(k, v, s) => s.houses = 0

\* What holds of a group even after a sale of buildings was reversed behind a trade.
EvenGroup(g) == OneBuilder(g) /\ Even(registry, g) /\ PassedBare(g) /\ LevelHold(g)

BuildInv ==
  /\ RowsBuild
  /\ \A g \in DOMAIN registry : EvenGroup(g) /\ (SaleReversedAfterTrade(g) \/ GroupSound(g))

\* A row was added: what that makes of the rows there are.
Added(tx, x) ==
  /\ x \in Nat /\ x \notin DOMAIN log
  /\ DOMAIN log' = DOMAIN log \cup {x} /\ log'[x] = tx
  /\ \A j \in DOMAIN log :
       /\ j \in Nat /\ j # 0 /\ j < x /\ log'[j] = log[j]
       /\ Reversed(j)' <=> Reversed(j) \/ tx.undoes = j
  /\ ~Reversed(x)'

\* A group is the group of each of its tiles.
LEMMA SameGroup ==
    ASSUME NEW g \in Tiles, NEW u \in groupTiles(g)
    PROVE  u \in Tiles /\ g \in groupTiles(g) /\ groupTiles(u) = groupTiles(g)
BY DEF groupTiles

\* The levels are numbers.
LEMMA LevelsNat ==
    ASSUME TypeInv, NEW v \in DOMAIN registry
    PROVE  registry[v].houses \in Nat /\ registry[v] \in TileState
<1>1. registry[v] \in TileState
  BY RegistryFacts DEF TypeInv
<1> QED BY <1>1 DEF TileState, MaxBuildings

\* The rows that stand on a tile once one is added.
LEMMA StandingThen ==
    ASSUME NEW tx, NEW x, Added(tx, x), NEW t
    PROVE  /\ \A j \in DOMAIN log : /\ j \in Standing(t)' <=> j \in Standing(t) /\ tx.undoes # j
                                    /\ j \in Shaping(t)' <=> j \in Shaping(t) /\ tx.undoes # j
           /\ x \in Standing(t)' <=> tx.type \in RegistryTypes /\ t \in DOMAIN tx.changes
           /\ x \in Shaping(t)' <=> tx.type \in Construction /\ t \in DOMAIN tx.changes
           /\ Standing(t)' \subseteq DOMAIN log \cup {x} /\ Shaping(t)' \subseteq Standing(t)'
           /\ Standing(t) \subseteq DOMAIN log /\ Shaping(t) \subseteq Standing(t)
<1>1. \A j \in DOMAIN log : j \in Standing(t)' <=> j \in Standing(t) /\ tx.undoes # j
  BY DEF Added, Standing
<1>2. x \in Standing(t)' <=> tx.type \in RegistryTypes /\ t \in DOMAIN tx.changes
  BY DEF Added, Standing
<1>3. Standing(t)' \subseteq DOMAIN log \cup {x} /\ Standing(t) \subseteq DOMAIN log
  BY DEF Added, Standing
<1>4. \A j \in DOMAIN log : j \in Shaping(t)' <=> j \in Shaping(t) /\ tx.undoes # j
  BY <1>1 DEF Shaping, Added
<1>5. x \in Shaping(t)' <=> tx.type \in Construction /\ t \in DOMAIN tx.changes
  BY <1>2 DEF Shaping, Added, Construction, RegistryTypes
<1>6. Shaping(t)' \subseteq Standing(t)' /\ Shaping(t) \subseteq Standing(t)
  BY DEF Shaping
<1> QED BY <1>1, <1>2, <1>3, <1>4, <1>5, <1>6

\* What a tile stood as before a step that takes back no building on it: the same,
\* or what it was if the step moved it without building.
LEMMA StoodBefore ==
    ASSUME NEW tx, NEW x, Added(tx, x), NEW v, NEW i \in DOMAIN log, NEW s, StoodAs(i, v, s)',
           tx.undoes \notin Shaping(v),
           tx.type \in Construction /\ v \in DOMAIN tx.changes => tx.changes[v].before = registry[v]
    PROVE  \/ StoodAs(i, v, s)
           \/ /\ ~(tx.type \in Construction /\ v \in DOMAIN tx.changes)
              /\ s = registry'[v] /\ StoodAs(i, v, registry[v])
<1>1. /\ \A j \in Shaping(v) : j \in Shaping(v)' /\ j \in Nat /\ j < x /\ log'[j] = log[j]
      /\ \A j \in Shaping(v)' : j \in Shaping(v) \/ j = x
      /\ x \in Shaping(v)' <=> tx.type \in Construction /\ v \in DOMAIN tx.changes
  BY StandingThen DEF Added
<1>2. i \in Nat /\ i < x /\ x \in Nat /\ log'[x] = tx
  BY DEF Added
<1>3. CASE (\A j \in Shaping(v)' : j <= i) /\ s = registry'[v]
  <2>1. x \notin Shaping(v)' /\ \A j \in Shaping(v) : j <= i
    BY <1>1, <1>2, <1>3
  <2> QED BY <1>1, <1>3, <2>1 DEF StoodAs
<1>4. ASSUME NEW j \in Shaping(v)', i < j, \A k \in Shaping(v)' : k <= i \/ j <= k,
             s = log'[j].changes[v].before
      PROVE  StoodAs(i, v, s)
  <2>1. CASE j \in Shaping(v)
    BY <1>1, <1>4, <2>1 DEF StoodAs
  <2>2. CASE j = x
    <3>1. \A k \in Shaping(v) : k <= i
      BY <1>1, <1>2, <1>4, <2>2
    <3>2. s = registry[v]
      BY <1>1, <1>2, <1>4, <2>2
    <3> QED BY <3>1, <3>2 DEF StoodAs
  <2> QED BY <1>1, <2>1, <2>2
<1> QED BY <1>3, <1>4 DEF StoodAs

\* ... and before one that takes back the last building on it.
LEMMA StoodBeforeUndone ==
    ASSUME NEW tx, NEW x, Added(tx, x), NEW v, NEW i \in DOMAIN log, NEW s, StoodAs(i, v, s)',
           NEW k \in Shaping(v), tx.undoes = k, i < k, \A j \in Shaping(v) : j <= k,
           tx.type \notin Construction, registry'[v] = log[k].changes[v].before
    PROVE  StoodAs(i, v, s)
<1>1. /\ \A j \in Shaping(v) : j \in Nat /\ log'[j] = log[j] /\ (j \in Shaping(v)' <=> j # k)
      /\ \A j \in Shaping(v)' : j \in Shaping(v)
      /\ k \in Nat /\ i \in Nat
  BY StandingThen DEF Added
<1>2. CASE (\A j \in Shaping(v)' : j <= i) /\ s = registry'[v]
  BY <1>1, <1>2 DEF StoodAs
<1>3. ASSUME NEW j \in Shaping(v)', i < j, \A m \in Shaping(v)' : m <= i \/ j <= m,
             s = log'[j].changes[v].before
      PROVE  StoodAs(i, v, s)
  BY <1>1, <1>3 DEF StoodAs
<1> QED BY <1>2, <1>3 DEF StoodAs

\* After the new row a tile is what it is.
LEMMA StoodNow ==
    ASSUME NEW tx, NEW x, Added(tx, x), NEW v, NEW s, StoodAs(x, v, s)'
    PROVE  s = registry'[v]
<1>1. \A j \in Shaping(v)' : j <= x /\ ~(x < j)
  BY StandingThen DEF Added
<1> QED BY <1>1 DEF StoodAs

\* What a step does not take back: who is bankrupt, what was traded, a sale reversed.
LEMMA Lasting ==
    ASSUME NEW tx, NEW x, Added(tx, x), bankrupt \subseteq bankrupt', NEW g
    PROVE  /\ \A k \in DOMAIN log : /\ Stuck(k) => Stuck(k)'
                                    /\ Traded(k, g) => Traded(k, g)'
                                    /\ Touches(k, g)' => Touches(k, g) /\ tx.undoes # k
                                    /\ Reversed(k) => Reversed(k)'
           /\ Touches(x, g)' => tx.type \in RegistryTypes
                                 /\ \E u \in groupTiles(g) : u \in DOMAIN tx.changes
           /\ SaleReversedAfterTrade(g) => SaleReversedAfterTrade(g)'
<1>1. ASSUME NEW k \in DOMAIN log
      PROVE  /\ Stuck(k) => Stuck(k)'
             /\ Traded(k, g) => Traded(k, g)'
             /\ Touches(k, g)' => Touches(k, g) /\ tx.undoes # k
             /\ Reversed(k) => Reversed(k)'
  <2>1. Stuck(k) => Stuck(k)'
    BY DEF Stuck, Added
  <2>2. Traded(k, g) => Traded(k, g)'
    BY DEF Traded, Added, OfType
  <2>3. Touches(k, g)' => Touches(k, g) /\ tx.undoes # k
    BY StandingThen DEF Touches
  <2> QED BY <2>1, <2>2, <2>3 DEF Added
<1>2. Touches(x, g)' => tx.type \in RegistryTypes /\ \E u \in groupTiles(g) : u \in DOMAIN tx.changes
  BY StandingThen DEF Touches
<1>3. SaleReversedAfterTrade(g) => SaleReversedAfterTrade(g)'
  <2>1. /\ \A i \in OfType("PROPERTY_SELL_BUILDING") :
             i \in OfType("PROPERTY_SELL_BUILDING")' /\ log'[i] = log[i] /\ (Reversed(i) => Reversed(i)')
        /\ \A j \in OfType("PROPERTY_TRANSFER") :
             j \in OfType("PROPERTY_TRANSFER")' /\ log'[j] = log[j]
    BY DEF Added, OfType
  <2> QED BY <2>1 DEF SaleReversedAfterTrade
<1> QED BY <1>1, <1>2, <1>3

\* A step that does nothing to a group.
LEMMA GroupUntouched ==
    ASSUME NEW tx, NEW x, Added(tx, x), bankrupt \subseteq bankrupt', NEW g \in Tiles, GroupSound(g),
           \A u \in groupTiles(g) : /\ registry'[u] = registry[u]
                                    /\ tx.undoes \notin Standing(u)
                                    /\ ~(tx.type \in RegistryTypes /\ u \in DOMAIN tx.changes)
    PROVE  GroupSound(g)'
<1>1. \A k \in DOMAIN log : /\ Stuck(k) => Stuck(k)'
                            /\ Traded(k, g) => Traded(k, g)'
                            /\ Touches(k, g)' => Touches(k, g)
                            /\ log'[k] = log[k]
  BY Lasting DEF Added
<1>2. \A k : Touches(k, g)' => k \in DOMAIN log
  BY StandingThen DEF Touches
<1>3. \A u \in groupTiles(g) :
        /\ Standing(u)' = Standing(u) /\ Shaping(u)' = Shaping(u) /\ Standing(u) \subseteq DOMAIN log
        /\ \A j \in Standing(u) : log'[j] = log[j]
  <2>1. ASSUME NEW u \in groupTiles(g) PROVE Standing(u)' = Standing(u) /\ Standing(u) \subseteq DOMAIN log
    <3>1. \A j \in DOMAIN log : j \in Standing(u)' <=> j \in Standing(u)
      BY StandingThen
    <3>2. /\ x \notin Standing(u)' /\ Standing(u)' \subseteq DOMAIN log \cup {x}
          /\ Standing(u) \subseteq DOMAIN log
      BY StandingThen
    <3> QED BY <3>1, <3>2
  <2>2. \A u \in groupTiles(g) : \A j \in Standing(u) : log'[j] = log[j]
    BY <2>1 DEF Added
  <2>3. \A u \in groupTiles(g) : Shaping(u)' = Shaping(u)
    BY <2>1, <2>2 DEF Shaping
  <2> QED BY <2>1, <2>2, <2>3
<1>4. Sound(g)'
  <2>1. Sound(g)
    BY DEF GroupSound
  <2> QED BY <2>1 DEF Sound, groupHasBuildings, Whole, Even
<1>5. ASSUME NEW k \in DOMAIN log, NEW u \in groupTiles(g), SoldWith(k, u) PROVE SoldWith(k, u)'
  <2>1. \A j : Pawned(j, u) => Pawned(j, u)'
    BY <1>3 DEF Pawned
  <2>2. log'[k] = log[k]
    BY DEF Added
  <2> QED BY <1>3, <1>5, <2>1, <2>2 DEF SoldWith
<1>6. SalesHold(g)'
  <2>1. SalesHold(g)
    BY DEF GroupSound
  <2> QED BY <1>1, <1>2, <1>5, <2>1 DEF SalesHold
<1>7. \A i, v, s : v \in groupTiles(g) /\ StoodAs(i, v, s)' => StoodAs(i, v, s)
  <2>1. \A v \in groupTiles(g) : \A j \in Shaping(v) : log'[j] = log[j]
    BY <1>3 DEF Shaping
  <2> QED BY <1>3, <2>1 DEF StoodAs
<1>8. ClearHold(g)'
  <2>1. ClearHold(g)
    BY DEF GroupSound
  <2> QED BY <1>1, <1>2, <1>7, <2>1 DEF ClearHold
<1>9. LevelHold(g)'
  <2>1. LevelHold(g)
    BY DEF GroupSound
  <2>2. \A i \in DOMAIN log : \A u, v : v \in groupTiles(g) /\ Fits(i, u, v) => Fits(i, u, v)'
    BY <1>1, <1>7 DEF Fits, Beside
  <2> QED BY <1>1, <1>2, <2>1, <2>2 DEF LevelHold
<1> QED BY <1>4, <1>6, <1>8, <1>9 DEF GroupSound

\* A step without building that leaves a group bare: it was bare before, or who had
\* the buildings is bankrupt.
LEMMA GroupEmptied ==
    ASSUME NEW tx, NEW x, Added(tx, x), bankrupt \subseteq bankrupt', TypeInv,
           NEW g \in Tiles, GroupSound(g), groupTiles(g) \subseteq DOMAIN registry,
           tx.type \notin Construction,
           \A v \in groupTiles(g) :
             /\ tx.undoes \notin Shaping(v) /\ registry'[v].houses = 0
             /\ registry[v].houses = 0 \/ registry[v].owner \in bankrupt'
    PROVE  Sound(g)' /\ ClearHold(g)' /\ LevelHold(g)'
<1>1. Sound(g)'
  BY DEF Sound, groupHasBuildings
<1>2. ASSUME NEW i \in DOMAIN log, NEW v \in groupTiles(g), NEW s, StoodAs(i, v, s)'
      PROVE  \/ StoodAs(i, v, s)
             \/ s = registry'[v] /\ StoodAs(i, v, registry[v])
  BY <1>2, StoodBefore
<1>3. ClearHold(g)'
  <2> SUFFICES ASSUME NEW k \in DOMAIN log', log'[k].type \in Clearing, Touches(k, g)',
                      NEW v \in groupTiles(g), NEW s \in TileState, StoodAs(k, v, s)'
               PROVE  s.houses = 0
    BY DEF ClearHold
  <2>1. CASE k = x
    <3>1. s = registry'[v]
      BY <2>1, StoodNow
    <3> QED BY <3>1
  <2>2. CASE k \in DOMAIN log
    <3>1. log[k].type \in Clearing /\ Touches(k, g)
      BY <2>2, Lasting DEF Added
    <3>2. ClearHold(g)
      BY DEF GroupSound
    <3> QED BY <1>2, <2>2, <3>1, <3>2 DEF ClearHold
  <2> QED BY <2>1, <2>2 DEF Added
<1>4. LevelHold(g)'
  <2> SUFFICES ASSUME NEW i \in DOMAIN log', log'[i].type \in Construction, Touches(i, g)', ~Stuck(i)',
                      NEW u \in DOMAIN log'[i].changes, NEW v \in groupTiles(g)
               PROVE  Fits(i, u, v)'
    BY DEF LevelHold
  <2>1. i \in DOMAIN log /\ log'[i] = log[i] /\ Touches(i, g) /\ ~Stuck(i)
    <3>1. i # x
      BY DEF Added
    <3> QED BY <3>1, Lasting DEF Added
  <2>2. PICK b : b = log[i].changes[u].before.houses
    OBVIOUS
  <2>3. \A s : Beside(i, b, s) => Beside(i, b, s)'
    BY <2>1, <2>2 DEF Beside
  <2>4. IF v \in DOMAIN log[i].changes
          THEN Beside(i, b, log[i].changes[v].before)
          ELSE \A s \in TileState : StoodAs(i, v, s) => Beside(i, b, s)
    BY <2>1, <2>2 DEF GroupSound, LevelHold, Fits
  <2>5. ASSUME v \notin DOMAIN log[i].changes, NEW s \in TileState, StoodAs(i, v, s)'
        PROVE  Beside(i, b, s)
    <3>1. CASE StoodAs(i, v, s)
      BY <2>4, <2>5, <3>1
    <3>2. CASE s = registry'[v] /\ StoodAs(i, v, registry[v])
      <4>1. registry[v] \in TileState
        BY RegistryFacts DEF TypeInv
      <4>2. Beside(i, b, registry[v])
        BY <2>4, <2>5, <3>2, <4>1
      <4>3. registry[v].houses = 0
        <5>1. registry[v].houses > 0 => ~ registry[v].owner \in bankrupt'
          BY <2>1, <4>2 DEF Beside, Stuck
        <5>2. registry[v].houses \in Nat
          BY <4>1 DEF TileState, MaxBuildings
        <5> QED BY <5>1, <5>2
      <4> QED BY <3>2, <4>2, <4>3 DEF Beside
    <3> QED BY <1>2, <2>1, <2>5, <3>1, <3>2
  <2>6. log'[i].changes[u].before.houses = b
    BY <2>1, <2>2
  <2> QED BY <2>1, <2>3, <2>4, <2>5, <2>6 DEF Fits, Beside
<1> QED BY <1>1, <1>3, <1>4

\* A deal is recorded: the tiles it names change, nothing is undone.
Dealt(tx, x) ==
  /\ Added(tx, x) /\ tx.undoes = 0 /\ tx.type \in RegistryTypes /\ bankrupt' = bankrupt
  /\ TellsTiles(tx) /\ TellsLevels(tx)
  /\ \A t \in DOMAIN tx.changes : t \in DOMAIN registry /\ tx.changes[t].before = registry[t]
  /\ \A t \in DOMAIN registry :
       registry'[t] = IF t \in DOMAIN tx.changes THEN tx.changes[t].after ELSE registry[t]

\* What each kind of deal asks for: building a whole group, even when it is done, a
\* purchase an unowned tile, a mortgage and a trade a group without buildings.
Lawful(tx) ==
  \A t \in DOMAIN tx.changes :
    /\ tx.type \in Construction =>
         /\ \A u \in groupTiles(t) : ~registry[u].mortgaged /\ registry[u].owner = registry[t].owner
         /\ Even(registry', t)
    /\ tx.type = "PROPERTY_PURCHASE" => registry[t].owner = Bank
    /\ tx.type \in {"MORTGAGE", "PROPERTY_TRANSFER"} => ~groupHasBuildings(registry, t)

\* After a deal the sales before it still hold: nobody can buy into the group or
\* mortgage in it unseen.
LEMMA OldSalesHold ==
    ASSUME NEW tx, NEW x, Dealt(tx, x), Lawful(tx), TypeInv,
           NEW g \in Tiles, groupTiles(g) \subseteq DOMAIN registry,
           NEW k \in DOMAIN log, ~Traded(k, g)', NEW u \in groupTiles(g), SoldWith(k, u)
    PROVE  SoldWith(k, u)'
<1>1. /\ x \in Nat /\ k \in Nat /\ k < x /\ log'[k] = log[k] /\ log'[x] = tx /\ x \in DOMAIN log'
      /\ registry'[u] = IF u \in DOMAIN tx.changes THEN tx.changes[u].after ELSE registry[u]
      /\ \A j \in DOMAIN log : j \in Nat /\ j < x /\ log'[j] = log[j] /\ j # 0
  BY DEF Dealt, Added
<1>2. /\ \A j \in Standing(u) : j \in Standing(u)' /\ j \in DOMAIN log /\ (Pawned(j, u) => Pawned(j, u)')
      /\ \A j \in Standing(u)' : j \in Standing(u) \/ j = x
      /\ x \in Standing(u)' <=> u \in DOMAIN tx.changes
  BY <1>1, StandingThen DEF Dealt, Pawned
<1>3. CASE u \notin DOMAIN tx.changes
  <2>1. registry'[u] = registry[u] /\ \A r \in Standing(u)' : r \in Standing(u) /\ log'[r] = log[r]
    BY <1>1, <1>2, <1>3
  <2> QED BY <1>1, <1>2, <2>1 DEF SoldWith
<1>4. CASE u \in DOMAIN tx.changes
  <2> DEFINE c == tx.changes[u]
  <2>1. c.before = registry[u] /\ registry'[u] = c.after
    BY <1>1, <1>4 DEF Dealt
  <2>2. tx.type # "PROPERTY_PURCHASE"
    <3>1. log[k].delta \in Deltas
      BY LogFacts DEF TypeInv
    <3>2. DOMAIN log[k].delta \subseteq Players
      BY <3>1, DeltaFacts
    <3>3. registry[u].owner # Bank
      BY <3>2, LedgerAssumption DEF SoldWith
    <3> QED BY <1>4, <3>3 DEF Lawful
  <2>3. tx.type # "PROPERTY_TRANSFER"
    <3>1. u \in tx.tiles
      BY <1>4 DEF Dealt, TellsTiles
    <3>2. tx.type = "PROPERTY_TRANSFER" => Traded(k, g)'
      BY <1>1, <3>1 DEF Traded, OfType, Overlap
    <3> QED BY <3>2
  <2>4. registry'[u].owner = registry[u].owner
    BY <1>4, <2>1, <2>2, <2>3 DEF Dealt, TellsLevels
  <2>5. registry'[u].mortgaged => tx.type = "MORTGAGE"
    <3>1. tx.type \in Construction \cup Clearing \cup {"MORTGAGE"}
      BY <1>4 DEF Dealt, TellsLevels
    <3>2. tx.type = "MORTGAGE_REDEMPTION" => ~c.after.mortgaged
      BY <1>4 DEF Dealt, TellsTiles
    <3>3. tx.type \in Construction => ~c.after.mortgaged
      BY <1>4 DEF Dealt, TellsTiles, TellsLevels, Construction
    <3> QED BY <2>1, <2>2, <2>3, <3>1, <3>2, <3>3 DEF Clearing
  <2>6. registry'[u].mortgaged => \E j \in Standing(u)' : k < j /\ Pawned(j, u)'
    BY <1>1, <1>2, <1>4, <2>5 DEF Pawned
  <2>7. ASSUME NEW r \in Standing(u)', k < r
        PROVE  /\ log'[r].type # "PROPERTY_PURCHASE"
               /\ log'[r].type = "MORTGAGE_REDEMPTION" =>
                    \E j \in Standing(u)' : k < j /\ j < r /\ Pawned(j, u)'
    <3>1. CASE r \in Standing(u)
      BY <1>1, <1>2, <2>7, <3>1 DEF SoldWith
    <3>2. CASE r = x
      <4>1. tx.type = "MORTGAGE_REDEMPTION" => registry[u].mortgaged
        BY <1>4, <2>1 DEF Dealt, TellsTiles
      <4>2. tx.type = "MORTGAGE_REDEMPTION" => \E j \in Standing(u) : k < j /\ Pawned(j, u)
        BY <4>1 DEF SoldWith
      <4> QED BY <1>1, <1>2, <2>2, <3>2, <4>2
    <3> QED BY <1>2, <3>1, <3>2
  <2>8. registry'[u].owner \in DOMAIN log'[k].delta
    BY <1>1, <2>4 DEF SoldWith
  <2> QED BY <2>6, <2>7, <2>8 DEF SoldWith
<1> QED BY <1>3, <1>4

\* Building finds one owner, and leaves it.
LEMMA NewSaleHolds ==
    ASSUME NEW tx, NEW x, Dealt(tx, x), Lawful(tx), NEW g \in Tiles,
           groupTiles(g) \subseteq DOMAIN registry, tx.type \in Construction,
           NEW w \in groupTiles(g), w \in DOMAIN tx.changes
    PROVE  /\ \A u \in groupTiles(g) :
                /\ registry'[u].owner \in DOMAIN tx.delta /\ ~registry'[u].mortgaged
                /\ registry[u].owner \in DOMAIN tx.delta
           /\ \A u, v \in DOMAIN tx.delta : u = v /\ u # Bank
           /\ Even(registry', g) /\ Whole(registry, g)
           /\ DOMAIN tx.changes \subseteq groupTiles(g)
<1>1. groupTiles(w) = groupTiles(g)
  BY SameGroup
<1>2. /\ \A u \in groupTiles(g) : ~registry[u].mortgaged /\ registry[u].owner = registry[w].owner
      /\ Even(registry', g)
  BY <1>1 DEF Lawful, Even
<1>3. /\ DOMAIN tx.delta = {registry[w].owner} /\ registry[w].owner # Bank
      /\ DOMAIN tx.changes \subseteq groupTiles(g)
  BY <1>1 DEF Dealt, TellsLevels
<1>4. ASSUME NEW u \in groupTiles(g)
      PROVE  registry'[u].owner = registry[w].owner /\ ~registry'[u].mortgaged
  <2>1. CASE u \in DOMAIN tx.changes
    <3> DEFINE c == tx.changes[u]
    <3>1. c.before = registry[u] /\ registry'[u] = c.after
      BY <2>1 DEF Dealt
    <3>2. c.after.owner = c.before.owner
      BY <2>1 DEF Dealt, TellsLevels, Construction
    <3>3. c.before.mortgaged = c.after.mortgaged
      BY <2>1 DEF Dealt, TellsTiles, Construction
    <3> QED BY <1>2, <3>1, <3>2, <3>3
  <2>2. CASE u \notin DOMAIN tx.changes
    BY <1>2, <2>2 DEF Dealt
  <2> QED BY <2>1, <2>2
<1> QED BY <1>2, <1>3, <1>4 DEF Whole

\* So all sales hold after a deal.
LEMMA SalesDealt ==
    ASSUME NEW tx, NEW x, Dealt(tx, x), Lawful(tx), TypeInv,
           NEW g \in Tiles, groupTiles(g) \subseteq DOMAIN registry, SalesHold(g)
    PROVE  SalesHold(g)'
<1> SUFFICES ASSUME NEW k \in DOMAIN log', log'[k].type = "PROPERTY_SELL_BUILDING", Touches(k, g)',
                    ~Stuck(k)', ~Traded(k, g)', NEW u \in groupTiles(g)
             PROVE  SoldWith(k, u)'
  BY DEF SalesHold
<1>1. Added(tx, x) /\ bankrupt \subseteq bankrupt'
  BY DEF Dealt
<1>2. CASE k \in DOMAIN log
  <2>1. /\ log[k].type = "PROPERTY_SELL_BUILDING" /\ Touches(k, g) /\ ~Stuck(k) /\ ~Traded(k, g)
    BY <1>1, <1>2, Lasting DEF Added
  <2>2. SoldWith(k, u)
    BY <1>2, <2>1 DEF SalesHold
  <2> QED BY <1>2, <2>2, OldSalesHold
<1>3. CASE k = x
  <2>1. log'[x] = tx /\ tx.type \in Construction
    BY <1>1, <1>3 DEF Added, Construction
  <2>2. PICK w \in groupTiles(g) : w \in DOMAIN tx.changes
    BY <1>1, <1>3, Lasting
  <2>3. registry'[u].owner \in DOMAIN tx.delta /\ ~registry'[u].mortgaged
    BY <2>1, <2>2, NewSaleHolds
  <2>4. \A r \in Standing(u)' : ~(x < r)
    BY <1>1, StandingThen DEF Added
  <2> QED BY <1>3, <2>1, <2>3, <2>4 DEF SoldWith
<1> QED BY <1>1, <1>2, <1>3 DEF Added

\* A sound group is even, with buildings or without.
LEMMA SoundEven ==
    ASSUME TypeInv, NEW g \in Tiles, groupTiles(g) \subseteq DOMAIN registry, Sound(g),
           NEW u \in groupTiles(g), NEW v \in groupTiles(g)
    PROVE  /\ registry[u].houses \in Nat /\ registry[v].houses \in Nat
           /\ Rules.buildEvenly => registry[u].houses - registry[v].houses <= 1
<1>1. /\ registry[u] \in TileState /\ registry[v] \in TileState
  BY RegistryFacts DEF TypeInv
<1>2. registry[u].houses \in Nat /\ registry[v].houses \in Nat
  BY <1>1 DEF TileState, MaxBuildings
<1>3. CASE groupHasBuildings(registry, g)
  BY <1>2, <1>3 DEF Sound, Even
<1>4. CASE ~groupHasBuildings(registry, g)
  BY <1>2, <1>4 DEF groupHasBuildings
<1> QED BY <1>2, <1>3, <1>4

\* Building in a group.
LEMMA GroupBuilt ==
    ASSUME NEW tx, NEW x, Dealt(tx, x), Lawful(tx), TypeInv,
           NEW g \in Tiles, groupTiles(g) \subseteq DOMAIN registry, GroupSound(g),
           tx.type \in Construction, NEW w \in groupTiles(g), w \in DOMAIN tx.changes
    PROVE  Sound(g)' /\ ClearHold(g)' /\ LevelHold(g)'
<1>1. /\ \A u \in groupTiles(g) :
           /\ registry'[u].owner \in DOMAIN tx.delta /\ ~registry'[u].mortgaged
           /\ registry[u].owner \in DOMAIN tx.delta
      /\ \A u, v \in DOMAIN tx.delta : u = v /\ u # Bank
      /\ Even(registry', g) /\ DOMAIN tx.changes \subseteq groupTiles(g)
  BY NewSaleHolds
<1>2. /\ Added(tx, x) /\ bankrupt \subseteq bankrupt' /\ tx.undoes = 0 /\ log'[x] = tx
      /\ DOMAIN log' = DOMAIN log \cup {x}
      /\ \A i \in DOMAIN log : log'[i] = log[i]
  BY DEF Dealt, Added
<1>3. Sound(g)'
  <2>1. Whole(registry', g)
    BY <1>1 DEF Whole
  <2> QED BY <1>1, <2>1 DEF Sound, Whole, Even
<1>4. ASSUME NEW i \in DOMAIN log, NEW v \in groupTiles(g), NEW s, StoodAs(i, v, s)'
      PROVE  StoodAs(i, v, s)
  <2>1. tx.undoes \notin Shaping(v)
    BY <1>2, StandingThen DEF Added
  <2>2. v \in DOMAIN tx.changes => tx.changes[v].before = registry[v]
    BY DEF Dealt
  <2>3. v \notin DOMAIN tx.changes => registry'[v] = registry[v]
    BY DEF Dealt
  <2> QED BY <1>2, <1>4, <2>1, <2>2, <2>3, StoodBefore
<1>5. ClearHold(g)'
  <2> SUFFICES ASSUME NEW k \in DOMAIN log', log'[k].type \in Clearing, Touches(k, g)',
                      NEW v \in groupTiles(g), NEW s \in TileState, StoodAs(k, v, s)'
               PROVE  s.houses = 0
    BY DEF ClearHold
  <2>1. k \in DOMAIN log /\ log[k].type \in Clearing /\ Touches(k, g)
    BY <1>2, Lasting DEF Construction, Clearing
  <2> QED BY <1>4, <2>1 DEF GroupSound, ClearHold
<1>6. LevelHold(g)'
  <2> SUFFICES ASSUME NEW i \in DOMAIN log', log'[i].type \in Construction, Touches(i, g)', ~Stuck(i)',
                      NEW u \in DOMAIN log'[i].changes, NEW v \in groupTiles(g)
               PROVE  Fits(i, u, v)'
    BY DEF LevelHold
  <2>1. CASE i \in DOMAIN log
    <3>1. log'[i] = log[i] /\ Touches(i, g) /\ ~Stuck(i)
      BY <1>2, <2>1, Lasting
    <3>2. Fits(i, u, v)
      BY <2>1, <3>1 DEF GroupSound, LevelHold
    <3> QED BY <1>4, <2>1, <3>1, <3>2 DEF Fits, Beside
  <2>2. CASE i = x
    <3>1. u \in DOMAIN tx.changes /\ u \in groupTiles(g)
      BY <1>1, <1>2, <2>2
    <3>2. PICK b : b = registry[u].houses
      OBVIOUS
    <3>3. log'[i].changes[u].before.houses = b
      BY <1>2, <2>2, <3>1, <3>2 DEF Dealt
    <3>4. /\ registry[v].houses > 0 => registry[v].owner \in DOMAIN log'[i].delta
          /\ Rules.buildEvenly => registry[v].houses - b <= 1 /\ b - registry[v].houses <= 1
      BY <1>1, <1>2, <2>2, <3>1, <3>2, SoundEven DEF GroupSound
    <3>5. v \in DOMAIN tx.changes => tx.changes[v].before = registry[v]
      BY DEF Dealt
    <3>6. ASSUME v \notin DOMAIN tx.changes, NEW s, StoodAs(i, v, s)' PROVE s = registry[v]
      <4>1. registry'[v] = registry[v]
        BY <3>6 DEF Dealt
      <4> QED BY <1>2, <2>2, <3>6, <4>1, StoodNow
    <3> QED BY <1>2, <2>2, <3>3, <3>4, <3>5, <3>6 DEF Fits, Beside
  <2> QED BY <1>2, <2>1, <2>2
<1> QED BY <1>3, <1>5, <1>6

\* A deal that is lawful keeps every group sound.
LEMMA DealKeepsGroup ==
    ASSUME NEW tx, NEW x, Dealt(tx, x), Lawful(tx), TypeInv,
           NEW g \in Tiles, groupTiles(g) \subseteq DOMAIN registry, GroupSound(g)
    PROVE  GroupSound(g)'
<1>1. Added(tx, x) /\ bankrupt \subseteq bankrupt' /\ tx.undoes = 0
  BY DEF Dealt
<1>2. \A v : tx.undoes \notin Standing(v) /\ Shaping(v) \subseteq Standing(v)
  BY <1>1, StandingThen DEF Added
<1>3. CASE \A u \in groupTiles(g) : u \notin DOMAIN tx.changes
  <2>1. \A u \in groupTiles(g) : registry'[u] = registry[u]
    BY <1>3 DEF Dealt
  <2> QED BY <1>1, <1>2, <1>3, <2>1, GroupUntouched
<1>4. ASSUME NEW w \in groupTiles(g), w \in DOMAIN tx.changes PROVE GroupSound(g)'
  <2>1. SalesHold(g)'
    BY SalesDealt DEF GroupSound
  <2>2. CASE tx.type \in Construction
    BY <1>4, <2>1, <2>2, GroupBuilt DEF GroupSound
  <2>3. CASE tx.type \notin Construction
    <3>1. ~groupHasBuildings(registry, g)
      <4>1. groupTiles(w) = groupTiles(g)
        BY SameGroup
      <4>2. tx.type \in Clearing \cup {"MORTGAGE"}
        BY <1>4, <2>3 DEF Dealt, TellsLevels
      <4>3. CASE tx.type \in {"MORTGAGE", "PROPERTY_TRANSFER"}
        BY <1>4, <4>1, <4>3 DEF Lawful, groupHasBuildings
      <4>4. CASE tx.type = "PROPERTY_PURCHASE"
        BY <1>4, <4>4 DEF Lawful, GroupSound, Sound, Whole
      <4>5. CASE tx.type = "MORTGAGE_REDEMPTION"
        <5>1. registry[w].mortgaged
          BY <1>4, <4>5 DEF Dealt, TellsTiles
        <5> QED BY <1>4, <5>1 DEF GroupSound, Sound, Whole
      <4> QED BY <4>2, <4>3, <4>4, <4>5 DEF Clearing
    <3>2. ASSUME NEW v \in groupTiles(g) PROVE registry[v].houses = 0 /\ registry'[v].houses = 0
      <4>1. registry[v].houses = 0
        <5>1. registry[v].houses \in Nat
          BY SoundEven DEF GroupSound
        <5> QED BY <3>1, <5>1 DEF groupHasBuildings
      <4>2. CASE v \in DOMAIN tx.changes
        <5> DEFINE c == tx.changes[v]
        <5>1. c.before = registry[v] /\ registry'[v] = c.after
          BY <4>2 DEF Dealt
        <5>2. c.after.houses = c.before.houses
          BY <2>3, <4>2 DEF Dealt, TellsLevels
        <5> QED BY <4>1, <5>1, <5>2
      <4>3. CASE v \notin DOMAIN tx.changes
        BY <4>1, <4>3 DEF Dealt
      <4> QED BY <4>1, <4>2, <4>3
    <3>3. \A v \in groupTiles(g) :
            /\ tx.undoes \notin Shaping(v) /\ registry'[v].houses = 0
            /\ registry[v].houses = 0 \/ registry[v].owner \in bankrupt'
      BY <1>2, <3>2
    <3>4. Sound(g)' /\ ClearHold(g)' /\ LevelHold(g)'
      BY <1>1, <2>3, <3>3, GroupEmptied
    <3> QED BY <2>1, <3>4 DEF GroupSound
  <2> QED BY <2>2, <2>3
<1> QED BY <1>3, <1>4

\* What a bankruptcy makes of the tiles of p.
Left(p, heir) ==
  \A t \in DOMAIN registry :
    registry'[t] = IF t \notin Owned(p) THEN registry[t]
                   ELSE IF heir = Bank THEN Unowned
                   ELSE [registry[t] EXCEPT !.owner = heir, !.houses = 0]

\* A tile p leaves has no buildings, others are as they were.
LEMMA LeftBare ==
    ASSUME TypeInv, NEW p, NEW heir, Left(p, heir), NEW v \in DOMAIN registry
    PROVE  /\ v \in Owned(p) => registry[v].owner = p /\ registry'[v].houses = 0
           /\ v \notin Owned(p) => registry[v].owner # p /\ registry'[v] = registry[v]
<1>1. PICK s : s = registry[v]
  OBVIOUS
<1>2. s \in TileState
  BY <1>1, RegistryFacts DEF TypeInv
<1>3. [s EXCEPT !.owner = heir, !.houses = 0].houses = 0 /\ Unowned.houses = 0
  BY <1>2 DEF TileState, Unowned
<1>4. registry'[v] = IF v \notin Owned(p) THEN s ELSE IF heir = Bank THEN Unowned
                     ELSE [s EXCEPT !.owner = heir, !.houses = 0]
  BY <1>1 DEF Left
<1> QED BY <1>1, <1>3, <1>4 DEF Owned

\* The group of a tile a bankrupt leaves is bare, and nobody's sale in it counts.
LEMMA BankruptcyKeepsGroup ==
    ASSUME NEW tx, NEW x, Added(tx, x), tx.type = "BANKRUPTCY_TRANSFER", tx.undoes = 0,
           NEW p, NEW heir, TypeInv, bankrupt' = bankrupt \cup {p},
           Left(p, heir),
           NEW g \in Tiles, groupTiles(g) \subseteq DOMAIN registry, GroupSound(g)
    PROVE  GroupSound(g)'
<1>1. /\ bankrupt \subseteq bankrupt' /\ tx.type \notin RegistryTypes \cup Construction
  BY DEF RegistryTypes, Construction
<1>2. \A v : tx.undoes \notin Standing(v) /\ Shaping(v) \subseteq Standing(v)
  BY StandingThen DEF Added
<1>3. CASE \A u \in groupTiles(g) : u \notin Owned(p)
  <2>1. \A u \in groupTiles(g) : registry'[u] = registry[u]
    BY <1>3, LeftBare
  <2> QED BY <1>1, <1>2, <2>1, GroupUntouched
<1>4. ASSUME NEW w \in groupTiles(g), w \in Owned(p) PROVE GroupSound(g)'
  <2>1. ASSUME NEW v \in groupTiles(g)
        PROVE  /\ registry'[v].houses = 0
               /\ registry[v].houses = 0 \/ registry[v].owner \in bankrupt'
    <3>1. CASE v \in Owned(p)
      BY <3>1, LeftBare
    <3>2. CASE v \notin Owned(p)
      <4>1. registry[v].owner # p /\ registry'[v] = registry[v] /\ registry[w].owner = p
        BY <1>4, <3>2, LeftBare
      <4>2. ~groupHasBuildings(registry, g)
        BY <4>1 DEF GroupSound, Sound, Whole
      <4>3. registry[v].houses \in Nat
        BY SoundEven DEF GroupSound
      <4> QED BY <4>1, <4>2, <4>3 DEF groupHasBuildings
    <3> QED BY <3>1, <3>2
  <2>2. Sound(g)' /\ ClearHold(g)' /\ LevelHold(g)'
    BY <1>1, <1>2, <2>1, GroupEmptied
  <2>3. SalesHold(g)'
    <3> SUFFICES ASSUME NEW k \in DOMAIN log', log'[k].type = "PROPERTY_SELL_BUILDING",
                        Touches(k, g)', ~Stuck(k)', ~Traded(k, g)'
                 PROVE  FALSE
      BY DEF SalesHold
    <3>1. k \in DOMAIN log /\ log'[k] = log[k]
      BY DEF Added
    <3>2. SoldWith(k, w)
      BY <1>1, <1>4, <3>1, Lasting DEF GroupSound, SalesHold
    <3> QED BY <1>4, <3>1, <3>2 DEF SoldWith, Owned, Stuck
  <2> QED BY <2>2, <2>3 DEF GroupSound
<1> QED BY <1>3, <1>4

\* Row i is undone: it was the last on its tiles, and nothing stands on their groups
\* that blocks it.
Undone(tx, x, i) ==
  /\ Added(tx, x) /\ tx.undoes = i /\ tx.type = "REVERSAL" /\ bankrupt' = bankrupt
  /\ i \in DOMAIN log /\ ~Reversed(i) /\ ~Stuck(i)
  /\ log[i].type \in RegistryTypes \/ DOMAIN log[i].changes = {}
  /\ \A t \in DOMAIN registry :
       registry'[t] = IF t \in DOMAIN log[i].changes THEN log[i].changes[t].before ELSE registry[t]
  /\ \A t \in DOMAIN log[i].changes :
       /\ registry[t] = log[i].changes[t].after
       /\ \A j \in Standing(t) : j <= i
       /\ \A u \in groupTiles(t) : \A j \in Standing(u) :
            log[j].type \in groupBlockers(log[i].type) => j <= i

\* A reversal undoes its row in that sense.
LEMMA UndoneFacts ==
    ASSUME TypeInv, TypeInv', StoryInv, NEW i \in DOMAIN log, reverseTransaction(i), NEW x, x = NextId
    PROVE  Undone(Undoing(i), x, i)
<1> DEFINE tx == Undoing(i)
<1>1. /\ log' = Append(log, tx) /\ tx.undoes = i /\ TellsTiles(tx)
      /\ bankrupt' = bankrupt /\ i \in Nat /\ ~Reversed(i) /\ ~Stuck(i)
      /\ \A t \in DOMAIN registry :
           registry'[t] = IF t \in DOMAIN log[i].changes THEN log[i].changes[t].before
                                                         ELSE registry[t]
      /\ \A t \in DOMAIN log[i].changes : registry[t] = log[i].changes[t].after
      /\ log[i].type \in RegistryTypes \/ DOMAIN log[i].changes = {}
      /\ \A j \in DOMAIN log :
           ~Reversed(j) /\ log[j].type \in RegistryTypes /\ Overlap(log[i].tiles, log[j].tiles) =>
             j <= i
  BY ReversalFacts
<1>2. tx.type = "REVERSAL"
  BY DEF Undoing, TileTx, Tx
<1> HIDE DEF tx
<1>3. Added(tx, x)
  BY <1>1, RowsGrow DEF Added, StoryInv
<1>4. \A t : \A j \in Standing(t) :
        j \in DOMAIN log /\ ~Reversed(j) /\ log[j].type \in RegistryTypes /\ t \in log[j].tiles
  BY DEF Standing, StoryInv, RowsTell, TellsTiles
<1>5. \A t \in DOMAIN log[i].changes : t \in log[i].tiles
  BY <1>1 DEF StoryInv, RowsTell, TellsTiles
<1>6. ASSUME NEW t \in DOMAIN log[i].changes, NEW j \in Standing(t) PROVE j <= i
  BY <1>1, <1>4, <1>5 DEF Overlap
<1>7. ASSUME NEW t \in DOMAIN log[i].changes, NEW u \in groupTiles(t), NEW j \in Standing(u),
             log[j].type \in groupBlockers(log[i].type)
      PROVE  j <= i
  <2>1. Overlap(Group(log[i].tiles), log[j].tiles)
    BY <1>4, <1>5 DEF Overlap, Group
  <2>2. ReversalDependencies(i) = {}
    BY DEF reverseTransaction
  <2>3. Len(log) \in Nat /\ j \in 1 .. Len(log)
    BY <1>4, LenProperties DEF TypeInv, MoneyTyped
  <2>4. j \notin i + 1 .. Len(log)
    BY <1>4, <1>7, <2>1, <2>2 DEF ReversalDependencies
  <2> QED BY <1>1, <2>3, <2>4
<1> QED BY <1>1, <1>2, <1>3, <1>6, <1>7 DEF Undone, tx

\* The rows that stand once a row is undone.
LEMMA UndoneRows ==
    ASSUME NEW tx, NEW x, NEW i, Undone(tx, x, i)
    PROVE  /\ Added(tx, x) /\ bankrupt \subseteq bankrupt' /\ i \in Nat /\ i \in DOMAIN log
           /\ tx.type \notin RegistryTypes \cup Construction \cup {"PROPERTY_TRANSFER"} \cup Clearing
           /\ \A t : /\ Standing(t)' = Standing(t) \ {i} /\ Shaping(t)' = Shaping(t) \ {i}
                     /\ Standing(t) \subseteq DOMAIN log /\ Shaping(t) \subseteq Standing(t)
                     /\ t \in DOMAIN log[i].changes => i \in Standing(t)
                     /\ i \in Standing(t) => t \in DOMAIN log[i].changes
                     /\ i \in Shaping(t) <=> t \in DOMAIN log[i].changes /\ log[i].type \in Construction
           /\ \A j \in DOMAIN log : j \in Nat /\ j # x /\ log'[j] = log[j]
<1>1. /\ Added(tx, x) /\ bankrupt \subseteq bankrupt' /\ i \in Nat /\ i \in DOMAIN log
      /\ tx.type = "REVERSAL" /\ tx.undoes = i
      /\ \A j \in DOMAIN log : j \in Nat /\ j # x /\ log'[j] = log[j]
  BY DEF Undone, Added
<1>2. tx.type \notin RegistryTypes \cup Construction \cup {"PROPERTY_TRANSFER"} \cup Clearing
  BY <1>1 DEF RegistryTypes, Construction, Clearing
<1>3. ASSUME NEW t
      PROVE  /\ Standing(t)' = Standing(t) \ {i} /\ Standing(t) \subseteq DOMAIN log
             /\ Shaping(t) \subseteq Standing(t) /\ Shaping(t)' = Shaping(t) \ {i}
  <2>1. /\ \A j \in DOMAIN log : /\ j \in Standing(t)' <=> j \in Standing(t) /\ i # j
                                 /\ j \in Shaping(t)' <=> j \in Shaping(t) /\ i # j
        /\ x \notin Standing(t)' /\ x \notin Shaping(t)'
        /\ Standing(t)' \subseteq DOMAIN log \cup {x} /\ Shaping(t)' \subseteq Standing(t)'
        /\ Standing(t) \subseteq DOMAIN log /\ Shaping(t) \subseteq Standing(t)
    BY <1>1, <1>2, StandingThen
  <2> QED BY <2>1
<1>4. ASSUME NEW t
      PROVE  /\ t \in DOMAIN log[i].changes <=> i \in Standing(t)
             /\ i \in Shaping(t) <=> t \in DOMAIN log[i].changes /\ log[i].type \in Construction
  <2>1. t \in DOMAIN log[i].changes => i \in Standing(t)
    BY DEF Undone, Standing
  <2>2. i \in Standing(t) => t \in DOMAIN log[i].changes
    BY DEF Standing
  <2> QED BY <2>1, <2>2 DEF Shaping
<1> QED BY <1>1, <1>2, <1>3, <1>4

\* Sales still hold once a later row is undone, and no row before a sale can be.
LEMMA SalesUndone ==
    ASSUME TypeInv, RowsTell, RowsBuild, NEW tx, NEW x, NEW i, Undone(tx, x, i),
           NEW g \in Tiles, groupTiles(g) \subseteq DOMAIN registry, SalesHold(g)
    PROVE  SalesHold(g)'
<1> SUFFICES ASSUME NEW k \in DOMAIN log', log'[k].type = "PROPERTY_SELL_BUILDING", Touches(k, g)',
                    ~Stuck(k)', ~Traded(k, g)', NEW u \in groupTiles(g)
             PROVE  SoldWith(k, u)'
  BY DEF SalesHold
<1>1. /\ Added(tx, x) /\ bankrupt \subseteq bankrupt' /\ i \in Nat /\ i \in DOMAIN log
      /\ \A t : /\ Standing(t)' = Standing(t) \ {i}
                /\ Standing(t) \subseteq DOMAIN log
                /\ t \in DOMAIN log[i].changes <=> i \in Standing(t)
      /\ \A j \in DOMAIN log : j \in Nat /\ log'[j] = log[j]
      /\ tx.type # "PROPERTY_SELL_BUILDING" /\ log'[x] = tx
  <2>1. tx.type # "PROPERTY_SELL_BUILDING" /\ log'[x] = tx
    BY UndoneRows DEF Construction, Added
  <2> QED BY <2>1, UndoneRows
<1>2. /\ k \in DOMAIN log /\ k \in Nat /\ log'[k] = log[k] /\ Touches(k, g) /\ k # i
      /\ ~Stuck(k) /\ ~Traded(k, g)
  <2>1. k \in DOMAIN log
    BY <1>1 DEF Added
  <2> QED BY <1>1, <2>1, Lasting DEF Undone
<1>3. SoldWith(k, u)
  BY <1>1, <1>2 DEF SalesHold
<1>4. \A j \in Standing(u) : j # i => j \in Standing(u)' /\ (Pawned(j, u) => Pawned(j, u)')
  BY <1>1 DEF Pawned
<1>5. CASE u \notin DOMAIN log[i].changes
  <2>1. registry'[u] = registry[u] /\ Standing(u)' = Standing(u)
    BY <1>1, <1>5 DEF Undone
  <2>2. \A j : Pawned(j, u) => Pawned(j, u)'
    BY <1>1, <1>4, <2>1 DEF Pawned
  <2> QED BY <1>1, <1>2, <1>3, <2>1, <2>2 DEF SoldWith
<1>6. CASE u \in DOMAIN log[i].changes
  <2> DEFINE c == log[i].changes[u]
  <2>1. /\ registry'[u] = c.before /\ registry[u] = c.after /\ i \in Standing(u)
        /\ log[i].type \in RegistryTypes /\ \A r \in Standing(u) : r <= i
        /\ u \in DOMAIN registry
    BY <1>1, <1>6 DEF Undone
  <2>2. log[i].type \in Construction \cup Clearing \cup {"MORTGAGE"}
    BY <1>1, <1>6, <2>1 DEF RowsBuild, TellsLevels
  <2>3. log[i].type # "MORTGAGE" => k < i
    <3>1. groupTiles(u) = groupTiles(g)
      BY SameGroup
    <3>2. PICK z \in groupTiles(u) : k \in Standing(z)
      BY <1>2, <3>1 DEF Touches
    <3>3. log[i].type # "MORTGAGE" => log[k].type \in groupBlockers(log[i].type)
      BY <1>2, <2>2 DEF groupBlockers, RentAndBuildings, Construction, Clearing
    <3> QED BY <1>1, <1>2, <1>6, <3>2, <3>3 DEF Undone
  <2>4. log[i].type \notin {"PROPERTY_PURCHASE", "PROPERTY_TRANSFER"}
    <3>1. log[i].type # "PROPERTY_PURCHASE"
      BY <1>3, <2>1, <2>3 DEF SoldWith
    <3>2. u \in log[i].tiles
      BY <1>1, <1>6, <2>1 DEF RowsTell, TellsTiles
    <3>3. log[i].type # "PROPERTY_TRANSFER"
      BY <1>1, <1>2, <2>3, <3>2 DEF Traded, OfType, Overlap
    <3> QED BY <3>1, <3>3
  <2>5. c.after.owner = c.before.owner
    BY <1>1, <1>6, <2>1, <2>4 DEF RowsBuild, TellsLevels
  <2>6. log[i].type # "MORTGAGE_REDEMPTION" => ~c.before.mortgaged
    <3>1. log[i].type = "MORTGAGE" => ~c.before.mortgaged
      BY <1>1, <1>6, <2>1 DEF RowsTell, TellsTiles
    <3>2. log[i].type \in Construction => ~c.before.mortgaged
      BY <1>1, <1>6, <2>1 DEF RowsBuild, TellsLevels
    <3> QED BY <2>2, <2>4, <3>1, <3>2 DEF Clearing
  <2>7. log[i].type = "MORTGAGE_REDEMPTION" => \E j \in Standing(u)' : k < j /\ Pawned(j, u)'
    <3>1. log[i].type = "MORTGAGE_REDEMPTION" =>
            \E j \in Standing(u) : k < j /\ j < i /\ Pawned(j, u)
      BY <1>3, <2>1, <2>3 DEF SoldWith
    <3> QED BY <1>1, <1>4, <3>1
  <2>8. ASSUME NEW r \in Standing(u)', k < r
        PROVE  /\ log'[r].type # "PROPERTY_PURCHASE"
               /\ log'[r].type = "MORTGAGE_REDEMPTION" =>
                    \E j \in Standing(u)' : k < j /\ j < r /\ Pawned(j, u)'
    <3>1. r \in Standing(u) /\ r < i /\ r \in Nat /\ log'[r] = log[r]
      BY <1>1, <2>1
    <3>2. /\ log[r].type # "PROPERTY_PURCHASE"
          /\ log[r].type = "MORTGAGE_REDEMPTION" =>
               \E j \in Standing(u) : k < j /\ j < r /\ Pawned(j, u)
      BY <1>3, <2>8, <3>1 DEF SoldWith
    <3>3. \A j \in Standing(u) : j < r => j # i
      BY <1>1, <3>1
    <3> QED BY <1>4, <3>1, <3>2, <3>3
  <2>9. registry'[u].owner \in DOMAIN log'[k].delta
    BY <1>2, <1>3, <2>1, <2>5 DEF SoldWith
  <2>10. registry'[u].mortgaged => \E j \in Standing(u)' : k < j /\ Pawned(j, u)'
    BY <2>1, <2>6, <2>7
  <2> QED BY <2>8, <2>9, <2>10 DEF SoldWith
<1> QED BY <1>5, <1>6

\* A tile without building since row i stands as it is.
LEMMA StandsAsIs ==
    ASSUME NEW i, NEW v, \A j \in Shaping(v) : j <= i
    PROVE  StoodAs(i, v, registry[v])
BY DEF StoodAs

\* Undoing what passed a tile of the group on, or mortgaged it: the group was bare.
LEMMA OtherUndone ==
    ASSUME TypeInv, RowsTell, RowsBuild, NEW tx, NEW x, NEW i, Undone(tx, x, i),
           NEW g \in Tiles, groupTiles(g) \subseteq DOMAIN registry, GroupSound(g),
           log[i].type \notin Construction, NEW w \in groupTiles(g), w \in DOMAIN log[i].changes
    PROVE  Sound(g)' /\ ClearHold(g)' /\ LevelHold(g)'
<1>1. /\ Added(tx, x) /\ bankrupt \subseteq bankrupt' /\ i \in Nat /\ i \in DOMAIN log
      /\ tx.type \notin Construction /\ tx.undoes = i
      /\ \A t : /\ Shaping(t) \subseteq Standing(t) /\ Standing(t) \subseteq DOMAIN log
                /\ i \notin Shaping(t)
                /\ w \in DOMAIN log[i].changes => i \in Standing(w)
      /\ \A j \in DOMAIN log : j \in Nat
  BY UndoneRows DEF Undone
<1>2. log[i].type \in Clearing \cup {"MORTGAGE"} /\ log[i].type \in RegistryTypes
  <2>1. log[i].type \in RegistryTypes
    BY DEF Undone
  <2> QED BY <1>1, <2>1 DEF RowsBuild, TellsLevels
<1>3. ASSUME NEW v \in groupTiles(g) PROVE registry[v].houses = 0
  <2>1. CASE log[i].type = "MORTGAGE"
    <3>1. registry[w].mortgaged
      BY <1>1, <1>2, <2>1 DEF Undone, RowsTell, TellsTiles
    <3>2. ~groupHasBuildings(registry, g)
      BY <3>1 DEF GroupSound, Sound, Whole
    <3>3. registry[v].houses \in Nat
      BY SoundEven DEF GroupSound
    <3> QED BY <3>2, <3>3 DEF groupHasBuildings
  <2>2. CASE log[i].type \in Clearing
    <3>1. groupTiles(w) = groupTiles(g)
      BY SameGroup
    <3>2. Construction \subseteq groupBlockers(log[i].type)
      BY <2>2 DEF groupBlockers, RentAndBuildings, Construction, Clearing
    <3>3. \A j \in Shaping(v) : j <= i
      BY <1>1, <3>1, <3>2 DEF Undone, Shaping
    <3>4. registry[v] \in TileState
      BY RegistryFacts DEF TypeInv
    <3>5. Touches(i, g)
      BY <1>1 DEF Touches
    <3> QED BY <1>1, <2>2, <3>3, <3>4, <3>5, StandsAsIs DEF GroupSound, ClearHold
  <2> QED BY <1>2, <2>1, <2>2
<1>4. ASSUME NEW v \in groupTiles(g) PROVE registry'[v].houses = 0
  <2>1. CASE v \in DOMAIN log[i].changes
    <3> DEFINE c == log[i].changes[v]
    <3>1. registry'[v] = c.before /\ registry[v] = c.after
      BY <2>1 DEF Undone
    <3>2. c.after.houses = c.before.houses
      BY <1>1, <1>2, <2>1 DEF RowsBuild, TellsLevels
    <3> QED BY <1>3, <3>1, <3>2
  <2>2. CASE v \notin DOMAIN log[i].changes
    BY <1>3, <2>2 DEF Undone
  <2> QED BY <2>1, <2>2
<1>5. \A v \in groupTiles(g) :
        /\ tx.undoes \notin Shaping(v) /\ registry'[v].houses = 0
        /\ registry[v].houses = 0 \/ registry[v].owner \in bankrupt'
  BY <1>1, <1>3, <1>4
<1> QED BY <1>1, <1>5, GroupEmptied

\* Undoing building: nothing was built in the group since, and what comes back fits.
LEMMA BuildingUndone ==
    ASSUME TypeInv, RowsTell, RowsBuild, NEW tx, NEW x, NEW i, Undone(tx, x, i),
           NEW g \in Tiles, groupTiles(g) \subseteq DOMAIN registry,
           log[i].type \in Construction, NEW w \in groupTiles(g), w \in DOMAIN log[i].changes
    PROVE  /\ Touches(i, g) /\ DOMAIN log[i].changes \subseteq groupTiles(g)
           /\ \A v \in groupTiles(g) : \A j \in Standing(v) :
                log[j].type \in Construction \cup {"MORTGAGE"} => j <= i
           /\ \A v \in groupTiles(g) : \A j \in Shaping(v) : j <= i
           /\ \A v \in groupTiles(g) : registry[v].houses \in Nat /\ registry'[v].houses \in Nat
           /\ \A u \in DOMAIN log[i].changes :
                /\ registry'[u].owner = registry[u].owner /\ ~registry'[u].mortgaged
                /\ registry'[u].mortgaged = registry[u].mortgaged
                /\ log[i].type = "PROPERTY_BUILD" => registry'[u].houses < registry[u].houses
           /\ \A v \in groupTiles(g) \ DOMAIN log[i].changes : registry'[v] = registry[v]
           /\ \A u, v \in DOMAIN log[i].delta : u = v /\ u # Bank
<1>1. /\ i \in Nat /\ i \in DOMAIN log /\ i \in Standing(w)
      /\ \A t : Shaping(t) \subseteq Standing(t) /\ Standing(t) \subseteq DOMAIN log
      /\ groupTiles(w) = groupTiles(g) /\ log[i].type \in RegistryTypes
  <2>1. groupTiles(w) = groupTiles(g)
    BY SameGroup
  <2>2. log[i].type \in RegistryTypes
    BY DEF Undone
  <2> QED BY <2>1, <2>2, UndoneRows
<1>2. Touches(i, g)
  BY <1>1 DEF Touches
<1>3. /\ DOMAIN log[i].changes \subseteq groupTiles(g)
      /\ \A u, v \in DOMAIN log[i].delta : u = v /\ u # Bank
  BY <1>1 DEF RowsBuild, TellsLevels
<1>4. \A v \in groupTiles(g) : \A j \in Standing(v) :
        log[j].type \in Construction \cup {"MORTGAGE"} => j <= i
  <2>1. Construction \cup {"MORTGAGE"} \subseteq groupBlockers(log[i].type)
    BY DEF groupBlockers, RentAndBuildings, Construction
  <2> QED BY <1>1, <2>1 DEF Undone
<1>5. \A v \in groupTiles(g) : \A j \in Shaping(v) : j <= i
  BY <1>1, <1>4 DEF Shaping
<1>6. ASSUME NEW u \in DOMAIN log[i].changes
      PROVE  /\ registry'[u].owner = registry[u].owner /\ ~registry'[u].mortgaged
             /\ registry'[u].mortgaged = registry[u].mortgaged
             /\ log[i].type = "PROPERTY_BUILD" => registry'[u].houses < registry[u].houses
             /\ registry'[u].houses \in Nat
  <2> DEFINE c == log[i].changes[u]
  <2>1. u \in DOMAIN registry /\ registry'[u] = c.before /\ registry[u] = c.after
    BY <1>3 DEF Undone
  <2>2. c.after.owner = c.before.owner /\ ~c.before.mortgaged
    BY <1>1 DEF RowsBuild, TellsLevels, Construction
  <2>3. log[i].type = "PROPERTY_BUILD" => c.before.houses < c.after.houses
    BY <1>1 DEF RowsBuild, TellsLevels
  <2>4. c.before.mortgaged = c.after.mortgaged
    BY <1>1 DEF RowsTell, TellsTiles, Construction
  <2>5. log[i].changes \in ChangeSets
    BY <1>1, LogFacts DEF TypeInv
  <2>6. c.before \in TileState
    BY <2>5, ChangeSetFacts
  <2>7. c.before.houses \in Nat
    BY <2>6 DEF TileState, MaxBuildings
  <2> QED BY <2>1, <2>2, <2>3, <2>4, <2>7
<1>7. \A v \in groupTiles(g) \ DOMAIN log[i].changes : registry'[v] = registry[v]
  BY DEF Undone
<1>8. ASSUME NEW v \in groupTiles(g) PROVE registry[v].houses \in Nat /\ registry'[v].houses \in Nat
  <2>1. registry[v].houses \in Nat
    BY LevelsNat
  <2> QED BY <1>6, <1>7, <2>1
<1> QED BY <1>2, <1>3, <1>4, <1>5, <1>6, <1>7, <1>8

\* What a tile stood as, before that building is undone.
LEMMA StoodUndone ==
    ASSUME NEW tx, NEW x, NEW i, Undone(tx, x, i), NEW v \in DOMAIN registry,
           \A j \in Shaping(v) : j <= i, log[i].type \in Construction,
           NEW r \in DOMAIN log, r < i \/ v \notin DOMAIN log[i].changes,
           NEW s, StoodAs(r, v, s)'
    PROVE  StoodAs(r, v, s)
<1>1. /\ Added(tx, x) /\ tx.undoes = i /\ tx.type \notin Construction
      /\ i \in Shaping(v) <=> v \in DOMAIN log[i].changes
  BY UndoneRows DEF Undone
<1>2. CASE v \in DOMAIN log[i].changes
  <2>1. registry'[v] = log[i].changes[v].before
    BY <1>2 DEF Undone
  <2> QED BY <1>1, <1>2, <2>1, StoodBeforeUndone
<1>3. CASE v \notin DOMAIN log[i].changes
  <2>1. registry'[v] = registry[v]
    BY <1>3 DEF Undone
  <2> QED BY <1>1, <1>3, <2>1, StoodBefore
<1> QED BY <1>2, <1>3

\* The seller of buildings finds the group whole: nobody bought, traded, mortgaged or
\* redeemed in it since.
LEMMA SaleUndone ==
    ASSUME TypeInv, RowsTell, RowsBuild, NEW tx, NEW x, NEW i, Undone(tx, x, i),
           NEW g \in Tiles, groupTiles(g) \subseteq DOMAIN registry, GroupSound(g),
           log[i].type = "PROPERTY_SELL_BUILDING", NEW w \in groupTiles(g), w \in DOMAIN log[i].changes,
           ~SaleReversedAfterTrade(g)'
    PROVE  /\ \A u \in groupTiles(g) : registry[u].owner \in DOMAIN log[i].delta /\ ~registry[u].mortgaged
           /\ \A k \in DOMAIN log : log[k].type \in Clearing /\ Touches(k, g) => ~(i < k)
<1>1. log[i].type \in Construction
  BY DEF Construction
<1>2. /\ i \in Nat /\ i \in DOMAIN log /\ Added(tx, x) /\ ~Stuck(i) /\ Touches(i, g)
      /\ \A t : Standing(t) \subseteq DOMAIN log
      /\ \A j \in DOMAIN log : j \in Nat /\ j # x /\ log'[j] = log[j]
      /\ \A v \in groupTiles(g) : \A j \in Standing(v) : log[j].type = "MORTGAGE" => j <= i
      /\ log[i].type \in RegistryTypes
  <2>1. ~Stuck(i) /\ log[i].type \in RegistryTypes
    BY DEF Undone
  <2> QED BY <1>1, <2>1, UndoneRows, BuildingUndone
<1>3. ~Traded(i, g)
  <2>1. Reversed(i)' /\ i \in OfType("PROPERTY_SELL_BUILDING")'
    BY <1>2 DEF Undone, Added, OfType
  <2>2. w \in log[i].tiles
    BY <1>2 DEF RowsTell, TellsTiles
  <2>3. Overlap(log'[i].tiles, groupTiles(g))
    BY <1>2, <2>2 DEF Overlap
  <2>4. \A j \in OfType("PROPERTY_TRANSFER") : j \in OfType("PROPERTY_TRANSFER")' /\ log'[j] = log[j]
    BY <1>2 DEF Added, OfType
  <2> QED BY <2>1, <2>3, <2>4 DEF SaleReversedAfterTrade, Traded
<1>4. \A u \in groupTiles(g) : SoldWith(i, u)
  BY <1>2, <1>3 DEF GroupSound, SalesHold
<1>5. \A u \in groupTiles(g) : \A j \in Standing(u) : ~(i < j /\ Pawned(j, u))
  BY <1>2 DEF Pawned
<1>6. \A u \in groupTiles(g) : registry[u].owner \in DOMAIN log[i].delta /\ ~registry[u].mortgaged
  BY <1>4, <1>5 DEF SoldWith
<1>7. ASSUME NEW k \in DOMAIN log, log[k].type \in Clearing, Touches(k, g), i < k PROVE FALSE
  <2>1. PICK z \in groupTiles(g) : k \in Standing(z)
    BY <1>7 DEF Touches
  <2>2. log[k].type \notin {"PROPERTY_PURCHASE", "MORTGAGE_REDEMPTION"}
    BY <1>4, <1>5, <1>7, <2>1 DEF SoldWith
  <2>3. log[k].type = "PROPERTY_TRANSFER"
    BY <1>7, <2>2 DEF Clearing
  <2>4. z \in log[k].tiles
    BY <2>1, <2>3 DEF Standing, RowsTell, TellsTiles
  <2> QED BY <1>3, <1>7, <2>3, <2>4 DEF Traded, OfType, Overlap
<1> QED BY <1>6, <1>7

\* Undoing building leaves the group sound.
LEMMA ConstructionUndone ==
    ASSUME TypeInv, RowsTell, RowsBuild, NEW tx, NEW x, NEW i, Undone(tx, x, i),
           NEW g \in Tiles, groupTiles(g) \subseteq DOMAIN registry, GroupSound(g),
           log[i].type \in Construction, NEW w \in groupTiles(g), w \in DOMAIN log[i].changes,
           ~SaleReversedAfterTrade(g)'
    PROVE  Sound(g)' /\ ClearHold(g)' /\ LevelHold(g)'
<1> DEFINE T == DOMAIN log[i].changes
<1>1. /\ i \in Nat /\ i \in DOMAIN log /\ Added(tx, x) /\ ~Stuck(i) /\ bankrupt \subseteq bankrupt'
      /\ tx.type \notin Construction \cup Clearing /\ log'[x] = tx
      /\ \A t : Standing(t) \subseteq DOMAIN log
      /\ \A j \in DOMAIN log : j \in Nat /\ log'[j] = log[j]
  <2>1. ~Stuck(i) /\ log'[x] = tx
    BY DEF Undone, Added
  <2> QED BY <2>1, UndoneRows
<1>2. /\ Touches(i, g) /\ T \subseteq groupTiles(g)
      /\ \A v \in groupTiles(g) : \A j \in Standing(v) : log[j].type \in Construction => j <= i
      /\ \A v \in groupTiles(g) : \A j \in Shaping(v) : j <= i
      /\ \A v \in groupTiles(g) : registry[v].houses \in Nat /\ registry'[v].houses \in Nat
      /\ \A u \in T : /\ registry'[u].owner = registry[u].owner /\ ~registry'[u].mortgaged
                      /\ log[i].type = "PROPERTY_BUILD" => registry'[u].houses < registry[u].houses
      /\ \A v \in groupTiles(g) \ T : registry'[v] = registry[v]
      /\ \A u, v \in DOMAIN log[i].delta : u = v /\ u # Bank
  BY BuildingUndone
<1>3. ASSUME NEW u \in T, NEW v \in groupTiles(g)
      PROVE  Rules.buildEvenly => /\ registry'[v].houses - registry'[u].houses <= 1
                                  /\ registry'[u].houses - registry'[v].houses <= 1
  <2>1. PICK b : b = log[i].changes[u].before.houses
    OBVIOUS
  <2>2. IF v \in T THEN Beside(i, b, log[i].changes[v].before)
                   ELSE \A s \in TileState : StoodAs(i, v, s) => Beside(i, b, s)
    BY <1>1, <1>2, <2>1 DEF GroupSound, LevelHold, Fits
  <2>3. registry'[u].houses = b
    BY <1>2, <2>1 DEF Undone
  <2>4. CASE v \in T
    <3>1. registry'[v] = log[i].changes[v].before
      BY <1>2, <2>4 DEF Undone
    <3> QED BY <2>2, <2>3, <2>4, <3>1 DEF Beside
  <2>5. CASE v \notin T
    <3>1. registry'[v] = registry[v]
      BY <1>2, <2>5
    <3>2. registry[v] \in TileState
      BY RegistryFacts DEF TypeInv
    <3>3. StoodAs(i, v, registry[v])
      BY <1>2, StandsAsIs
    <3> QED BY <2>2, <2>3, <2>5, <3>1, <3>2, <3>3 DEF Beside
  <2> QED BY <2>4, <2>5
<1>4. log[i].type = "PROPERTY_SELL_BUILDING" =>
        /\ \A u \in groupTiles(g) : registry[u].owner \in DOMAIN log[i].delta /\ ~registry[u].mortgaged
        /\ \A k \in DOMAIN log : log[k].type \in Clearing /\ Touches(k, g) => ~(i < k)
  BY SaleUndone
<1>5. Even(registry', g)
  <2> SUFFICES ASSUME Rules.buildEvenly, NEW u \in groupTiles(g), NEW v \in groupTiles(g)
               PROVE  registry'[u].houses - registry'[v].houses <= 1
    BY DEF Even
  <2>1. CASE u \in T \/ v \in T
    BY <1>3, <2>1
  <2>2. CASE u \notin T /\ v \notin T
    <3>1. registry'[u] = registry[u] /\ registry'[v] = registry[v]
      BY <1>2, <2>2
    <3> QED BY <3>1, SoundEven DEF GroupSound
  <2> QED BY <2>1, <2>2
<1>6. Whole(registry, g)
  <2>1. CASE log[i].type = "PROPERTY_BUILD"
    <3>1. registry'[w].houses < registry[w].houses /\ registry'[w].houses \in Nat
          /\ registry[w].houses \in Nat
      BY <1>2, <2>1
    <3>2. groupHasBuildings(registry, g)
      BY <3>1 DEF groupHasBuildings
    <3> QED BY <3>2 DEF GroupSound, Sound
  <2>2. CASE log[i].type = "PROPERTY_SELL_BUILDING"
    BY <1>2, <1>4, <2>2 DEF Whole
  <2> QED BY <2>1, <2>2 DEF Construction
<1>7. Sound(g)'
  <2>1. Whole(registry', g)
    <3>1. \A u \in groupTiles(g) :
            /\ registry'[u].owner = registry[u].owner
            /\ ~registry[u].mortgaged => ~registry'[u].mortgaged
      BY <1>2
    <3> QED BY <1>6, <3>1 DEF Whole
  <2> QED BY <1>5, <2>1 DEF Sound, Whole, Even
<1>8. ClearHold(g)'
  <2> SUFFICES ASSUME NEW k \in DOMAIN log', log'[k].type \in Clearing, Touches(k, g)',
                      NEW v \in groupTiles(g), NEW s \in TileState, StoodAs(k, v, s)'
               PROVE  s.houses = 0
    BY DEF ClearHold
  <2>1. k \in DOMAIN log /\ log[k].type \in Clearing /\ Touches(k, g) /\ k \in Nat /\ k # i
    <3>1. k \in DOMAIN log
      BY <1>1 DEF Added
    <3> QED BY <1>1, <3>1, Lasting DEF Clearing, Construction
  <2>2. CASE k < i \/ v \notin T
    <3>1. StoodAs(k, v, s)
      BY <1>2, <2>1, <2>2, StoodUndone
    <3> QED BY <2>1, <3>1 DEF GroupSound, ClearHold
  <2>3. CASE i < k /\ v \in T
    <3>1. log[i].type = "PROPERTY_BUILD"
      BY <1>4, <2>1, <2>3 DEF Construction
    <3>2. registry[v].houses = 0
      <4>1. \A j \in Shaping(v) : j <= k
        BY <1>1, <1>2, <2>1, <2>3 DEF Shaping
      <4>2. registry[v] \in TileState
        BY RegistryFacts DEF TypeInv
      <4> QED BY <2>1, <4>1, <4>2, StandsAsIs DEF GroupSound, ClearHold
    <3> QED BY <1>2, <2>3, <3>1, <3>2
  <2> QED BY <1>1, <2>1, <2>2, <2>3
<1>9. LevelHold(g)'
  <2> SUFFICES ASSUME NEW r \in DOMAIN log', log'[r].type \in Construction, Touches(r, g)', ~Stuck(r)',
                      NEW u \in DOMAIN log'[r].changes, NEW v \in groupTiles(g)
               PROVE  Fits(r, u, v)'
    BY DEF LevelHold
  <2>1. r \in DOMAIN log /\ log'[r] = log[r] /\ Touches(r, g) /\ ~Stuck(r) /\ r < i
    <3>1. r \in DOMAIN log
      BY <1>1 DEF Added
    <3>2. log'[r] = log[r] /\ Touches(r, g) /\ ~Stuck(r) /\ r # i
      BY <1>1, <3>1, Lasting DEF Undone
    <3>3. r <= i
      BY <1>2, <3>2 DEF Touches
    <3> QED BY <1>1, <3>1, <3>2, <3>3
  <2>2. Fits(r, u, v)
    BY <2>1 DEF GroupSound, LevelHold
  <2>3. \A s : StoodAs(r, v, s)' => StoodAs(r, v, s)
    BY <1>2, <2>1, StoodUndone
  <2> QED BY <2>1, <2>2, <2>3 DEF Fits, Beside
<1> QED BY <1>7, <1>8, <1>9

\* Undoing a row keeps a group sound, unless it was a sale of buildings before a trade.
LEMMA UndoneKeepsGroup ==
    ASSUME TypeInv, RowsTell, RowsBuild, NEW tx, NEW x, NEW i, Undone(tx, x, i),
           NEW g \in Tiles, groupTiles(g) \subseteq DOMAIN registry, GroupSound(g),
           ~SaleReversedAfterTrade(g)'
    PROVE  GroupSound(g)'
<1>1. /\ Added(tx, x) /\ bankrupt \subseteq bankrupt' /\ tx.undoes = i
      /\ tx.type \notin RegistryTypes
      /\ \A t : i \in Standing(t) => t \in DOMAIN log[i].changes
  BY UndoneRows DEF Undone
<1>2. CASE \A u \in groupTiles(g) : u \notin DOMAIN log[i].changes
  <2>1. \A u \in groupTiles(g) : registry'[u] = registry[u]
    BY <1>2 DEF Undone
  <2> QED BY <1>1, <1>2, <2>1, GroupUntouched
<1>3. ASSUME NEW w \in groupTiles(g), w \in DOMAIN log[i].changes PROVE GroupSound(g)'
  <2>1. SalesHold(g)'
    BY SalesUndone DEF GroupSound
  <2>2. Sound(g)' /\ ClearHold(g)' /\ LevelHold(g)'
    BY <1>3, OtherUndone, ConstructionUndone
  <2> QED BY <2>1, <2>2 DEF GroupSound
<1> QED BY <1>2, <1>3

\* A step leaves the buildings of tile v where they were and whose they were ...
LevelKept(v) ==
  /\ registry'[v].houses = registry[v].houses
  /\ registry[v].houses > 0 => registry'[v].owner = registry[v].owner

\* ... or takes them from a bankrupt.
LevelLost(v) == registry'[v].houses = 0 /\ registry[v].owner \in bankrupt'

\* A step that builds nothing in the group keeps it even, if it keeps or takes the buildings.
LEMMA EvenAlong ==
    ASSUME NEW tx, NEW x, Added(tx, x), bankrupt \subseteq bankrupt', TypeInv,
           NEW g \in Tiles, groupTiles(g) \subseteq DOMAIN registry, EvenGroup(g),
           \A v \in groupTiles(g) : v \in DOMAIN tx.changes => tx.type \notin Construction,
           \A v \in groupTiles(g) : tx.undoes \notin Shaping(v) /\ (LevelKept(v) \/ LevelLost(v)),
           \A v \in groupTiles(g) :
             tx.type \in Passing /\ v \in DOMAIN tx.changes => registry'[v].houses = 0,
           Even(registry', g)
    PROVE  EvenGroup(g)'
<1>1. ASSUME NEW v \in groupTiles(g)
      PROVE  /\ registry[v] \in TileState /\ registry[v].houses \in Nat
             /\ registry'[v].houses = registry[v].houses \/ registry'[v].houses = 0
  <2>1. v \in DOMAIN registry
    OBVIOUS
  <2>2. LevelKept(v) \/ LevelLost(v)
    OBVIOUS
  <2> QED BY <2>1, <2>2, LevelsNat DEF LevelKept, LevelLost
<1>2. ASSUME NEW i \in DOMAIN log, NEW v \in groupTiles(g), NEW s, StoodAs(i, v, s)'
      PROVE  \/ StoodAs(i, v, s)
             \/ s = registry'[v] /\ StoodAs(i, v, registry[v])
  BY <1>2, StoodBefore
<1>3. OneBuilder(g)'
  <2> SUFFICES ASSUME NEW u \in groupTiles(g), NEW v \in groupTiles(g),
                      registry'[u].houses > 0, registry'[v].houses > 0
               PROVE  registry'[u].owner = registry'[v].owner /\ registry'[u].owner # Bank
    BY DEF OneBuilder
  <2>1. LevelKept(u) /\ LevelKept(v)
    BY <1>1 DEF LevelLost
  <2> QED BY <2>1 DEF LevelKept, EvenGroup, OneBuilder
<1>4. PassedBare(g)'
  <2> SUFFICES ASSUME NEW k \in DOMAIN log', NEW v \in groupTiles(g), log'[k].type \in Passing,
                      k \in Standing(v)', NEW s \in TileState, StoodAs(k, v, s)'
               PROVE  s.houses = 0
    BY DEF PassedBare
  <2>1. CASE k = x
    <3>1. s = registry'[v]
      BY <2>1, StoodNow
    <3>2. tx.type \in Passing /\ v \in DOMAIN tx.changes
      BY <2>1, StandingThen DEF Added
    <3> QED BY <3>1, <3>2
  <2>2. CASE k \in DOMAIN log
    <3>1. log[k].type \in Passing /\ k \in Standing(v)
      BY <2>2, StandingThen DEF Added
    <3>2. \A r \in TileState : StoodAs(k, v, r) => r.houses = 0
      BY <2>2, <3>1 DEF EvenGroup, PassedBare
    <3> QED BY <1>1, <1>2, <2>2, <3>2
  <2> QED BY <2>1, <2>2 DEF Added
<1>5. LevelHold(g)'
  <2> SUFFICES ASSUME NEW i \in DOMAIN log', log'[i].type \in Construction, Touches(i, g)', ~Stuck(i)',
                      NEW u \in DOMAIN log'[i].changes, NEW v \in groupTiles(g)
               PROVE  Fits(i, u, v)'
    BY DEF LevelHold
  <2>1. i \in DOMAIN log /\ log'[i] = log[i] /\ Touches(i, g) /\ ~Stuck(i)
    <3>1. i # x
      BY Lasting DEF Added
    <3> QED BY <3>1, Lasting DEF Added
  <2>2. PICK b : b = log[i].changes[u].before.houses
    OBVIOUS
  <2>3. \A s : Beside(i, b, s) => Beside(i, b, s)'
    BY <2>1, <2>2 DEF Beside
  <2>4. IF v \in DOMAIN log[i].changes
          THEN Beside(i, b, log[i].changes[v].before)
          ELSE \A s \in TileState : StoodAs(i, v, s) => Beside(i, b, s)
    BY <2>1, <2>2 DEF EvenGroup, LevelHold, Fits
  <2>5. ASSUME v \notin DOMAIN log[i].changes, NEW s \in TileState, StoodAs(i, v, s)'
        PROVE  Beside(i, b, s)
    <3>1. CASE StoodAs(i, v, s)
      BY <2>4, <2>5, <3>1
    <3>2. CASE s = registry'[v] /\ StoodAs(i, v, registry[v])
      <4>1. Beside(i, b, registry[v])
        BY <1>1, <2>4, <2>5, <3>2
      <4>2. ~(registry[v].houses > 0 /\ registry[v].owner \in bankrupt')
        BY <2>1, <4>1 DEF Beside, Stuck
      <4>3. LevelKept(v)
        <5>1. CASE LevelLost(v)
          <6>1. registry[v].houses = 0
            BY <1>1, <4>2, <5>1 DEF LevelLost
          <6> QED BY <5>1, <6>1 DEF LevelLost, LevelKept
        <5> QED BY <5>1
      <4> QED BY <1>1, <3>2, <4>1, <4>3 DEF Beside, LevelKept
    <3> QED BY <1>2, <2>1, <2>5, <3>1, <3>2
  <2>6. log'[i].changes[u].before.houses = b
    BY <2>1, <2>2
  <2> QED BY <2>1, <2>3, <2>4, <2>5, <2>6 DEF Fits, Beside
<1> QED BY <1>3, <1>4, <1>5 DEF EvenGroup

\* A step that keeps every building of a group.
LEMMA EvenKept ==
    ASSUME NEW tx, NEW x, Added(tx, x), bankrupt \subseteq bankrupt', TypeInv,
           NEW g \in Tiles, groupTiles(g) \subseteq DOMAIN registry, EvenGroup(g),
           \A v \in groupTiles(g) : v \in DOMAIN tx.changes => tx.type \notin Construction,
           \A v \in groupTiles(g) : tx.undoes \notin Shaping(v) /\ LevelKept(v),
           \A v \in groupTiles(g) :
             tx.type \in Passing /\ v \in DOMAIN tx.changes => registry'[v].houses = 0
    PROVE  EvenGroup(g)'
<1>1. Even(registry', g)
  BY DEF EvenGroup, Even, LevelKept
<1> QED BY <1>1, EvenAlong

\* Building in a group.
LEMMA EvenBuilt ==
    ASSUME NEW tx, NEW x, Dealt(tx, x), Lawful(tx), TypeInv,
           NEW g \in Tiles, groupTiles(g) \subseteq DOMAIN registry, EvenGroup(g),
           tx.type \in Construction, NEW w \in groupTiles(g), w \in DOMAIN tx.changes
    PROVE  EvenGroup(g)'
<1>1. /\ \A u \in groupTiles(g) :
           registry'[u].owner \in DOMAIN tx.delta /\ registry[u].owner \in DOMAIN tx.delta
      /\ \A u, v \in DOMAIN tx.delta : u = v /\ u # Bank
      /\ Even(registry', g) /\ DOMAIN tx.changes \subseteq groupTiles(g)
  BY NewSaleHolds
<1>2. /\ Added(tx, x) /\ bankrupt \subseteq bankrupt' /\ tx.undoes = 0 /\ log'[x] = tx
      /\ DOMAIN log' = DOMAIN log \cup {x}
      /\ \A i \in DOMAIN log : log'[i] = log[i]
  BY DEF Dealt, Added
<1>3. OneBuilder(g)' /\ Even(registry, g)' /\ Even(registry, g)
  BY <1>1 DEF OneBuilder, Even, EvenGroup
<1>4. ASSUME NEW i \in DOMAIN log, NEW v \in groupTiles(g), NEW s, StoodAs(i, v, s)'
      PROVE  StoodAs(i, v, s)
  <2>1. tx.undoes \notin Shaping(v)
    BY <1>2, StandingThen DEF Added
  <2>2. v \in DOMAIN tx.changes => tx.changes[v].before = registry[v]
    BY DEF Dealt
  <2>3. v \notin DOMAIN tx.changes => registry'[v] = registry[v]
    BY DEF Dealt
  <2> QED BY <1>2, <1>4, <2>1, <2>2, <2>3, StoodBefore
<1>5. PassedBare(g)'
  <2> SUFFICES ASSUME NEW k \in DOMAIN log', NEW v \in groupTiles(g), log'[k].type \in Passing,
                      k \in Standing(v)', NEW s \in TileState, StoodAs(k, v, s)'
               PROVE  s.houses = 0
    BY DEF PassedBare
  <2>1. k \in DOMAIN log /\ log[k].type \in Passing
    BY <1>2 DEF Construction, Passing
  <2>2. k \in Standing(v)
    BY <1>2, <2>1, StandingThen
  <2> QED BY <1>4, <2>1, <2>2 DEF EvenGroup, PassedBare
<1>6. LevelHold(g)'
  <2> SUFFICES ASSUME NEW i \in DOMAIN log', log'[i].type \in Construction, Touches(i, g)', ~Stuck(i)',
                      NEW u \in DOMAIN log'[i].changes, NEW v \in groupTiles(g)
               PROVE  Fits(i, u, v)'
    BY DEF LevelHold
  <2>1. CASE i \in DOMAIN log
    <3>1. log'[i] = log[i] /\ Touches(i, g) /\ ~Stuck(i)
      BY <1>2, <2>1, Lasting
    <3>2. Fits(i, u, v)
      BY <2>1, <3>1 DEF EvenGroup, LevelHold
    <3> QED BY <1>4, <2>1, <3>1, <3>2 DEF Fits, Beside
  <2>2. CASE i = x
    <3>1. u \in DOMAIN tx.changes /\ u \in groupTiles(g)
      BY <1>1, <1>2, <2>2
    <3>2. PICK b : b = registry[u].houses
      OBVIOUS
    <3>3. log'[i].changes[u].before.houses = b
      BY <1>2, <2>2, <3>1, <3>2 DEF Dealt
    <3>4. /\ registry[v].houses > 0 => registry[v].owner \in DOMAIN log'[i].delta
          /\ Rules.buildEvenly => registry[v].houses - b <= 1 /\ b - registry[v].houses <= 1
      BY <1>1, <1>2, <1>3, <2>2, <3>1, <3>2 DEF Even
    <3>5. v \in DOMAIN tx.changes => tx.changes[v].before = registry[v]
      BY DEF Dealt
    <3>6. ASSUME v \notin DOMAIN tx.changes, NEW s, StoodAs(i, v, s)' PROVE s = registry[v]
      <4>1. registry'[v] = registry[v]
        BY <3>6 DEF Dealt
      <4> QED BY <1>2, <2>2, <3>6, <4>1, StoodNow
    <3> QED BY <1>2, <2>2, <3>3, <3>4, <3>5, <3>6 DEF Fits, Beside
  <2> QED BY <1>2, <2>1, <2>2
<1> QED BY <1>3, <1>5, <1>6 DEF EvenGroup

\* A lawful deal keeps every group even.
LEMMA DealKeepsEven ==
    ASSUME NEW tx, NEW x, Dealt(tx, x), Lawful(tx), TypeInv,
           NEW g \in Tiles, groupTiles(g) \subseteq DOMAIN registry, EvenGroup(g)
    PROVE  EvenGroup(g)'
<1>1. CASE \E w \in groupTiles(g) : tx.type \in Construction /\ w \in DOMAIN tx.changes
  BY <1>1, EvenBuilt
<1>2. CASE \A w \in groupTiles(g) : ~(tx.type \in Construction /\ w \in DOMAIN tx.changes)
  <2>1. ASSUME NEW v \in groupTiles(g)
        PROVE  /\ tx.undoes \notin Shaping(v) /\ LevelKept(v)
               /\ tx.type \in Passing /\ v \in DOMAIN tx.changes => registry'[v].houses = 0
    <3>1. tx.undoes \notin Shaping(v)
      <4>1. Added(tx, x) /\ tx.undoes = 0
        BY DEF Dealt
      <4> QED BY <4>1, StandingThen DEF Added
    <3>2. CASE v \notin DOMAIN tx.changes
      <4>1. registry'[v] = registry[v]
        BY <3>2 DEF Dealt
      <4> QED BY <3>1, <3>2, <4>1 DEF LevelKept
    <3>3. CASE v \in DOMAIN tx.changes
      <4> DEFINE c == tx.changes[v]
      <4>1. c.before = registry[v] /\ registry'[v] = c.after
        BY <3>3 DEF Dealt
      <4>2. tx.type \notin Construction
        BY <1>2, <3>3
      <4>3. /\ c.after.houses = c.before.houses
            /\ tx.type \notin Passing => c.after.owner = c.before.owner
        BY <3>3, <4>2 DEF Dealt, TellsLevels, Passing
      <4>4. tx.type \in Passing => registry[v].houses = 0
        <5>1. v \in groupTiles(v)
          BY DEF groupTiles
        <5>2. registry[v].houses \in Nat
          BY LevelsNat
        <5>3. CASE tx.type = "PROPERTY_TRANSFER"
          BY <3>3, <5>1, <5>2, <5>3 DEF Lawful, groupHasBuildings
        <5>4. CASE tx.type = "PROPERTY_PURCHASE"
          BY <3>3, <5>2, <5>4 DEF Lawful, EvenGroup, OneBuilder
        <5> QED BY <5>3, <5>4 DEF Passing
      <4>5. registry'[v].houses = registry[v].houses
        BY <4>1, <4>3
      <4> QED BY <3>1, <4>1, <4>3, <4>4, <4>5 DEF LevelKept
    <3> QED BY <3>2, <3>3
  <2>2. Added(tx, x) /\ bankrupt \subseteq bankrupt'
    BY DEF Dealt
  <2> QED BY <1>2, <2>1, <2>2, EvenKept
<1> QED BY <1>1, <1>2

\* A bankruptcy takes all the buildings of a group, or none.
LEMMA BankruptcyKeepsEven ==
    ASSUME NEW tx, NEW x, Added(tx, x), tx.type = "BANKRUPTCY_TRANSFER", tx.undoes = 0,
           NEW p, NEW heir, TypeInv, bankrupt' = bankrupt \cup {p},
           Left(p, heir),
           NEW g \in Tiles, groupTiles(g) \subseteq DOMAIN registry, EvenGroup(g)
    PROVE  EvenGroup(g)'
<1>1. bankrupt \subseteq bankrupt' /\ tx.type \notin Construction \cup Passing
  BY DEF Construction, Passing
<1>2. \A v : tx.undoes \notin Shaping(v)
  BY StandingThen DEF Added
<1>3. \A v \in groupTiles(g) :
        /\ registry[v].houses \in Nat
        /\ v \in Owned(p) => registry[v].owner = p /\ registry'[v].houses = 0
        /\ v \notin Owned(p) => registry[v].owner # p /\ registry'[v] = registry[v]
  BY LeftBare, LevelsNat
<1>4. \A v \in groupTiles(g) : LevelKept(v) \/ LevelLost(v)
  BY <1>3 DEF LevelKept, LevelLost
<1>5. Even(registry', g)
  <2> SUFFICES ASSUME Rules.buildEvenly, NEW u \in groupTiles(g), NEW v \in groupTiles(g)
               PROVE  registry'[u].houses - registry'[v].houses <= 1
    BY DEF Even
  <2>1. registry[u].houses - registry[v].houses <= 1
    BY DEF EvenGroup, Even
  <2>2. CASE \E w \in groupTiles(g) : w \in Owned(p) /\ registry[w].houses > 0
    <3>1. \A w \in groupTiles(g) : w \notin Owned(p) => registry'[w].houses = 0
      BY <1>3, <2>2 DEF EvenGroup, OneBuilder
    <3>2. registry'[u].houses = 0 /\ registry'[v].houses = 0
      BY <1>3, <3>1
    <3> QED BY <3>2
  <2>3. CASE \A w \in groupTiles(g) : w \in Owned(p) => registry[w].houses = 0
    <3>1. registry'[u].houses = registry[u].houses /\ registry'[v].houses = registry[v].houses
      BY <1>3, <2>3
    <3> QED BY <2>1, <3>1
  <2> QED BY <1>3, <2>2, <2>3
<1> QED BY <1>1, <1>2, <1>4, <1>5, EvenAlong

\* Undoing what passed a tile of the group on, or mortgaged it: no level moves.
LEMMA EvenOtherUndone ==
    ASSUME TypeInv, RowsTell, RowsBuild, NEW tx, NEW x, NEW i, Undone(tx, x, i),
           NEW g \in Tiles, groupTiles(g) \subseteq DOMAIN registry, EvenGroup(g),
           \A w \in groupTiles(g) : w \in DOMAIN log[i].changes => log[i].type \notin Construction
    PROVE  EvenGroup(g)'
<1>1. /\ Added(tx, x) /\ bankrupt \subseteq bankrupt' /\ i \in Nat /\ i \in DOMAIN log
      /\ tx.type \notin Construction \cup Passing /\ tx.undoes = i
      /\ \A t : /\ Shaping(t) \subseteq Standing(t)
                /\ t \in DOMAIN log[i].changes => i \in Standing(t)
                /\ i \in Shaping(t) <=> t \in DOMAIN log[i].changes /\ log[i].type \in Construction
  <2>1. tx.undoes = i /\ Passing \subseteq {"PROPERTY_TRANSFER"} \cup Clearing
    BY DEF Undone, Passing, Clearing
  <2> QED BY <2>1, UndoneRows
<1>2. ASSUME NEW v \in groupTiles(g) PROVE LevelKept(v)
  <2>1. CASE v \notin DOMAIN log[i].changes
    <3>1. registry'[v] = registry[v]
      BY <2>1 DEF Undone
    <3> QED BY <3>1 DEF LevelKept
  <2>2. CASE v \in DOMAIN log[i].changes
    <3> DEFINE c == log[i].changes[v]
    <3>1. registry'[v] = c.before /\ registry[v] = c.after /\ log[i].type \in RegistryTypes
      BY <2>2 DEF Undone
    <3>2. /\ c.after.houses = c.before.houses
          /\ log[i].type \notin Passing => c.after.owner = c.before.owner
      BY <1>1, <2>2, <3>1 DEF RowsBuild, TellsLevels, Passing
    <3>3. log[i].type \in Passing => registry[v].houses = 0
      <4>1. \A j \in Shaping(v) : log[i].type \in Passing => j <= i
        <5>1. log[i].type \in Passing => Construction \subseteq groupBlockers(log[i].type)
          BY DEF groupBlockers, RentAndBuildings, Construction, Passing
        <5>2. v \in groupTiles(v)
          BY DEF groupTiles
        <5> QED BY <1>1, <2>2, <5>1, <5>2 DEF Undone, Shaping
      <4>2. registry[v] \in TileState
        BY LevelsNat
      <4> QED BY <1>1, <2>2, <4>1, <4>2, StandsAsIs DEF EvenGroup, PassedBare
    <3>4. registry'[v].houses = registry[v].houses
      BY <3>1, <3>2
    <3> QED BY <3>1, <3>2, <3>3, <3>4 DEF LevelKept
  <2> QED BY <2>1, <2>2
<1>3. \A v \in groupTiles(g) : tx.undoes \notin Shaping(v)
  BY <1>1
<1> QED BY <1>1, <1>2, <1>3, EvenKept

\* Undoing building: what comes back fits beside the rest of the group.
LEMMA EvenBuildingUndone ==
    ASSUME TypeInv, RowsTell, RowsBuild, NEW tx, NEW x, NEW i, Undone(tx, x, i),
           NEW g \in Tiles, groupTiles(g) \subseteq DOMAIN registry, EvenGroup(g),
           log[i].type \in Construction, NEW w \in groupTiles(g), w \in DOMAIN log[i].changes
    PROVE  EvenGroup(g)'
<1> DEFINE T == DOMAIN log[i].changes
<1>1. /\ i \in Nat /\ i \in DOMAIN log /\ Added(tx, x) /\ ~Stuck(i) /\ bankrupt \subseteq bankrupt'
      /\ tx.type \notin Construction \cup Passing /\ log'[x] = tx /\ tx.undoes = i
      /\ \A t : Standing(t) \subseteq DOMAIN log
      /\ \A j \in DOMAIN log : j \in Nat /\ log'[j] = log[j]
  <2>1. /\ ~Stuck(i) /\ log'[x] = tx /\ tx.undoes = i
        /\ Passing \subseteq {"PROPERTY_TRANSFER"} \cup Clearing
    BY DEF Undone, Added, Passing, Clearing
  <2> QED BY <2>1, UndoneRows
<1>2. /\ Touches(i, g) /\ T \subseteq groupTiles(g)
      /\ \A v \in groupTiles(g) : \A j \in Standing(v) : log[j].type \in Construction => j <= i
      /\ \A v \in groupTiles(g) : \A j \in Shaping(v) : j <= i
      /\ \A v \in groupTiles(g) : registry[v].houses \in Nat /\ registry'[v].houses \in Nat
      /\ \A v \in groupTiles(g) \ T : registry'[v] = registry[v]
      /\ \A u, v \in DOMAIN log[i].delta : u = v /\ u # Bank
  BY BuildingUndone
<1>3. ASSUME NEW u \in T
      PROVE  /\ registry'[u] = log[i].changes[u].before /\ registry'[u].owner \in DOMAIN log[i].delta
             /\ \A j \in Standing(u) : j <= i
  <2>1. registry'[u] = log[i].changes[u].before /\ \A j \in Standing(u) : j <= i
    BY <1>2 DEF Undone
  <2>2. log[i].type \in RegistryTypes
    BY DEF RegistryTypes, Construction
  <2>3. DOMAIN log[i].delta = {log[i].changes[u].before.owner}
    BY <1>1, <2>2 DEF RowsBuild, TellsLevels
  <2> QED BY <2>1, <2>3
<1>4. ASSUME NEW u \in T, NEW v \in groupTiles(g)
      PROVE  /\ registry'[v].houses > 0 => registry'[v].owner \in DOMAIN log[i].delta
             /\ Rules.buildEvenly => /\ registry'[v].houses - registry'[u].houses <= 1
                                     /\ registry'[u].houses - registry'[v].houses <= 1
  <2>1. PICK b : b = log[i].changes[u].before.houses
    OBVIOUS
  <2>2. IF v \in T THEN Beside(i, b, log[i].changes[v].before)
                   ELSE \A s \in TileState : StoodAs(i, v, s) => Beside(i, b, s)
    BY <1>1, <1>2, <2>1 DEF EvenGroup, LevelHold, Fits
  <2>3. registry'[u].houses = b
    BY <1>3, <2>1
  <2>4. CASE v \in T
    <3>1. registry'[v] = log[i].changes[v].before
      BY <1>3, <2>4
    <3> QED BY <2>2, <2>3, <2>4, <3>1 DEF Beside
  <2>5. CASE v \notin T
    <3>1. registry'[v] = registry[v]
      BY <1>2, <2>5
    <3>2. registry[v] \in TileState
      BY LevelsNat
    <3>3. StoodAs(i, v, registry[v])
      BY <1>2, StandsAsIs
    <3> QED BY <2>2, <2>3, <2>5, <3>1, <3>2, <3>3 DEF Beside
  <2> QED BY <2>4, <2>5
<1>5. Even(registry', g)
  <2> SUFFICES ASSUME Rules.buildEvenly, NEW u \in groupTiles(g), NEW v \in groupTiles(g)
               PROVE  registry'[u].houses - registry'[v].houses <= 1
    BY DEF Even
  <2>1. CASE u \in T \/ v \in T
    BY <1>4, <2>1
  <2>2. CASE u \notin T /\ v \notin T
    <3>1. registry'[u] = registry[u] /\ registry'[v] = registry[v]
      BY <1>2, <2>2
    <3> QED BY <3>1 DEF EvenGroup, Even
  <2> QED BY <2>1, <2>2
<1>6. OneBuilder(g)'
  <2>1. \A v \in groupTiles(g) : registry'[v].houses > 0 => registry'[v].owner \in DOMAIN log[i].delta
    BY <1>4
  <2> QED BY <1>2, <2>1 DEF OneBuilder
<1>7. PassedBare(g)'
  <2> SUFFICES ASSUME NEW k \in DOMAIN log', NEW v \in groupTiles(g), log'[k].type \in Passing,
                      k \in Standing(v)', NEW s \in TileState, StoodAs(k, v, s)'
               PROVE  s.houses = 0
    BY DEF PassedBare
  <2>1. k \in DOMAIN log
    BY <1>1 DEF Added
  <2>2. log[k].type \in Passing /\ k \in Standing(v) /\ k \in Nat /\ k # i
    BY <1>1, <2>1, StandingThen
  <2>3. k < i \/ v \notin T
    BY <1>1, <1>3, <2>2
  <2>4. StoodAs(k, v, s)
    BY <1>2, <2>1, <2>3, StoodUndone
  <2> QED BY <2>1, <2>2, <2>4 DEF EvenGroup, PassedBare
<1>8. LevelHold(g)'
  <2> SUFFICES ASSUME NEW r \in DOMAIN log', log'[r].type \in Construction, Touches(r, g)', ~Stuck(r)',
                      NEW u \in DOMAIN log'[r].changes, NEW v \in groupTiles(g)
               PROVE  Fits(r, u, v)'
    BY DEF LevelHold
  <2>1. r \in DOMAIN log /\ log'[r] = log[r] /\ Touches(r, g) /\ ~Stuck(r) /\ r < i
    <3>1. r \in DOMAIN log
      BY <1>1 DEF Added
    <3>2. log'[r] = log[r] /\ Touches(r, g) /\ ~Stuck(r) /\ r # i
      BY <1>1, <3>1, Lasting DEF Undone
    <3>3. r <= i
      BY <1>2, <3>2 DEF Touches
    <3> QED BY <1>1, <3>1, <3>2, <3>3
  <2>2. Fits(r, u, v)
    BY <2>1 DEF EvenGroup, LevelHold
  <2>3. \A s : StoodAs(r, v, s)' => StoodAs(r, v, s)
    BY <1>2, <2>1, StoodUndone
  <2> QED BY <2>1, <2>2, <2>3 DEF Fits, Beside
<1> QED BY <1>5, <1>6, <1>7, <1>8 DEF EvenGroup

\* A reversal keeps every group even.
LEMMA UndoneKeepsEven ==
    ASSUME TypeInv, RowsTell, RowsBuild, NEW tx, NEW x, NEW i, Undone(tx, x, i),
           NEW g \in Tiles, groupTiles(g) \subseteq DOMAIN registry, EvenGroup(g)
    PROVE  EvenGroup(g)'
BY EvenOtherUndone, EvenBuildingUndone

\* A row that is added keeps the invariant, if it keeps every group sound and even.
LEMMA GroupsKept ==
    ASSUME TypeInv, BuildInv, NEW tx, NEW x, Added(tx, x), TellsLevels(tx),
           bankrupt \subseteq bankrupt', DOMAIN registry' = DOMAIN registry,
           \A g \in Tiles : groupTiles(g) \subseteq DOMAIN registry =>
             /\ EvenGroup(g) => EvenGroup(g)'
             /\ GroupSound(g) /\ ~SaleReversedAfterTrade(g)' => GroupSound(g)'
    PROVE  BuildInv'
<1>1. RowsBuild'
  <2>1. \A j \in DOMAIN log' : TellsLevels(log'[j])
    BY DEF Added, BuildInv, RowsBuild
  <2>2. \A j \in DOMAIN log' : TellsLevels(log[j])'
    BY <2>1 DEF TellsLevels
  <2> QED BY <2>2 DEF RowsBuild
<1>2. ASSUME NEW g \in DOMAIN registry
      PROVE  EvenGroup(g)' /\ (SaleReversedAfterTrade(g)' \/ GroupSound(g)')
  <2>1. DOMAIN registry = Tiles
    BY RegistryFacts DEF TypeInv
  <2>2. groupTiles(g) \subseteq DOMAIN registry
    BY <2>1 DEF groupTiles
  <2>3. EvenGroup(g)'
    BY <2>1, <2>2 DEF BuildInv
  <2>4. ASSUME ~SaleReversedAfterTrade(g)' PROVE GroupSound(g)'
    <3>1. ~SaleReversedAfterTrade(g)
      BY <2>4, Lasting
    <3>2. GroupSound(g)
      BY <3>1 DEF BuildInv
    <3> QED BY <2>1, <2>2, <2>4, <3>2
  <2> QED BY <2>3, <2>4
<1> QED BY <1>1, <1>2 DEF BuildInv

\* A row about no tile.
LEMMA BareBuilds ==
    ASSUME TypeInv, TypeInv', StoryInv, BuildInv, NEW tx, log' = Append(log, tx), tx.undoes = 0,
           DOMAIN tx.changes = {}, TellsTiles(tx), bankrupt' = bankrupt,
           DOMAIN registry' = DOMAIN registry, \A t \in DOMAIN registry : registry'[t] = registry[t]
    PROVE  BuildInv'
<1>1. PICK x : x = NextId
  OBVIOUS
<1>2. Added(tx, x)
  BY <1>1, RowsGrow DEF Added, StoryInv
<1>3. TellsLevels(tx)
  BY DEF TellsLevels
<1>4. ASSUME NEW g \in Tiles, groupTiles(g) \subseteq DOMAIN registry
      PROVE  (EvenGroup(g) => EvenGroup(g)') /\ (GroupSound(g) => GroupSound(g)')
  <2>1. \A v : tx.undoes \notin Standing(v) /\ tx.undoes \notin Shaping(v)
    BY <1>2, StandingThen DEF Added
  <2>2. \A u \in groupTiles(g) : registry'[u] = registry[u]
    BY <1>4
  <2>3. \A u \in groupTiles(g) : LevelKept(u)
    BY <2>2 DEF LevelKept
  <2>4. EvenGroup(g) => EvenGroup(g)'
    BY <1>2, <1>4, <2>1, <2>3, EvenKept
  <2>5. GroupSound(g) => GroupSound(g)'
    BY <1>2, <1>4, <2>1, <2>2, GroupUntouched
  <2> QED BY <2>4, <2>5
<1> QED BY <1>2, <1>3, <1>4, GroupsKept

\* A deal on tiles that is lawful.
LEMMA DealBuilds ==
    ASSUME TypeInv, TypeInv', StoryInv, BuildInv, NEW tx, log' = Append(log, tx), tx.undoes = 0,
           tx.type \in RegistryTypes, TellsTiles(tx), TellsLevels(tx), bankrupt' = bankrupt,
           registry' = applyChanges(registry, tx.changes),
           \A t \in DOMAIN tx.changes : t \in DOMAIN registry /\ tx.changes[t].before = registry[t],
           Lawful(tx)
    PROVE  BuildInv'
<1>1. PICK x : x = NextId
  OBVIOUS
<1>2. Added(tx, x)
  BY <1>1, RowsGrow DEF Added, StoryInv
<1>3. /\ DOMAIN registry' = DOMAIN registry
      /\ \A t \in DOMAIN registry :
           registry'[t] = IF t \in DOMAIN tx.changes THEN tx.changes[t].after ELSE registry[t]
  BY DEF applyChanges
<1>4. Dealt(tx, x)
  BY <1>2, <1>3 DEF Dealt
<1>5. \A g \in Tiles : groupTiles(g) \subseteq DOMAIN registry =>
        (EvenGroup(g) => EvenGroup(g)') /\ (GroupSound(g) => GroupSound(g)')
  BY <1>4, DealKeepsEven, DealKeepsGroup
<1> QED BY <1>2, <1>3, <1>5, GroupsKept

\* A deal on one tile.
LEMMA SingleDeal ==
    ASSUME TypeInv, TypeInv', StoryInv, BuildInv,
           NEW type \in {"PROPERTY_PURCHASE", "MORTGAGE", "MORTGAGE_REDEMPTION"},
           NEW d, NEW p, DOMAIN d = {p}, NEW t \in DOMAIN registry, NEW after,
           Deal(type, d, {t}, One(t, Change(registry[t], after))),
           after.owner = p, after.houses = registry[t].houses,
           IF type = "PROPERTY_PURCHASE"
             THEN registry[t].owner = Bank /\ after.mortgaged = registry[t].mortgaged
             ELSE registry[t].owner = p,
           type = "MORTGAGE" =>
             ~registry[t].mortgaged /\ after.mortgaged /\ ~groupHasBuildings(registry, t),
           type = "MORTGAGE_REDEMPTION" => registry[t].mortgaged /\ ~after.mortgaged
    PROVE  BuildInv'
<1> DEFINE c == One(t, Change(registry[t], after))
           tx == TileTx(type, d, {t}, c)
<1>1. log' = Append(log, tx) /\ registry' = applyChanges(registry, c) /\ bankrupt' = bankrupt
  BY DEF Deal, Commit, Frame
<1>2. tx.changes = c /\ tx.delta = d /\ tx.type = type /\ tx.tiles = {t} /\ tx.undoes = 0
  BY DEF TileTx, Tx
<1>3. DOMAIN c = {t} /\ c[t].before = registry[t] /\ c[t].after = after
  BY DEF One, Change
<1> HIDE DEF c, tx
<1>4. TellsTiles(tx)
  BY <1>2, <1>3 DEF TellsTiles, RegistryTypes
<1>5. TellsLevels(tx)
  BY <1>2, <1>3 DEF TellsLevels, Construction, Clearing
<1>6. Lawful(tx)
  BY <1>2, <1>3 DEF Lawful, Construction
<1>7. tx.type \in RegistryTypes
  BY <1>2 DEF RegistryTypes
<1> QED BY <1>1, <1>2, <1>3, <1>4, <1>5, <1>6, <1>7, DealBuilds

\* Buying a tile and paying rent.
LEMMA TilesBuild == ASSUME TypeInv, TypeInv', StoryInv, BuildInv, TileStep PROVE BuildInv'
<1>1. ASSUME NEW p \in Active, NEW t \in DOMAIN registry, NEW price, propertyPurchase(p, t, price)
      PROVE  BuildInv'
  <2>1. PICK d : d = Pays(p, price)
    OBVIOUS
  <2>2. registry[t].owner = Bank /\ DOMAIN d = {p}
    BY <1>1, <2>1 DEF propertyPurchase, Pays
  <2>3. PICK s : s = registry[t]
    OBVIOUS
  <2>4. s \in TileState /\ p # Bank
    BY <2>3, RegistryFacts, LedgerAssumption DEF TypeInv, Active
  <2>5. PICK after : after = [s EXCEPT !.owner = p]
    OBVIOUS
  <2>6. after.owner = p /\ after.houses = s.houses /\ after.mortgaged = s.mortgaged
    BY <2>4, <2>5 DEF TileState
  <2>7. Deal("PROPERTY_PURCHASE", d, {t}, One(t, Change(s, after)))
    BY <1>1, <2>1, <2>3, <2>4, <2>5 DEF propertyPurchase, ownerChange
  <2> QED BY <2>2, <2>3, <2>6, <2>7, SingleDeal
<1>2. ASSUME NEW p \in Active, NEW t \in DOMAIN registry, NEW dice, payRent(p, t, dice)
      PROVE  BuildInv'
  <2> DEFINE d == Moves(p, registry[t].owner, rentFor(registry, t, dice))
             tx == TileTx("PAY_RENT", d, {t}, NoChange)
  <2>1. log' = Append(log, tx) /\ registry' = applyChanges(registry, NoChange) /\ bankrupt' = bankrupt
    BY <1>2 DEF payRent, Deal, Commit, Frame
  <2>2. tx.undoes = 0 /\ DOMAIN tx.changes = {} /\ tx.type = "PAY_RENT"
    BY DEF TileTx, Tx, NoChange
  <2> HIDE DEF tx
  <2>3. TellsTiles(tx)
    BY <2>2 DEF TellsTiles, RegistryTypes
  <2>4. DOMAIN registry' = DOMAIN registry /\ \A u \in DOMAIN registry : registry'[u] = registry[u]
    BY <2>1 DEF applyChanges, NoChange
  <2> QED BY <2>1, <2>2, <2>3, <2>4, BareBuilds
<1> QED BY <1>1, <1>2 DEF TileStep

\* Building and selling buildings.
LEMMA BuildingsBuild == ASSUME TypeInv, TypeInv', StoryInv, BuildInv, BuildingStep PROVE BuildInv'
<1>0. PICK p \in Active, ts \in BuildingSites, direction \in {1, -1} :
        \E f \in [ts -> Levels] : building(p, f, direction)
  BY DEF BuildingStep
<1>1. PICK targets : building(p, targets, direction)
  BY <1>0
<1> DEFINE c == LevelChanges(targets)
<1>2. PICK type, d :
        /\ type = IF direction = 1 THEN "PROPERTY_BUILD" ELSE "PROPERTY_SELL_BUILDING"
        /\ DOMAIN d = {p} /\ Deal(type, d, DOMAIN c, c)
  BY <1>1 DEF building, Pays, Gets
<1>3. registry # <<>> /\ planBuildings(registry, p, targets, direction)
  BY <1>1 DEF building
<1>4. registry \in [Tiles -> TileState] /\ p # Bank
  BY <1>3, RegistryFacts, LedgerAssumption DEF TypeInv, Active
<1>5. PICK g \in DOMAIN targets :
        /\ holdsFullGroup(registry, g, p)
        /\ DOMAIN targets \subseteq groupTiles(g)
        /\ \A t \in DOMAIN targets : targets[t] \in 0 .. MaxBuildings
        /\ \A u \in groupTiles(g) :
             /\ ~registry[u].mortgaged
             /\ direction * (FinalLevels(registry, g, targets)[u] - registry[u].houses) >= 0
        /\ Rules.buildEvenly =>
             \A u, v \in groupTiles(g) :
               FinalLevels(registry, g, targets)[u] - FinalLevels(registry, g, targets)[v] <= 1
  BY <1>3 DEF planBuildings
<1>6. g \in Tiles /\ \A u \in groupTiles(g) : u \in Tiles /\ groupTiles(u) = groupTiles(g)
  BY <1>5 DEF groupTiles
<1>7. ASSUME NEW u \in groupTiles(g)
      PROVE  /\ registry[u].owner = p /\ ~registry[u].mortgaged /\ registry[u].houses \in Nat
             /\ u \in DOMAIN targets => targets[u] \in Nat
             /\ registry[u] \in TileState
  <2>1. registry[u] \in TileState /\ registry[u].owner = p
    BY <1>4, <1>5, <1>6, <1>7 DEF holdsFullGroup
  <2>2. registry[u].houses \in Nat /\ ~registry[u].mortgaged
    BY <1>5, <2>1 DEF TileState, MaxBuildings
  <2>3. u \in DOMAIN targets => targets[u] \in Nat
    BY <1>5 DEF MaxBuildings
  <2> QED BY <2>1, <2>2, <2>3
<1>8. ASSUME NEW t \in DOMAIN c
      PROVE  /\ t \in DOMAIN targets /\ t \in groupTiles(g) /\ c[t].before = registry[t]
             /\ c[t].after = [registry[t] EXCEPT !.houses = targets[t]]
             /\ targets[t] # registry[t].houses
  BY <1>5 DEF LevelChanges, buildingChange, Change
<1>9. \A t \in DOMAIN targets : t \notin DOMAIN c => targets[t] = registry[t].houses
  BY DEF LevelChanges
<1> DEFINE tx == TileTx(type, d, DOMAIN c, c)
<1>10. log' = Append(log, tx) /\ registry' = applyChanges(registry, c) /\ bankrupt' = bankrupt
  BY <1>2 DEF Deal, Commit, Frame
<1>11. /\ tx.changes = c /\ tx.delta = d /\ tx.type = type /\ tx.tiles = DOMAIN c /\ tx.undoes = 0
       /\ type \in Construction
  BY <1>2 DEF TileTx, Tx, Construction
<1> HIDE DEF c, tx
<1>12. ASSUME NEW t \in DOMAIN c
       PROVE  /\ c[t].before.owner = p /\ c[t].after.owner = p
              /\ ~c[t].before.mortgaged /\ c[t].before.mortgaged = c[t].after.mortgaged
              /\ c[t].before.houses = registry[t].houses /\ c[t].after.houses = targets[t]
  <2>1. PICK s, h : s = registry[t] /\ h = targets[t]
    OBVIOUS
  <2>2. s \in TileState /\ s.owner = p /\ ~s.mortgaged
    BY <1>7, <1>8, <2>1
  <2>3. PICK after : after = [s EXCEPT !.houses = h]
    OBVIOUS
  <2>4. after.owner = p /\ after.mortgaged = s.mortgaged /\ after.houses = h
    BY <2>2, <2>3 DEF TileState
  <2>5. c[t].before = s /\ c[t].after = after
    BY <1>8, <2>1, <2>3
  <2> QED BY <2>1, <2>2, <2>4, <2>5
<1>13. ASSUME NEW t \in DOMAIN c
       PROVE  IF direction = 1 THEN c[t].before.houses < c[t].after.houses
                               ELSE c[t].after.houses < c[t].before.houses
  <2>1. FinalLevels(registry, g, targets)[t] = targets[t]
    BY <1>8 DEF FinalLevels
  <2>2. direction * (targets[t] - registry[t].houses) >= 0
    BY <1>5, <1>8, <2>1
  <2>3. targets[t] \in Nat /\ registry[t].houses \in Nat /\ targets[t] # registry[t].houses
    BY <1>7, <1>8
  <2>4. c[t].before.houses = registry[t].houses /\ c[t].after.houses = targets[t]
    BY <1>12
  <2>5. PICK a, b : a = registry[t].houses /\ b = targets[t]
    OBVIOUS
  <2>6. IF direction = 1 THEN a < b ELSE b < a
    BY <2>2, <2>3, <2>5
  <2> QED BY <2>4, <2>5, <2>6
<1>14. TellsTiles(tx)
  BY <1>2, <1>11, <1>12 DEF TellsTiles, RegistryTypes, Construction
<1>15. TellsLevels(tx)
  <2>1. \A t \in DOMAIN c : DOMAIN c \subseteq groupTiles(t)
    BY <1>6, <1>8
  <2> QED BY <1>2, <1>4, <1>11, <1>12, <1>13, <2>1 DEF TellsLevels, Construction
<1>16. ASSUME NEW u \in groupTiles(g) PROVE registry'[u].houses = FinalLevels(registry, g, targets)[u]
  <2>1. FinalLevels(registry, g, targets)[u] =
          IF u \in DOMAIN targets THEN targets[u] ELSE registry[u].houses
    BY DEF FinalLevels
  <2>2. registry'[u] = IF u \in DOMAIN c THEN c[u].after ELSE registry[u]
    BY <1>4, <1>6, <1>10 DEF applyChanges
  <2>3. CASE u \in DOMAIN c
    BY <1>8, <1>12, <2>1, <2>2, <2>3
  <2>4. CASE u \notin DOMAIN c
    BY <1>9, <2>1, <2>2, <2>4
  <2> QED BY <2>3, <2>4
<1>17. Lawful(tx)
  <2>1. ASSUME NEW t \in DOMAIN c
        PROVE  /\ \A u \in groupTiles(t) :
                    ~registry[u].mortgaged /\ registry[u].owner = registry[t].owner
               /\ Even(registry', t)
    <3>1. groupTiles(t) = groupTiles(g) /\ t \in groupTiles(g)
      BY <1>6, <1>8
    <3>2. Even(registry', t)
      BY <1>5, <1>16, <3>1 DEF Even
    <3> QED BY <1>7, <3>1, <3>2
  <2> QED BY <1>11, <2>1 DEF Lawful, Construction
<1>18. tx.type \in RegistryTypes
  BY <1>11 DEF RegistryTypes, Construction
<1>19. \A t \in DOMAIN c : t \in DOMAIN registry /\ c[t].before = registry[t]
  BY <1>4, <1>6, <1>8
<1> QED BY <1>10, <1>11, <1>14, <1>15, <1>17, <1>18, <1>19, DealBuilds

\* Mortgages.
LEMMA MortgagesBuild == ASSUME TypeInv, TypeInv', StoryInv, BuildInv, MortgageStep PROVE BuildInv'
<1>1. ASSUME NEW type \in {"MORTGAGE", "MORTGAGE_REDEMPTION"}, NEW d, NEW p, DOMAIN d = {p},
             NEW t \in DOMAIN registry, NEW flag \in BOOLEAN, flag <=> type = "MORTGAGE",
             Deal(type, d, {t}, One(t, mortgageChange(registry[t], flag))),
             registry[t].owner = p, registry[t].mortgaged # flag,
             type = "MORTGAGE" => ~groupHasBuildings(registry, t)
      PROVE  BuildInv'
  <2>1. PICK s : s = registry[t]
    OBVIOUS
  <2>2. s \in TileState
    BY <2>1, RegistryFacts DEF TypeInv
  <2>3. PICK after : after = [s EXCEPT !.mortgaged = flag]
    OBVIOUS
  <2>4. after.owner = s.owner /\ after.houses = s.houses /\ after.mortgaged = flag
    BY <2>2, <2>3 DEF TileState
  <2>5. Deal(type, d, {t}, One(t, Change(s, after)))
    BY <1>1, <2>1, <2>3 DEF mortgageChange
  <2>6. s.mortgaged \in BOOLEAN
    BY <2>2 DEF TileState
  <2>7. type # "PROPERTY_PURCHASE" /\ (type = "MORTGAGE_REDEMPTION" => type # "MORTGAGE")
    OBVIOUS
  <2> QED BY <1>1, <2>1, <2>4, <2>5, <2>6, <2>7, SingleDeal
<1>2. ASSUME NEW type, NEW d, Commit(Tx(type, d)), UNCHANGED registry, Frame PROVE BuildInv'
  <2>1. log' = Append(log, Tx(type, d)) /\ bankrupt' = bankrupt
    BY <1>2 DEF Commit, Frame
  <2>2. PICK tx : tx = Tx(type, d)
    OBVIOUS
  <2>3. Bare(tx)
    BY <2>2, TxBare
  <2>4. tx.undoes = 0 /\ DOMAIN tx.changes = {} /\ TellsTiles(tx)
    BY <2>3 DEF Bare, NoChange, TellsTiles
  <2> QED BY <1>2, <2>1, <2>2, <2>4, BareBuilds
<1>3. ASSUME NEW p \in Active, NEW t \in DOMAIN registry, mortgageTile(p, t) PROVE BuildInv'
  <2>1. PICK d : d = Gets(p, Tile[t].mortgage)
    OBVIOUS
  <2>2. DOMAIN d = {p} /\ Deal("MORTGAGE", d, {t}, One(t, mortgageChange(registry[t], TRUE)))
        /\ registry[t].owner = p /\ ~registry[t].mortgaged /\ ~groupHasBuildings(registry, t)
    BY <1>3, <2>1 DEF mortgageTile, canMortgage, Gets
  <2> QED BY <1>1, <2>2
<1>4. ASSUME NEW p \in Active, NEW name, NEW value, mortgageProperty(p, name, value) PROVE BuildInv'
  <2>1. Commit(Tx("MORTGAGE", Gets(p, value))) /\ UNCHANGED registry /\ Frame
    BY <1>4 DEF mortgageProperty
  <2> QED BY <1>2, <2>1
<1>5. ASSUME NEW m \in ActiveMortgages, redeemMortgage(m) PROVE BuildInv'
  <2>1. PICK d, p, t : /\ p = mortgages[m].player /\ t = mortgages[m].item
                       /\ d = Pays(p, redemptionCost(mortgages[m].value))
    OBVIOUS
  <2>2. DOMAIN d = {p}
    BY <2>1 DEF Pays
  <2>3. \/ /\ t \in DOMAIN registry /\ registry[t].owner = p /\ registry[t].mortgaged
           /\ Deal("MORTGAGE_REDEMPTION", d, {t}, One(t, mortgageChange(registry[t], FALSE)))
        \/ Commit(Tx("MORTGAGE_REDEMPTION", d)) /\ UNCHANGED registry /\ Frame
    BY <1>5, <2>1 DEF redeemMortgage
  <2> QED BY <1>1, <1>2, <2>2, <2>3
<1> QED BY <1>3, <1>4, <1>5 DEF MortgageStep

\* A trade that is accepted.
LEMMA TradeBuilds ==
    ASSUME TypeInv, TypeInv', StoryInv, BuildInv, NEW r \in DOMAIN trades, acceptTradeRequest(r)
    PROVE  BuildInv'
<1> DEFINE x == trades[r]
           tx == transferProperties(x)
           c == TransferChanges(x)
<1>1. /\ Tradable(x.from, x.to, x.give, x.take) /\ log' = Append(log, tx) /\ bankrupt' = bankrupt
      /\ registry' = applyChanges(registry, c)
  BY DEF acceptTradeRequest, Commit, Frame
<1>2. /\ tx.changes = c /\ DOMAIN tx.delta = {x.from, x.to} /\ tx.type = "PROPERTY_TRANSFER"
      /\ tx.tiles = x.give \cup x.take /\ tx.undoes = 0
  BY DEF transferProperties, Tx, TransferDelta
<1>3. DOMAIN c = x.give \cup x.take /\ DOMAIN c \subseteq DOMAIN registry
  BY <1>1 DEF TransferChanges, Tradable
<1>4. ASSUME NEW t \in DOMAIN c
      PROVE  /\ c[t].before = registry[t] /\ c[t].after.owner \in {x.from, x.to}
             /\ c[t].before.mortgaged = c[t].after.mortgaged
             /\ c[t].after.houses = c[t].before.houses /\ ~groupHasBuildings(registry, t)
  <2>1. t \in x.give \cup x.take /\ t \in DOMAIN registry
    BY <1>3
  <2>2. PICK s : s = registry[t]
    OBVIOUS
  <2>3. s \in TileState
    BY <2>1, <2>2, RegistryFacts DEF TypeInv
  <2>4. PICK q : q = IF t \in x.give THEN x.to ELSE x.from
    OBVIOUS
  <2>5. c[t] = ownerChange(s, q) /\ q \in {x.from, x.to} /\ q # Bank
    BY <1>1, <2>1, <2>2, <2>4, LedgerAssumption DEF TransferChanges, Tradable, Active
  <2>6. ~groupHasBuildings(registry, t)
    BY <1>1, <2>1 DEF Tradable
  <2>7. PICK after : after = [s EXCEPT !.owner = q]
    OBVIOUS
  <2>8. after.owner = q /\ after.houses = s.houses /\ after.mortgaged = s.mortgaged
    BY <2>3, <2>7 DEF TileState
  <2> HIDE DEF c, x
  <2>9. c[t].before = s /\ c[t].after = after
    BY <2>5, <2>7 DEF ownerChange, Change
  <2> QED BY <2>2, <2>5, <2>6, <2>8, <2>9
<1> HIDE DEF x, tx, c
<1>5. TellsTiles(tx)
  BY <1>2, <1>3, <1>4 DEF TellsTiles, RegistryTypes
<1>6. TellsLevels(tx)
  BY <1>2, <1>4 DEF TellsLevels, Construction, Clearing
<1>7. Lawful(tx)
  BY <1>2, <1>4 DEF Lawful, Construction
<1>8. tx.type \in RegistryTypes
  BY <1>2 DEF RegistryTypes
<1> QED BY <1>1, <1>2, <1>3, <1>4, <1>5, <1>6, <1>7, <1>8, DealBuilds

\* A step that does nothing to the log, the tiles and who is bankrupt.
LEMMA BuildQuiet ==
    ASSUME BuildInv, UNCHANGED <<log, registry, bankrupt>>
    PROVE  BuildInv'
<1>1. /\ \A t : Standing(t)' = Standing(t) /\ Shaping(t)' = Shaping(t)
      /\ \A j : (Stuck(j)' <=> Stuck(j)) /\ (Reversed(j)' <=> Reversed(j))
      /\ \A type : OfType(type)' = OfType(type)
  BY DEF Standing, Shaping, Stuck, Reversed, OfType
<1>2. RowsBuild'
  BY DEF BuildInv, RowsBuild, TellsLevels
<1>3. /\ \A j, g : (Touches(j, g)' <=> Touches(j, g)) /\ (Traded(j, g)' <=> Traded(j, g))
      /\ \A j, u : Pawned(j, u)' <=> Pawned(j, u)
      /\ \A j, v, s : StoodAs(j, v, s)' <=> StoodAs(j, v, s)
      /\ \A g : SaleReversedAfterTrade(g)' <=> SaleReversedAfterTrade(g)
  BY <1>1 DEF Touches, Traded, Pawned, StoodAs, SaleReversedAfterTrade
<1>4. \A g : Sound(g)' <=> Sound(g)
  BY DEF Sound, Whole, Even, groupHasBuildings
<1>5. \A j, u : SoldWith(j, u)' <=> SoldWith(j, u)
  BY <1>1, <1>3 DEF SoldWith
<1>6. \A g : SalesHold(g)' <=> SalesHold(g)
  BY <1>1, <1>3, <1>5 DEF SalesHold
<1>7. \A g : ClearHold(g)' <=> ClearHold(g)
  BY <1>3 DEF ClearHold
<1>8. \A j, u, v : Fits(j, u, v)' <=> Fits(j, u, v)
  BY <1>3 DEF Fits, Beside
<1>9. \A g : LevelHold(g)' <=> LevelHold(g)
  BY <1>1, <1>3, <1>8 DEF LevelHold
<1>10. \A g : GroupSound(g)' <=> GroupSound(g)
  BY <1>4, <1>6, <1>7, <1>9 DEF GroupSound
<1>11. \A g : EvenGroup(g)' <=> EvenGroup(g)
  <2>1. \A g : OneBuilder(g)' <=> OneBuilder(g)
    BY DEF OneBuilder
  <2>2. \A g : PassedBare(g)' <=> PassedBare(g)
    BY <1>1, <1>3 DEF PassedBare
  <2> QED BY <1>9, <2>1, <2>2 DEF EvenGroup, Even
<1> QED BY <1>2, <1>3, <1>10, <1>11 DEF BuildInv

\* Trades.
LEMMA TradesBuild == ASSUME TypeInv, TypeInv', StoryInv, BuildInv, TradeStep PROVE BuildInv'
<1>1. ASSUME \/ \E p, q \in Active, give, take \in Sides, cashGive, cashTake \in Cash :
                  createTradeRequest(p, q, give, take, cashGive, cashTake)
             \/ \E r \in DOMAIN trades, state \in {"DECLINED", "CANCELLED"} :
                  resolveTradeRequest(r, state)
             \/ listTradeRequests
      PROVE  BuildInv'
  <2>1. UNCHANGED <<log, registry, bankrupt>>
    BY <1>1, TradesTalk DEF Frame, estate
  <2> QED BY <2>1, BuildQuiet
<1> QED BY <1>1, TradeBuilds DEF TradeStep

\* A reversal.
LEMMA ReversalBuilds ==
    ASSUME TypeInv, TypeInv', StoryInv, BuildInv, ReverseStep
    PROVE  BuildInv'
<1>1. PICK i \in DOMAIN log : reverseTransaction(i)
  BY DEF ReverseStep
<1>2. PICK x : x = NextId
  OBVIOUS
<1>3. PICK tx : tx = Undoing(i)
  OBVIOUS
<1>4. Undone(tx, x, i)
  BY <1>1, <1>2, <1>3, UndoneFacts
<1>5. DOMAIN registry' = DOMAIN registry
  BY <1>1, ReversalFacts
<1>6. TellsLevels(tx) /\ Added(tx, x) /\ bankrupt \subseteq bankrupt'
  BY <1>4 DEF TellsLevels, Undone, RegistryTypes
<1>7. \A g \in Tiles : groupTiles(g) \subseteq DOMAIN registry =>
        /\ EvenGroup(g) => EvenGroup(g)'
        /\ GroupSound(g) /\ ~SaleReversedAfterTrade(g)' => GroupSound(g)'
  BY <1>4, UndoneKeepsEven, UndoneKeepsGroup DEF BuildInv, StoryInv
<1> QED BY <1>5, <1>6, <1>7, GroupsKept

\* A bankruptcy.
LEMMA BankruptcyBuilds ==
    ASSUME TypeInv, TypeInv', StoryInv, BuildInv, BankruptcyStep
    PROVE  BuildInv'
<1>1. PICK p \in Active, heir \in Active \cup {Bank} : declareBankruptcy(p, heir)
  BY DEF BankruptcyStep
<1> DEFINE c == bankruptcyAssets(p, heir)
           tx == TileTx("BANKRUPTCY_TRANSFER", bankruptcyDelta(p, heir), {}, c)
<1>2. log' = Append(log, tx) /\ bankrupt' = bankrupt \cup {p} /\ registry' = applyChanges(registry, c)
  BY <1>1 DEF declareBankruptcy
<1>3. tx.type = "BANKRUPTCY_TRANSFER" /\ tx.undoes = 0
  BY DEF TileTx, Tx
<1>4. DOMAIN registry' = DOMAIN registry /\ Left(p, heir)
  BY <1>2 DEF applyChanges, bankruptcyAssets, Change, Left
<1> HIDE DEF tx, c
<1>5. TellsTiles(tx) /\ TellsLevels(tx)
  BY <1>3 DEF TellsTiles, TellsLevels, RegistryTypes
<1>6. PICK x : x = NextId
  OBVIOUS
<1>7. Added(tx, x)
  BY <1>2, <1>3, <1>5, <1>6, RowsGrow DEF Added, StoryInv
<1>8. bankrupt \subseteq bankrupt'
  BY <1>2
<1>9. \A g \in Tiles : groupTiles(g) \subseteq DOMAIN registry =>
        (EvenGroup(g) => EvenGroup(g)') /\ (GroupSound(g) => GroupSound(g)')
  BY <1>2, <1>3, <1>4, <1>7, BankruptcyKeepsEven, BankruptcyKeepsGroup
<1> QED BY <1>4, <1>5, <1>7, <1>8, <1>9, GroupsKept

\* Every step keeps every group sound.
LEMMA BuildKept ==
    TypeInv /\ TypeInv' /\ StoryInv /\ BuildInv /\ [Next]_vars => BuildInv'
<1> SUFFICES ASSUME TypeInv, TypeInv', StoryInv, BuildInv, [Next]_vars PROVE BuildInv'
  OBVIOUS
<1>1. CASE UNCHANGED vars
  <2>1. UNCHANGED <<log, registry, bankrupt>>
    BY <1>1 DEF vars, money, estate
  <2> QED BY <2>1, BuildQuiet
<1>2. CASE MoneyStep \/ RequestStep \/ LoanStep \/ BankLoanStep \/ Tick
  <2>1. /\ registry' = registry /\ bankrupt' = bankrupt
        /\ log' = log \/ \E tx : log' = Append(log, tx) /\ Bare(tx)
    BY <1>2, MoneyBare DEF estate
  <2>2. ASSUME NEW tx, log' = Append(log, tx), Bare(tx) PROVE BuildInv'
    <3>1. tx.undoes = 0 /\ DOMAIN tx.changes = {} /\ TellsTiles(tx)
      BY <2>2 DEF Bare, NoChange, TellsTiles
    <3> QED BY <2>1, <2>2, <3>1, BareBuilds
  <2>3. CASE log' = log
    BY <2>1, <2>3, BuildQuiet
  <2> QED BY <2>1, <2>2, <2>3
<1>3. CASE TileStep
  BY <1>3, TilesBuild
<1>4. CASE BuildingStep
  BY <1>4, BuildingsBuild
<1>5. CASE MortgageStep
  BY <1>5, MortgagesBuild
<1>6. CASE TradeStep
  BY <1>6, TradesBuild
<1>7. CASE ReverseStep
  BY <1>7, ReversalBuilds
<1>8. CASE BankruptcyStep
  BY <1>8, BankruptcyBuilds
<1> QED BY <1>1, <1>2, <1>3, <1>4, <1>5, <1>6, <1>7, <1>8 DEF Next

\* At first the log says nothing, and what is built is built by the rules.
LEMMA InitBuild == Init => BuildInv
<1> SUFFICES ASSUME Init PROVE BuildInv
  OBVIOUS
<1>1. log = <<>> /\ registry \in Start
  BY DEF Init
<1>2. DOMAIN log = {}
  BY <1>1
<1>3. RowsBuild
  BY <1>2 DEF RowsBuild
<1>4. ASSUME NEW g \in DOMAIN registry PROVE GroupSound(g) /\ EvenGroup(g)
  <2>1. SalesHold(g) /\ ClearHold(g) /\ LevelHold(g) /\ PassedBare(g)
    BY <1>2 DEF SalesHold, ClearHold, LevelHold, PassedBare
  <2>2. Sound(g)
    <3> SUFFICES ASSUME groupHasBuildings(registry, g) PROVE Whole(registry, g) /\ Even(registry, g)
      BY DEF Sound
    <3>1. /\ holdsFullGroup(registry, g, registry[g].owner) /\ registry[g].owner # Bank
          /\ Even(registry, g)
      BY <1>1, BuiltStartAssumption DEF Even
    <3>2. groupTiles(g) \subseteq DOMAIN registry
      <4>1. DOMAIN registry = Tiles
        BY <1>1, LedgerAssumption
      <4> QED BY <4>1 DEF groupTiles
    <3>3. \A u \in groupTiles(g) : ~registry[u].mortgaged
      BY <1>1, <3>2, StartAssumption
    <3> QED BY <3>1, <3>3 DEF Whole, holdsFullGroup
  <2>3. OneBuilder(g) /\ Even(registry, g)
    <3>1. CASE groupHasBuildings(registry, g)
      <4>1. Whole(registry, g) /\ Even(registry, g)
        BY <2>2, <3>1 DEF Sound
      <4> QED BY <4>1 DEF Whole, OneBuilder
    <3>2. CASE ~groupHasBuildings(registry, g)
      <4>1. registry \in [Tiles -> TileState] \/ registry = <<>>
        BY <1>1, LedgerAssumption
      <4>2. \A u \in groupTiles(g) : registry[u] \in TileState
        BY <4>1 DEF groupTiles
      <4>3. \A u \in groupTiles(g) : registry[u].houses = 0
        BY <3>2, <4>2 DEF groupHasBuildings, TileState, MaxBuildings
      <4> QED BY <4>3 DEF OneBuilder, Even
    <3> QED BY <3>1, <3>2
  <2> QED BY <2>1, <2>2, <2>3 DEF GroupSound, EvenGroup
<1> QED BY <1>3, <1>4 DEF BuildInv

\* A sound group is what the runs check.
LEMMA SoundEnough == TypeInv /\ BuildInv => BuildingsAreSound
<1> SUFFICES ASSUME TypeInv, BuildInv, NEW t \in DOMAIN registry, Built(t)
             PROVE  /\ Rules.buildEvenly =>
                         \A u, v \in groupTiles(t) : registry[u].houses - registry[v].houses <= 1
                    /\ ~SaleReversedAfterTrade(t) => WholeGroup(t) /\ registry[t].owner # Bank
  BY DEF BuildingsAreSound
<1>1. Even(registry, t)
  BY DEF BuildInv, EvenGroup
<1>2. ~SaleReversedAfterTrade(t) => Whole(registry, t)
  BY DEF BuildInv, GroupSound, Sound, Built
<1>3. t \in groupTiles(t)
  BY RegistryFacts DEF TypeInv, groupTiles
<1> QED BY <1>1, <1>2, <1>3 DEF Whole, Even, WholeGroup

\* Buildings stay at levels at most one apart under the even-building rule, and on whole
\* groups, through every trade, mortgage, bankruptcy and reversal in any order; the one
\* way out of the second is a sale of buildings reversed after a trade in its group.
THEOREM BuildingsStaySound == Spec => []BuildingsAreSound
<1>1. Init => StoryInv /\ BuildInv
  BY InitStory, InitBuild
<1>2. TypeInv /\ TypeInv' /\ StoryInv /\ [Next]_vars => StoryInv'
  BY StoryKept
<1>3. TypeInv /\ TypeInv' /\ StoryInv /\ BuildInv /\ [Next]_vars => BuildInv'
  BY BuildKept
<1>4. Spec => []TypeInv
  BY BankTypes, PTL
<1>5. TypeInv /\ BuildInv => BuildingsAreSound
  BY SoundEnough
<1> QED BY <1>1, <1>2, <1>3, <1>4, <1>5, PTL DEF Spec

-----------------------------------------------------------------------------
(* Turns only go forward *)

\* The log as it stands, or with one row more that takes no other back.
Onward == log' = log \/ \E tx : log' = Append(log, tx) /\ tx.undoes = 0

\* Every step that is not a reversal takes the log onward.
LEMMA StepsGoOnward == ASSUME TypeInv, [Next]_vars, ~Reversal PROVE Onward
<1>1. ASSUME NEW type, NEW d, NEW tiles, NEW c, Deal(type, d, tiles, c) PROVE Onward
  <2>1. TileTx(type, d, tiles, c).undoes = 0
    BY DEF TileTx, Tx
  <2>2. log' = Append(log, TileTx(type, d, tiles, c))
    BY <1>1 DEF Deal, Commit
  <2> QED BY <2>1, <2>2 DEF Onward
<1>2. CASE UNCHANGED vars
  BY <1>2 DEF vars, money, Onward
<1>3. MoneyStep \/ RequestStep \/ LoanStep \/ BankLoanStep \/ Tick => Onward
  BY MoneyBare DEF Bare, Onward
<1>4. TileStep => Onward
  <2>1. TileStep => \E type, d, tiles, c : Deal(type, d, tiles, c)
    BY DEF TileStep, propertyPurchase, payRent
  <2> QED BY <1>1, <2>1
<1>5. BuildingStep => Onward
  <2>1. BuildingStep => \E type, d, tiles, c : Deal(type, d, tiles, c)
    BY DEF BuildingStep, building
  <2> QED BY <1>1, <2>1
<1>6. MortgageStep => Onward
  <2>1. ASSUME NEW p, NEW name, NEW value, mortgageProperty(p, name, value) PROVE Onward
    <3>1. PICK d, type : log' = Append(log, Tx(type, d))
      BY <2>1 DEF mortgageProperty, Commit
    <3>2. Tx(type, d).undoes = 0
      BY DEF Tx
    <3> QED BY <3>1, <3>2 DEF Onward
  <2>2. ASSUME NEW p, NEW t, mortgageTile(p, t) PROVE Onward
    BY <1>1, <2>2 DEF mortgageTile
  <2>3. ASSUME NEW m, redeemMortgage(m) PROVE Onward
    <3>1. \/ \E type, d, tiles, c : Deal(type, d, tiles, c)
          \/ \E type, d : log' = Append(log, Tx(type, d))
      BY <2>3 DEF redeemMortgage, Commit
    <3>2. \A type, d : Tx(type, d).undoes = 0
      BY DEF Tx
    <3> QED BY <1>1, <3>1, <3>2 DEF Onward
  <2> QED BY <2>1, <2>2, <2>3 DEF MortgageStep
<1>7. TradeStep => Onward
  <2>1. ASSUME NEW r, acceptTradeRequest(r) PROVE Onward
    <3>1. log' = Append(log, transferProperties(trades[r]))
      BY <2>1 DEF acceptTradeRequest, Commit
    <3>2. transferProperties(trades[r]).undoes = 0
      BY DEF transferProperties, Tx
    <3> QED BY <3>1, <3>2 DEF Onward
  <2>2. TradeStep => (\E r : acceptTradeRequest(r)) \/ log' = log
    BY TradesTalk DEF TradeStep
  <2> QED BY <2>1, <2>2 DEF Onward
<1>8. ~ReverseStep
  <2> SUFFICES ASSUME NEW i \in DOMAIN log, reverseTransaction(i) PROVE FALSE
    BY DEF ReverseStep
  <2>1. log' = Append(log, Undoing(i)) /\ Undoing(i).type = "REVERSAL"
    BY DEF reverseTransaction, Commit, Undoing, TileTx, Tx
  <2>2. Len(log) \in Nat
    BY LenProperties DEF TypeInv, MoneyTyped
  <2>3. log' # log /\ log'[Len(log')] = Undoing(i)
    BY <2>1, <2>2 DEF TypeInv, MoneyTyped
  <2> QED BY <2>1, <2>3 DEF Reversal
<1>9. BankruptcyStep => Onward
  <2> SUFFICES ASSUME NEW p, NEW heir, declareBankruptcy(p, heir) PROVE Onward
    BY DEF BankruptcyStep
  <2>1. PICK tx : tx = TileTx("BANKRUPTCY_TRANSFER", bankruptcyDelta(p, heir), {},
                              bankruptcyAssets(p, heir))
    OBVIOUS
  <2>2. log' = Append(log, tx)
    BY <2>1 DEF declareBankruptcy
  <2>3. tx.undoes = 0
    BY <2>1 DEF TileTx, Tx
  <2> QED BY <2>2, <2>3 DEF Onward
<1> QED BY <1>2, <1>3, <1>4, <1>5, <1>6, <1>7, <1>8, <1>9 DEF Next

\* What the rows there are tell of the turns stays.
LEMMA ActorsStay ==
    ASSUME TypeInv, TypeInv', Onward
    PROVE  /\ Len(log) \in Nat /\ Len(log') \in {Len(log), Len(log) + 1}
           /\ \A i \in 1 .. Len(log) : transactionActor(i)' = transactionActor(i)
<1>1. Len(log) \in Nat /\ DOMAIN log = 1 .. Len(log)
  BY LenProperties DEF TypeInv, MoneyTyped
<1>2. CASE log' = log
  <2>1. \A i : Reversed(i)' <=> Reversed(i)
    BY <1>2 DEF Reversed
  <2>2. \A i : transactionActor(i)' = transactionActor(i)
    BY <1>2, <2>1 DEF transactionActor
  <2> QED BY <1>1, <1>2, <2>2
<1>3. ASSUME NEW tx, log' = Append(log, tx), tx.undoes = 0
      PROVE  /\ Len(log') = Len(log) + 1
             /\ \A i \in 1 .. Len(log) : transactionActor(i)' = transactionActor(i)
  <2>1. PICK x : x = NextId
    OBVIOUS
  <2>2. /\ DOMAIN log' = DOMAIN log \cup {x} /\ log'[x] = tx /\ \A i \in DOMAIN log : log'[i] = log[i]
    BY <1>3, <2>1, AddedRow
  <2>3. \A i \in 1 .. Len(log) : i # 0 /\ (Reversed(i)' <=> Reversed(i))
    BY <1>1, <1>3, <2>2 DEF Reversed
  <2>4. \A i \in 1 .. Len(log) : transactionActor(i)' = transactionActor(i)
    BY <1>1, <2>2, <2>3 DEF transactionActor
  <2>5. Len(log') = Len(log) + 1
    BY <1>1, <1>3 DEF TypeInv, MoneyTyped
  <2> QED BY <2>4, <2>5
<1> QED BY <1>1, <1>2, <1>3 DEF Onward

\* The operations after an anchor that tell of a turn, and the ones that start one of p.
Telling(anchor) == {i \in anchor + 1 .. Len(log) : transactionActor(i) # Bank}

Starting(anchor, p) ==
  {i \in Telling(anchor) :
     /\ transactionActor(i) = p
     /\ \E j \in Telling(anchor) :
          /\ j < i /\ transactionActor(j) # p
          /\ \A k \in Telling(anchor) : k <= j \/ k >= i}

\* The turns counted are those.
LEMMA TurnsAreStarts == ASSUME NEW a, NEW p PROVE turnsStartedSince(a, p) = Cardinality(Starting(a, p))
  BY DEF turnsStartedSince, Starting, Telling

\* Finitely many, so a number.
LEMMA TurnsNat ==
    ASSUME TypeInv, NEW a \in Nat, NEW p
    PROVE  IsFiniteSet(Starting(a, p)) /\ turnsStartedSince(a, p) \in Nat
<1>1. Len(log) \in Nat
  BY LenProperties DEF TypeInv, MoneyTyped
<1>2. IsFiniteSet(a + 1 .. Len(log))
  BY <1>1, FS_Interval
<1>3. IsFiniteSet(Starting(a, p))
  BY <1>2, FS_Subset DEF Starting, Telling
<1>4. Cardinality(Starting(a, p)) \in Nat
  BY <1>3, FS_CardinalityType
<1> QED BY <1>3, <1>4, TurnsAreStarts

\* A step that takes nothing back takes back no turn.
LEMMA TurnsGrow ==
    ASSUME TypeInv, TypeInv', Onward, NEW a \in Nat, NEW p
    PROVE  turnsStartedSince(a, p)' \in Nat /\ turnsStartedSince(a, p)' >= turnsStartedSince(a, p)
<1>1. /\ Len(log) \in Nat /\ Len(log') \in {Len(log), Len(log) + 1}
      /\ \A i \in 1 .. Len(log) : transactionActor(i)' = transactionActor(i)
  BY ActorsStay
<1>2. /\ \A i : i \in Telling(a) => i \in Telling(a)' /\ i \in 1 .. Len(log)
      /\ \A i : i \in Telling(a)' => i \in Telling(a) \/ i = Len(log) + 1
  <2>1. \A i \in a + 1 .. Len(log) : i \in 1 .. Len(log) /\ i \in a + 1 .. Len(log')
    BY <1>1
  <2>2. \A i \in a + 1 .. Len(log') : i \in a + 1 .. Len(log) \/ i = Len(log) + 1
    BY <1>1
  <2>3. \A i \in a + 1 .. Len(log) : transactionActor(i)' = transactionActor(i)
    BY <1>1, <2>1
  <2> QED BY <2>1, <2>2, <2>3 DEF Telling
<1>3. ASSUME NEW i \in Starting(a, p) PROVE i \in Starting(a, p)'
  <2>1. /\ i \in Telling(a) /\ transactionActor(i) = p
    BY DEF Starting
  <2>2. PICK j \in Telling(a) : /\ j < i /\ transactionActor(j) # p
                                /\ \A k \in Telling(a) : k <= j \/ k >= i
    BY DEF Starting
  <2>3. \A k \in Telling(a)' : k <= j \/ k >= i
    BY <1>1, <1>2, <2>1, <2>2
  <2>4. transactionActor(i)' = p /\ transactionActor(j)' # p
    BY <1>1, <1>2, <2>1, <2>2
  <2> QED BY <1>2, <2>1, <2>2, <2>3, <2>4 DEF Starting
<1>4. PICK S : S = Starting(a, p)'
  OBVIOUS
<1>5. PICK n : n = Len(log')
  OBVIOUS
<1>6. n \in Nat /\ S \subseteq a + 1 .. n
  BY <1>1, <1>4, <1>5 DEF Starting, Telling
<1>7. IsFiniteSet(S)
  <2>1. a + 1 \in Int /\ n \in Int
    BY <1>6
  <2>2. IsFiniteSet(a + 1 .. n)
    BY <2>1, FS_Interval
  <2> QED BY <1>6, <2>2, FS_Subset
<1>8. Starting(a, p) \subseteq S
  BY <1>3, <1>4
<1>9. Cardinality(Starting(a, p)) <= Cardinality(S) /\ Cardinality(S) \in Nat
  BY <1>7, <1>8, FS_Subset, FS_CardinalityType
<1>10. turnsStartedSince(a, p)' = Cardinality(S)
  BY <1>4 DEF turnsStartedSince, Starting, Telling
<1>11. turnsStartedSince(a, p) \in Nat /\ turnsStartedSince(a, p) = Cardinality(Starting(a, p))
  BY TurnsNat, TurnsAreStarts
<1> QED BY <1>9, <1>10, <1>11

\* Who borrows, and how much, is settled when a loan is made; and a loan that no
\* longer runs is never touched again.
LEMMA TermsStay ==
    ASSUME TypeInv, [Next]_vars, NEW l \in DOMAIN loans
    PROVE  /\ l \in DOMAIN loans'
           /\ loans'[l].borrower = loans[l].borrower /\ loans'[l].principal = loans[l].principal
           /\ loans[l].state # "ACTIVE" => loans'[l] = loans[l]
<1>1. CASE loans' = loans
  BY <1>1
<1>2. CASE LoanMade
  <2>1. PICK row : loans' = Insert(loans, row)
    BY <1>2 DEF LoanMade
  <2> QED BY <2>1, LoanAdded
<1>3. CASE LoanPaid
  <2>1. PICK k \in ActiveLoans, a \in Nat : loans' = Repaid(k, a)
    BY <1>3 DEF LoanPaid
  <2>2. k \in DOMAIN loans /\ loans[k].state = "ACTIVE"
    BY DEF ActiveLoans
  <2>3. /\ DOMAIN loans' = DOMAIN loans
        /\ \A j \in DOMAIN loans \ {k} : loans'[j] = loans[j]
        /\ loans'[k].borrower = loans[k].borrower /\ loans'[k].principal = loans[k].principal
    BY <2>1, <2>2, LoanReduced
  <2> QED BY <2>2, <2>3
<1>4. ASSUME NEW p \in Active, NEW heir \in Active \cup {Bank}, declareBankruptcy(p, heir)
      PROVE  /\ l \in DOMAIN loans'
             /\ loans'[l].borrower = loans[l].borrower /\ loans'[l].principal = loans[l].principal
             /\ loans[l].state # "ACTIVE" => loans'[l] = loans[l]
  <2>1. loans' = [k \in DOMAIN loans |-> LoanAfter(p, heir, k)] /\ loans[l] \in LoanRows
    BY <1>4, BankruptLoanFacts, LoanFacts DEF declareBankruptcy, TypeInv
  <2>2. l \in DOMAIN loans' /\ loans'[l] = LoanAfter(p, heir, l)
    BY <2>1
  <2>3. loans[l].state # "ACTIVE" => loans'[l] = loans[l]
    BY <2>2 DEF LoanAfter, ActiveLoans
  <2>4. \/ loans'[l] = loans[l]
        \/ \E n, s : loans'[l] = [loans[l] EXCEPT !.repaid = n, !.state = s]
        \/ \E q : loans'[l] = [loans[l] EXCEPT !.lender = q]
        \/ \E s : loans'[l] = [loans[l] EXCEPT !.state = s]
    BY <2>2 DEF LoanAfter
  <2>5. loans'[l].borrower = loans[l].borrower /\ loans'[l].principal = loans[l].principal
    BY <2>1, <2>4 DEF LoanRows
  <2> QED BY <2>2, <2>3, <2>5
<1>5. loans' = loans \/ LoanMade \/ LoanPaid \/ BankruptcyStep
  <2>1. UNCHANGED vars => loans' = loans
    BY DEF vars, credit
  <2>2. LoanStep \/ BankLoanStep => loans' = loans \/ LoanMade \/ LoanPaid
    BY LoanMoves
  <2>3. \/ MoneyStep \/ RequestStep \/ TileStep \/ BuildingStep \/ MortgageStep
        \/ TradeStep \/ ReverseStep \/ Tick
        => loans' = loans
    BY CreditQuiet
  <2> QED BY <2>1, <2>2, <2>3 DEF Next
<1> QED BY <1>1, <1>2, <1>3, <1>4, <1>5 DEF BankruptcyStep

\* No loan is closed without a repayment recorded for it.
LEMMA ClosedOnlyByRepayment ==
    ASSUME TypeInv, LoanInv, LoanInv', [Next]_vars, repayments' = repayments, NEW l \in DOMAIN loans
    PROVE  /\ loans'[l].state = "REPAID" <=> loans[l].state = "REPAID"
           /\ loans[l].state = "REPAID" => loans'[l] = loans[l]
<1>1. /\ l \in DOMAIN loans' /\ loans'[l].principal = loans[l].principal
      /\ loans[l].state # "ACTIVE" => loans'[l] = loans[l]
  BY TermsStay
<1>2. RepaidOf(l)' = RepaidOf(l)
  <2>1. RepaymentsOf(l)' = RepaymentsOf(l)
    BY DEF RepaymentsOf
  <2> QED BY <2>1, RepaidOfSame
<1>3. LoanSound(l) /\ LoanSound(l)'
  BY <1>1 DEF LoanInv
<1> QED BY <1>1, <1>2, <1>3 DEF LoanSound

\* What closed the bank loans of p.
ClosedFor(p, l) == loans[l].lender = Bank /\ loans[l].borrower = p /\ loans[l].state = "REPAID"
ClosingOf(p) == {x.tx : x \in {y \in repayments : ClosedFor(p, y.loan)}}

\* Without another repayment the latest one stays the latest.
LEMMA LatestStays ==
    ASSUME TypeInv, LoanInv, LoanInv', [Next]_vars, repayments' = repayments, NEW p
    PROVE  latestRepayment(p)' = latestRepayment(p)
<1>1. ASSUME NEW y \in repayments PROVE ClosedFor(p, y.loan)' <=> ClosedFor(p, y.loan)
  <2>1. PICK l : l = y.loan
    OBVIOUS
  <2>2. l \in DOMAIN loans
    BY <2>1 DEF LoanInv, RepaymentsKnown
  <2>3. ClosedFor(p, l)' <=> ClosedFor(p, l)
    BY <2>2, ClosedOnlyByRepayment DEF ClosedFor
  <2> QED BY <2>1, <2>3 DEF ClosedFor
<1>2. {y \in repayments : ClosedFor(p, y.loan)}' = {y \in repayments : ClosedFor(p, y.loan)}
  BY <1>1
<1>3. ClosingOf(p)' = ClosingOf(p)
  BY <1>2 DEF ClosingOf
<1>4. latestRepayment(p) = {i \in ClosingOf(p) : \A j \in ClosingOf(p) : j <= i}
  BY DEF latestRepayment, ClosingOf, ClosedFor
<1>5. latestRepayment(p)' = {i \in ClosingOf(p)' : \A j \in ClosingOf(p)' : j <= i}
  BY DEF latestRepayment, ClosingOf, ClosedFor
<1> QED BY <1>3, <1>4, <1>5

\* The larger of nothing and a number.
LEMMA MaxWithZero == ASSUME NEW a \in Int PROVE Max({0, a}) = IF a >= 0 THEN a ELSE 0
<1>1. \E x \in {0, a} : \A y \in {0, a} : x >= y
  OBVIOUS
<1>2. Max({0, a}) \in {0, a} /\ \A y \in {0, a} : Max({0, a}) >= y
  BY <1>1 DEF Max
<1> QED BY <1>2

\* The repayment a cooldown is counted from, and what is left of it after some turns.
CountingFor(p) == {i \in latestRepayment(p) : InWindow(i) /\ p \in Active}
CooldownAfter(n) == IF n >= CooldownRounds THEN 0 ELSE CooldownRounds - n

\* How a cooldown reads.
CooldownsRead ==
  \A p \in Players :
    /\ CountingFor(p) = {} => roundsLeft(p) = 0
    /\ \A i \in CountingFor(p) : /\ i \in Nat /\ turnsStartedSince(i, p) \in Nat
                             /\ roundsLeft(p) = CooldownAfter(turnsStartedSince(i, p))

\* It does.
LEMMA CooldownsDoRead == TypeInv /\ LoanInv => CooldownsRead
<1> SUFFICES ASSUME TypeInv, LoanInv, NEW p \in Players
             PROVE  /\ CountingFor(p) = {} => roundsLeft(p) = 0
                    /\ \A i \in CountingFor(p) :
                         /\ i \in Nat /\ turnsStartedSince(i, p) \in Nat
                         /\ roundsLeft(p) = CooldownAfter(turnsStartedSince(i, p))
  BY DEF CooldownsRead
<1> DEFINE f == [i \in CountingFor(p) |-> Max({0, CooldownRounds - turnsStartedSince(i, p)})]
<1>1. roundsLeft(p) = SumFunction(f)
  BY DEF roundsLeft, CountingFor
<1>2. ASSUME CountingFor(p) = {} PROVE roundsLeft(p) = 0
  <2>1. DOMAIN f = {}
    BY <1>2
  <2> HIDE DEF f
  <2> QED BY <1>1, <2>1, FunctionSumEmpty
<1>3. ClosingOf(p) \subseteq Nat
  <2>1. Len(log) \in Nat /\ DOMAIN log = 1 .. Len(log)
    BY LenProperties DEF TypeInv, MoneyTyped
  <2> QED BY <2>1 DEF ClosingOf, LoanInv, RepaymentsKnown
<1>4. latestRepayment(p) = {i \in ClosingOf(p) : \A j \in ClosingOf(p) : j <= i}
  BY DEF latestRepayment, ClosingOf, ClosedFor
<1>5. ASSUME NEW i \in CountingFor(p)
      PROVE  /\ i \in Nat /\ turnsStartedSince(i, p) \in Nat
             /\ roundsLeft(p) = CooldownAfter(turnsStartedSince(i, p))
  <2>1. i \in Nat
    BY <1>3, <1>4 DEF CountingFor
  <2>2. CountingFor(p) = {i}
    <3>1. \A j \in CountingFor(p) : j = i
      BY <1>3, <1>4 DEF CountingFor
    <3> QED BY <3>1
  <2>3. PICK n : n = turnsStartedSince(i, p)
    OBVIOUS
  <2>4. n \in Nat
    BY <2>1, <2>3, TurnsNat
  <2>5. Max({0, CooldownRounds - n}) = CooldownAfter(n) /\ CooldownAfter(n) \in Int
    <3>1. CooldownRounds - n \in Int
      BY <2>4 DEF CooldownRounds
    <3> QED BY <2>4, <3>1, MaxWithZero DEF CooldownAfter, CooldownRounds
  <2>6. f \in [{i} -> Int] /\ f[i] = CooldownAfter(n)
    BY <2>2, <2>3, <2>5
  <2> HIDE DEF f
  <2>7. SumFunction(f) = CooldownAfter(n)
    BY <2>6, FunctionSumOne
  <2> QED BY <1>1, <2>1, <2>3, <2>4, <2>7
<1> QED BY <1>2, <1>5

\* Who is bankrupt stays it.
LEMMA BankruptForGood == ASSUME TypeInv, [Next]_vars PROVE bankrupt \subseteq bankrupt'
<1>1. UNCHANGED vars => bankrupt' = bankrupt
  BY DEF vars
<1>2. LoanStep \/ BankLoanStep => bankrupt' = bankrupt
  BY LoanMoves
<1>3. \/ MoneyStep \/ RequestStep \/ TileStep \/ BuildingStep \/ MortgageStep
      \/ TradeStep \/ ReverseStep \/ Tick
      => bankrupt' = bankrupt
  BY CreditQuiet
<1>4. BankruptcyStep => bankrupt \subseteq bankrupt'
  BY DEF BankruptcyStep, declareBankruptcy
<1> QED BY <1>1, <1>2, <1>3, <1>4 DEF Next

\* What a cooldown is counted from was counted before.
LEMMA CountingStays ==
    ASSUME TypeInv, TypeInv', LoanInv, LoanInv', [Next]_vars, Onward, repayments' = repayments,
           BankLoans' = {} \/ BankLoans # {}, NEW p
    PROVE  CountingFor(p)' \subseteq CountingFor(p)
<1>1. latestRepayment(p)' = latestRepayment(p)
  BY LatestStays
<1>2. Active' \subseteq Active
  BY BankruptForGood DEF Active
<1>3. latestRepayment(p) \subseteq Nat
  <2>1. ClosingOf(p) \subseteq Nat
    <3>1. Len(log) \in Nat /\ DOMAIN log = 1 .. Len(log)
      BY LenProperties DEF TypeInv, MoneyTyped
    <3> QED BY <3>1 DEF ClosingOf, LoanInv, RepaymentsKnown
  <2> QED BY <2>1 DEF latestRepayment, ClosingOf, ClosedFor
<1>4. ASSUME NEW i \in Nat, InWindow(i)' PROVE InWindow(i)
  <2>1. Len(log) \in Nat /\ Len(log') \in {Len(log), Len(log) + 1} /\ ScanWindow \in Nat
    BY ActorsStay, LedgerAssumption
  <2> QED BY <1>4, <2>1 DEF InWindow
<1> QED BY <1>1, <1>2, <1>3, <1>4 DEF CountingFor

\* The step.
LEMMA TurnsAdvance ==
    ASSUME TypeInv, TypeInv', LoanInv, LoanInv', CooldownsRead, CooldownsRead', [Next]_vars, ~Reversal
    PROVE  /\ \A l \in BankLoans : l \in BankLoans' => loanRound(l)' >= loanRound(l)
           /\ repayments' = repayments /\ (BankLoans' = {} \/ BankLoans # {}) =>
                \A p \in Players : roundsLeft(p)' <= roundsLeft(p)
<1>1. Onward
  BY StepsGoOnward
<1>2. ASSUME NEW l \in BankLoans PROVE loanRound(l)' >= loanRound(l)
  <2>1. l \in DOMAIN loans /\ l \in Nat
    <3>1. l \in DOMAIN loans
      BY DEF BankLoans, ActiveLoans
    <3> QED BY <3>1, LoanFacts DEF TypeInv
  <2>2. PICK q : q = loans[l].borrower
    OBVIOUS
  <2>3. loans'[l].borrower = q
    BY <2>1, <2>2, TermsStay
  <2>4. /\ turnsStartedSince(l, q) \in Nat /\ turnsStartedSince(l, q)' \in Nat
        /\ turnsStartedSince(l, q)' >= turnsStartedSince(l, q)
    BY <1>1, <2>1, TurnsGrow, TurnsNat
  <2>5. loanRound(l) = 1 + turnsStartedSince(l, q)
    BY <2>2 DEF loanRound
  <2>6. loanRound(l)' = 1 + turnsStartedSince(l, q)'
    BY <2>3 DEF loanRound, turnsStartedSince
  <2> QED BY <2>4, <2>5, <2>6
<1>3. ASSUME repayments' = repayments, BankLoans' = {} \/ BankLoans # {}, NEW p \in Players
      PROVE  roundsLeft(p)' <= roundsLeft(p)
  <2>1. CountingFor(p)' \subseteq CountingFor(p)
    BY <1>1, <1>3, CountingStays
  <2>2. roundsLeft(p) \in Nat
    BY DEF CooldownsRead, CooldownAfter, CooldownRounds
  <2>3. CASE CountingFor(p)' = {}
    <3>1. roundsLeft(p)' = 0
      BY <2>3 DEF CooldownsRead
    <3> QED BY <2>2, <3>1
  <2>4. ASSUME NEW i \in CountingFor(p)' PROVE roundsLeft(p)' <= roundsLeft(p)
    <3>1. i \in CountingFor(p)
      BY <2>1
    <3>2. /\ i \in Nat /\ turnsStartedSince(i, p) \in Nat
          /\ roundsLeft(p) = CooldownAfter(turnsStartedSince(i, p))
      BY <3>1 DEF CooldownsRead
    <3>3. turnsStartedSince(i, p)' \in Nat /\ roundsLeft(p)' = CooldownAfter(turnsStartedSince(i, p)')
      BY DEF CooldownsRead, CooldownAfter
    <3>4. turnsStartedSince(i, p)' >= turnsStartedSince(i, p)
      BY <1>1, <3>2, TurnsGrow
    <3> QED BY <3>2, <3>3, <3>4 DEF CooldownAfter, CooldownRounds
  <2> QED BY <2>3, <2>4
<1> QED BY <1>2, <1>3

\* Turns only go forward, whatever anybody does short of a reversal: the round of a
\* running bank loan never falls, and neither does a cooldown grow, unless another
\* repayment starts it anew or the first loan of all widens what is read.
THEOREM TurnsNeverGoBack == Spec => TurnsOnlyAdvance
<1>1. Spec => []TypeInv
  BY BankTypes, PTL
<1>2. Spec => []LoanInv
  BY <1>1, InitLoans, LoanInvKept, PTL DEF Spec
<1>3. TypeInv /\ LoanInv => CooldownsRead
  BY CooldownsDoRead
<1> DEFINE Forward ==
      ~Reversal =>
        /\ \A l \in BankLoans : l \in BankLoans' => loanRound(l)' >= loanRound(l)
        /\ repayments' = repayments /\ (BankLoans' = {} \/ BankLoans # {}) =>
             \A p \in Players : roundsLeft(p)' <= roundsLeft(p)
<1>4. /\ TypeInv /\ TypeInv' /\ LoanInv /\ LoanInv' /\ CooldownsRead /\ CooldownsRead'
      /\ [Next]_vars
      => Forward
  BY TurnsAdvance
<1>5. TurnsOnlyAdvance <=> [][Forward]_vars
  BY DEF TurnsOnlyAdvance
<1> HIDE DEF Forward
<1> QED BY <1>1, <1>2, <1>3, <1>4, <1>5, PTL DEF Spec
-----------------------------------------------------------------------------
(* The points of the chart *)

\* A quotient with its remainder.
LEMMA DivUnique ==
    ASSUME NEW b \in Nat, NEW q \in Nat, NEW r \in Nat, r < b
    PROVE  (b * q + r) \div b = q
<1> DEFINE a == b * q + r
           d == a \div b
<1>1. b > 0 /\ b * q \in Nat /\ a \in Nat
  BY ProductNat
<1>2. d \in Int /\ b * d <= a /\ a < b * d + b
  <2>1. \A x \in Nat : x \div b \in Int /\ b * (x \div b) <= x /\ x < b * (x \div b) + b
    BY <1>1
  <2> HIDE DEF a
  <2> QED BY <1>1, <2>1
<1> HIDE DEF d
<1>3. b * (q - d) < b /\ b * (d - q) < b
  BY <1>1, <1>2
<1>4. \A n \in Int : n >= 1 => b * n >= b
  BY <1>1
<1>5. ~(q - d >= 1) /\ ~(d - q >= 1)
  <2>1. q - d \in Int /\ d - q \in Int
    BY <1>2
  <2> QED BY <1>3, <1>4, <2>1
<1>6. q = d
  BY <1>2, <1>5
<1> QED BY <1>6 DEF d

\* A larger number has no smaller quotient.
LEMMA DivGrows ==
    ASSUME NEW a \in Nat, NEW c \in Nat, a <= c, NEW b \in Nat, b > 0
    PROVE  a \div b \in Nat /\ a \div b <= c \div b
<1>1. \A x \in Nat : x \div b \in Nat /\ b * (x \div b) <= x /\ x < b * (x \div b) + b
  OBVIOUS
<1>2. PICK m \in Nat, n \in Nat : m = a \div b /\ n = c \div b
  BY <1>1
<1>3. b * m <= a /\ c < b * n + b
  BY <1>1, <1>2
<1>4. b * (m - n) < b
  BY <1>3
<1>5. \A k \in Int : k >= 1 => b * k >= b
  OBVIOUS
<1>6. m <= n
  <2>1. m - n \in Int
    OBVIOUS
  <2>2. ~(m - n >= 1)
    BY <1>4, <1>5, <2>1
  <2> QED BY <2>2
<1> QED BY <1>2, <1>6

\* How many points there are.
Points(steps) == Min({steps + 1, SeriesPoints})

\* All steps, if there are few; else as many points as may be.
LEMMA PointsFacts ==
    ASSUME NEW steps \in Nat
    PROVE  /\ steps < SeriesPoints => Points(steps) = steps + 1
           /\ steps >= SeriesPoints => Points(steps) = SeriesPoints
           /\ Points(steps) \in Nat /\ Points(steps) >= 1
<1>1. SeriesPoints \in Nat /\ SeriesPoints > 1
  BY StatisticsAssumption
<1>2. \E x \in {steps + 1, SeriesPoints} : \A y \in {steps + 1, SeriesPoints} : x <= y
  BY <1>1
<1>3. /\ Points(steps) \in {steps + 1, SeriesPoints}
      /\ \A y \in {steps + 1, SeriesPoints} : Points(steps) <= y
  BY <1>2 DEF Points, Min
<1> QED BY <1>1, <1>3

\* The chart keeps the first step, the last one, and no step before another it has kept.
LEMMA KeepFacts ==
    ASSUME NEW steps \in Nat
    PROVE  /\ DOMAIN keep(steps) = 1 .. Points(steps)
           /\ keep(steps)[1] = 0 /\ keep(steps)[Points(steps)] = steps
           /\ \A n \in 1 .. Points(steps) : keep(steps)[n] \in Nat
           /\ \A m, n \in 1 .. Points(steps) : m <= n => keep(steps)[m] <= keep(steps)[n]
<1> DEFINE last == SeriesPoints - 1
           At(n) == IF steps < SeriesPoints THEN n - 1
                    ELSE (2 * (n - 1) * steps + last) \div (2 * last)
<1>1. SeriesPoints \in Nat /\ last \in Nat /\ last >= 1 /\ 2 * last \in Nat /\ 2 * last > last
  BY StatisticsAssumption
<1>2. Points(steps) \in Nat /\ Points(steps) >= 1
  BY PointsFacts
<1>3. keep(steps) = [n \in 1 .. Points(steps) |-> At(n)]
  BY DEF keep, Points
<1>4. CASE steps < SeriesPoints
  <2>1. Points(steps) = steps + 1
    BY <1>4, PointsFacts
  <2>2. \A n \in 1 .. Points(steps) : keep(steps)[n] = n - 1
    BY <1>3, <1>4
  <2>3. 1 \in 1 .. Points(steps) /\ Points(steps) \in 1 .. Points(steps)
    BY <1>2
  <2>4. keep(steps)[1] = 0 /\ keep(steps)[Points(steps)] = steps
    BY <2>1, <2>2, <2>3
  <2>5. \A n \in 1 .. Points(steps) : keep(steps)[n] \in Nat
    BY <1>2, <2>2
  <2>6. \A m, n \in 1 .. Points(steps) : m <= n => keep(steps)[m] <= keep(steps)[n]
    BY <1>2, <2>2
  <2>7. DOMAIN keep(steps) = 1 .. Points(steps)
    BY <1>3
  <2> QED BY <2>4, <2>5, <2>6, <2>7
<1>5. CASE steps >= SeriesPoints
  <2>1. Points(steps) = SeriesPoints
    BY <1>5, PointsFacts
  <2>2. ~(steps < SeriesPoints)
    BY <1>1, <1>5
  <2>3. \A n \in 1 .. Points(steps) :
          keep(steps)[n] = (2 * (n - 1) * steps + last) \div (2 * last)
    BY <1>3, <2>2
  <2> HIDE DEF last
  <2>4. 2 * (1 - 1) * steps + last = 2 * last * 0 + last
    BY <1>1
  <2>5. keep(steps)[1] = 0
    <3>1. (2 * last * 0 + last) \div (2 * last) = 0
      BY <1>1, DivUnique
    <3>2. 1 \in 1 .. Points(steps)
      BY <1>2
    <3>3. keep(steps)[1] = (2 * (1 - 1) * steps + last) \div (2 * last)
      BY <2>3, <3>2
    <3> QED BY <2>4, <3>1, <3>3
  <2>6. keep(steps)[Points(steps)] = steps
    <3>1. (2 * last * steps + last) \div (2 * last) = steps
      BY <1>1, DivUnique
    <3>2. Points(steps) \in 1 .. Points(steps) /\ Points(steps) - 1 = last
      BY <1>1, <1>2, <2>1 DEF last
    <3>3. keep(steps)[Points(steps)] = (2 * (Points(steps) - 1) * steps + last) \div (2 * last)
      BY <2>3, <3>2
    <3> QED BY <3>1, <3>2, <3>3
  <2>7. ASSUME NEW n \in 1 .. Points(steps) PROVE 2 * (n - 1) * steps + last \in Nat
    <3>1. 2 * (n - 1) \in Nat
      BY <1>2
    <3>2. 2 * (n - 1) * steps \in Nat
      BY <3>1, ProductNat
    <3> QED BY <1>1, <3>2
  <2>8. ASSUME NEW m \in 1 .. Points(steps), NEW n \in 1 .. Points(steps), m <= n
        PROVE  keep(steps)[m] \in Nat /\ keep(steps)[m] <= keep(steps)[n]
    <3>1. PICK a \in Nat, c \in Nat :
            a = 2 * (m - 1) * steps + last /\ c = 2 * (n - 1) * steps + last
      BY <2>7
    <3>2. a <= c
      <4>1. n - m \in Nat /\ m \in Int /\ n \in Int
        BY <1>2, <2>8
      <4>2. 2 * (n - m) * steps \in Nat
        BY <4>1, ProductNat
      <4>3. c = a + 2 * (n - m) * steps
        BY <1>1, <3>1, <4>1
      <4> QED BY <4>2, <4>3
    <3>3. 2 * last > 0
      BY <1>1
    <3>4. a \div (2 * last) \in Nat /\ a \div (2 * last) <= c \div (2 * last)
      BY <1>1, <3>2, <3>3, DivGrows
    <3> QED BY <2>3, <3>1, <3>4
  <2>9. \A n \in 1 .. Points(steps) : n <= n
    BY <1>2
  <2> QED BY <1>3, <2>5, <2>6, <2>8, <2>9
<1> QED BY <1>1, <1>4, <1>5

-----------------------------------------------------------------------------
(* The steps of the chart *)

\* Entries are counted in their order.
LEMMA StepFacts ==
    ASSUME NEW E, IsFiniteSet(E), E \subseteq Nat, NEW i \in E
    PROVE  /\ Cardinality(E) \in Nat /\ stepOf(E, i) \in Nat
           /\ 1 <= stepOf(E, i) /\ stepOf(E, i) <= Cardinality(E)
           /\ \A j \in E : j <= i => stepOf(E, j) <= stepOf(E, i)
<1> DEFINE Upto(j) == {k \in E : k <= j}
<1>1. \A j \in E : /\ stepOf(E, j) = Cardinality(Upto(j))
                   /\ IsFiniteSet(Upto(j)) /\ Upto(j) \subseteq E
  BY FS_Subset DEF stepOf
<1>2. Cardinality(E) \in Nat /\ \A j \in E : stepOf(E, j) \in Nat /\ stepOf(E, j) <= Cardinality(E)
  BY <1>1, FS_CardinalityType, FS_Subset
<1>3. 1 <= stepOf(E, i)
  <2>1. i \in Upto(i)
    OBVIOUS
  <2>2. Cardinality(Upto(i)) # 0
    BY <1>1, <2>1, FS_EmptySet
  <2> QED BY <1>1, <1>2, <2>2
<1>4. ASSUME NEW j \in E, j <= i PROVE stepOf(E, j) <= stepOf(E, i)
  <2>1. \A k \in E : k <= j => k <= i
    BY <1>4
  <2>2. Upto(j) \subseteq Upto(i)
    BY <2>1
  <2>3. IsFiniteSet(Upto(i)) /\ stepOf(E, i) = Cardinality(Upto(i)) /\ stepOf(E, j) = Cardinality(Upto(j))
    BY <1>1
  <2> HIDE DEF Upto
  <2> QED BY <2>2, <2>3, FS_Subset
<1> QED BY <1>2, <1>3, <1>4

-----------------------------------------------------------------------------
(* What a step records *)

Special == {"REVERSAL", "BANKRUPTCY_TRANSFER"}

\* A row that takes no other back, and nobody out of the game.
Ordinary(tx) == tx.undoes = 0 /\ tx.type \notin Special

RecordsOrdinary == log' = log \/ \E tx : log' = Append(log, tx) /\ Ordinary(tx)

\* Rows made the usual ways.
LEMMA OrdinaryTx ==
    ASSUME NEW type, type \notin Special, NEW d
    PROVE  /\ Ordinary(Tx(type, d))
           /\ \A tiles, c : Ordinary(TileTx(type, d, tiles, c))
           /\ \A r : Ordinary([Tx(type, d) EXCEPT !.via = r])
  BY DEF Ordinary, Tx, TileTx

\* Only a reversal and a bankruptcy are recorded as such.
LEMMA OrdinarySteps ==
    ASSUME \/ MoneyStep \/ RequestStep \/ LoanStep \/ BankLoanStep \/ TileStep
           \/ BuildingStep \/ MortgageStep \/ TradeStep \/ Tick
    PROVE  RecordsOrdinary
<1>1. ASSUME NEW type, type \notin Special, NEW d, Commit(Tx(type, d)) PROVE RecordsOrdinary
  BY <1>1, OrdinaryTx DEF Commit, RecordsOrdinary
<1>2. ASSUME NEW type, type \notin Special, NEW d, NEW tiles, NEW c, Deal(type, d, tiles, c)
      PROVE  RecordsOrdinary
  BY <1>2, OrdinaryTx DEF Deal, Commit, RecordsOrdinary
<1>3. ASSUME NEW r, NEW later, NEW type, type \notin Special, NEW d, settle(r, later, Tx(type, d))
      PROVE  RecordsOrdinary
  BY <1>3, OrdinaryTx DEF settle, Commit, RecordsOrdinary
<1>4. MoneyStep => RecordsOrdinary
  <2>1. ASSUME NEW p, NEW a, NEW q, NEW exact,
               \/ passGo(p, exact) \/ playerToBank(p, a) \/ bankToPlayer(p, a)
               \/ playerToAll(p, a) \/ allToPlayer(p, a) \/ auctionPayment(p, a)
               \/ playerToPlayer(p, q, a) \/ toJackpot(p, a) \/ jackpotPayout(p)
        PROVE  RecordsOrdinary
    BY <1>1, <2>1 DEF passGo, playerToBank, bankToPlayer, playerToAll, allToPlayer,
                      auctionPayment, playerToPlayer, toJackpot, jackpotPayout, Plain, Special
  <2> QED BY <2>1 DEF MoneyStep
<1>5. RequestStep \/ LoanStep => RecordsOrdinary
  <2>1. ASSUME NEW r, NEW later, acceptPayment(r, later) \/ acceptLoan(r, later)
        PROVE  RecordsOrdinary
    BY <1>3, <2>1 DEF acceptPayment, acceptLoan, Special
  <2>2. ASSUME NEW l, NEW a, repayLoan(l, a) PROVE RecordsOrdinary
    BY <1>1, <2>2 DEF repayLoan, Special
  <2>3. ASSUME \/ \E p, q \in Players, a \in Amounts : requestPayment(p, q, a)
               \/ \E p \in Players, a \in Amounts : requestFromAll(p, a)
               \/ \E r \in DOMAIN requests, state \in {"DECLINED", "CANCELLED"} :
                    resolvePaymentRequest(r, state)
               \/ listPaymentRequests
               \/ \E p, q \in Active, a \in Amounts : createLoanRequest(p, q, a)
        PROVE  RecordsOrdinary
    BY <2>3 DEF requestPayment, requestFromAll, createConfirmationRequests,
                resolvePaymentRequest, listPaymentRequests, createLoanRequest, money,
                RecordsOrdinary
  <2> QED BY <2>1, <2>2, <2>3 DEF RequestStep, LoanStep
<1>6. BankLoanStep => RecordsOrdinary
  <2>1. ASSUME NEW p, NEW a, NEW ack, NEW l, NEW rate,
               issueBankLoan(p, a, ack) \/ repayBankLoan(l, rate)
        PROVE  RecordsOrdinary
    BY <1>1, <2>1 DEF issueBankLoan, repayBankLoan, Special
  <2> QED BY <2>1 DEF BankLoanStep
<1>7. TileStep \/ BuildingStep => RecordsOrdinary
  <2>1. ASSUME NEW p, NEW t, NEW price, NEW dice, propertyPurchase(p, t, price) \/ payRent(p, t, dice)
        PROVE  RecordsOrdinary
    BY <1>2, <2>1 DEF propertyPurchase, payRent, Special
  <2>2. ASSUME NEW p, NEW targets, NEW direction, building(p, targets, direction)
        PROVE  RecordsOrdinary
    <3> DEFINE c == LevelChanges(targets)
    <3>1. \E a : \/ Deal("PROPERTY_BUILD", Pays(p, a), DOMAIN c, c)
                 \/ Deal("PROPERTY_SELL_BUILDING", Gets(p, a), DOMAIN c, c)
      BY <2>2 DEF building
    <3> HIDE DEF c
    <3> QED BY <1>2, <3>1 DEF Special
  <2> QED BY <2>1, <2>2 DEF TileStep, BuildingStep
<1>8. MortgageStep => RecordsOrdinary
  <2>1. ASSUME NEW p, NEW t, mortgageTile(p, t) PROVE RecordsOrdinary
    BY <1>2, <2>1 DEF mortgageTile, Special
  <2>2. ASSUME NEW p, NEW name, NEW value, mortgageProperty(p, name, value) PROVE RecordsOrdinary
    BY <1>1, <2>2 DEF mortgageProperty, Special
  <2>3. ASSUME NEW m, redeemMortgage(m) PROVE RecordsOrdinary
    <3> DEFINE t == mortgages[m].item
               d == Pays(mortgages[m].player, redemptionCost(mortgages[m].value))
               c == One(t, mortgageChange(registry[t], FALSE))
    <3>1. \/ Deal("MORTGAGE_REDEMPTION", d, {t}, c)
          \/ Commit(Tx("MORTGAGE_REDEMPTION", d))
      BY <2>3 DEF redeemMortgage
    <3> HIDE DEF c, d, t
    <3> QED BY <1>1, <1>2, <3>1 DEF Special
  <2> QED BY <2>1, <2>2, <2>3 DEF MortgageStep
<1>9. TradeStep => RecordsOrdinary
  <2>1. ASSUME NEW r, acceptTradeRequest(r) PROVE RecordsOrdinary
    <3>1. log' = Append(log, transferProperties(trades[r]))
      BY <2>1 DEF acceptTradeRequest, Commit
    <3>2. Ordinary(transferProperties(trades[r]))
      BY DEF transferProperties, Tx, Ordinary, Special
    <3> QED BY <3>1, <3>2 DEF RecordsOrdinary
  <2>2. TradeStep => (\E r : acceptTradeRequest(r)) \/ log' = log
    BY TradesTalk DEF TradeStep
  <2> QED BY <2>1, <2>2 DEF RecordsOrdinary
<1>10. Tick => RecordsOrdinary
  BY DEF Tick, money, RecordsOrdinary
<1> QED BY <1>4, <1>5, <1>6, <1>7, <1>8, <1>9, <1>10

\* The row takes back one that counts.
TakesBack(tx) ==
  \E i \in DOMAIN log : tx = Undoing(i) /\ ~Reversed(i) /\ log[i].type # "REVERSAL"

\* The row is that of a bankruptcy.
BooksAway(tx) ==
  \E p \in Active, heir \in Active \cup {Bank} :
    /\ p # heir /\ bankrupt' = bankrupt \cup {p}
    /\ tx = TileTx("BANKRUPTCY_TRANSFER", bankruptcyDelta(p, heir), {}, bankruptcyAssets(p, heir))

\* A step leaves log and wallets alone, or records one row of three kinds.
LEMMA StepRecords ==
    ASSUME TypeInv, TypeInv', [Next]_vars
    PROVE  \/ log' = log /\ wallet' = wallet
           \/ \E tx : Entered(tx) /\ (Ordinary(tx) \/ TakesBack(tx) \/ BooksAway(tx))
<1>1. CASE UNCHANGED vars
  BY <1>1 DEF vars, money
<1>2. CASE BankruptcyStep
  <2>1. PICK p \in Active, heir \in Active \cup {Bank} : declareBankruptcy(p, heir)
    BY <1>2 DEF BankruptcyStep
  <2>2. PICK tx : tx = TileTx("BANKRUPTCY_TRANSFER", bankruptcyDelta(p, heir), {},
                              bankruptcyAssets(p, heir))
    OBVIOUS
  <2>3. Entered(tx)
    BY <2>1, <2>2, BankruptcyEntered
  <2>4. p # heir /\ bankrupt' = bankrupt \cup {p}
    BY <2>1 DEF declareBankruptcy
  <2>5. BooksAway(tx)
    BY <2>2, <2>4 DEF BooksAway
  <2> QED BY <2>3, <2>5
<1>3. CASE ReverseStep
  <2>1. PICK i \in DOMAIN log : reverseTransaction(i)
    BY <1>3 DEF ReverseStep
  <2>2. PICK u : u = Undoing(i)
    OBVIOUS
  <2>3. log' = Append(log, u) /\ ~Reversed(i) /\ log[i].type \notin NonReversible
    BY <2>1, <2>2 DEF reverseTransaction, reversibleTransaction, Commit, Undoing
  <2>4. PICK tx : Entered(tx)
    BY <1>3, ReverseEntered
  <2>5. tx = u
    <3>1. log' = Append(log, tx)
      BY <2>4 DEF Entered
    <3>2. PICK x : x = NextId
      OBVIOUS
    <3>3. log'[x] = tx
      BY <3>1, <3>2, AddedRow
    <3>4. log'[x] = u
      BY <2>3, <3>2, AddedRow
    <3> QED BY <3>3, <3>4
  <2>6. TakesBack(u)
    BY <2>2, <2>3 DEF TakesBack, NonReversible
  <2> QED BY <2>4, <2>5, <2>6
<1>4. CASE \/ MoneyStep \/ RequestStep \/ LoanStep \/ BankLoanStep \/ TileStep
           \/ BuildingStep \/ MortgageStep \/ TradeStep \/ Tick
  <2>1. RecordsOrdinary
    BY <1>4, OrdinarySteps
  <2>2. CASE UNCHANGED money
    BY <2>2 DEF money
  <2>3. ASSUME NEW tx, Entered(tx) PROVE Ordinary(tx)
    <3>1. log' = Append(log, tx)
      BY <2>3 DEF Entered
    <3>2. PICK x : x = NextId
      OBVIOUS
    <3>3. log'[x] = tx /\ x \notin DOMAIN log /\ x \in DOMAIN log'
      BY <3>1, <3>2, AddedRow
    <3>4. log' # log
      BY <3>3
    <3>5. PICK o : log' = Append(log, o) /\ Ordinary(o)
      BY <2>1, <3>4 DEF RecordsOrdinary
    <3>6. log'[x] = o
      BY <3>2, <3>5, AddedRow
    <3> QED BY <3>3, <3>5, <3>6
  <2>4. Next
    BY <1>4 DEF Next
  <2> QED BY <2>2, <2>3, <2>4, BookStep
<1> QED BY <1>1, <1>2, <1>3, <1>4 DEF Next

-----------------------------------------------------------------------------
(* What counts makes the wallets *)

\* What each row did to p, and what some of the rows did.
Effect(p) == [i \in DOMAIN log |-> DeltaOf(i, p)]
EffectOf(p, S) == SumOver(Effect(p), S)

\* Reversals, and they alone, name a row that they take back.
RowsNamed ==
  \A j \in DOMAIN log : /\ log[j].undoes \in DOMAIN log \cup {0}
                        /\ log[j].type = "REVERSAL" <=> log[j].undoes # 0

\* Each wallet is its opening balance and the rows that count.
CountedInv == \A p \in Players : wallet[p] = Opening + EffectOf(p, Counted)

\* The sums of the module are sums of effects.
LEMMA EffectFacts ==
    ASSUME TypeInv, NEW p
    PROVE  /\ IsFiniteSet(DOMAIN log) /\ DOMAIN log = 1 .. Len(log) /\ Len(log) \in Nat
           /\ Counted \subseteq DOMAIN log
           /\ \A i \in DOMAIN log : Effect(p)[i] = DeltaOf(i, p) /\ DeltaOf(i, p) \in Int
           /\ \A S \in SUBSET DOMAIN log :
                /\ IsFiniteSet(S) /\ EffectOf(p, S) \in Int
                /\ SumFunction([i \in S |-> DeltaOf(i, p)]) = EffectOf(p, S)
<1>1. /\ IsFiniteSet(DOMAIN log) /\ DOMAIN log = 1 .. Len(log) /\ Len(log) \in Nat
      /\ \A i \in DOMAIN log : DeltaOf(i, p) \in Int
  BY LogDeltas DEF TypeInv
<1>2. \A i \in DOMAIN log : Effect(p)[i] = DeltaOf(i, p)
  BY DEF Effect
<1>3. ASSUME NEW S \in SUBSET DOMAIN log
      PROVE  /\ IsFiniteSet(S) /\ EffectOf(p, S) \in Int
             /\ SumFunction([i \in S |-> DeltaOf(i, p)]) = EffectOf(p, S)
  <2>1. IsFiniteSet(S)
    BY <1>1, FS_Subset
  <2>2. PICK f : f = [i \in S |-> DeltaOf(i, p)]
    OBVIOUS
  <2>3. PICK g : g = Effect(p)
    OBVIOUS
  <2>4. DOMAIN f = S /\ \A i \in S : f[i] = g[i] /\ f[i] \in Int /\ g[i] \in Int
    BY <1>1, <1>2, <2>2, <2>3
  <2>5. SumFunction(f) = SumOver(f, S)
    BY <2>4, FunctionSum
  <2>6. SumOver(f, S) = SumOver(g, S)
    BY <2>1, <2>4, SumSame
  <2>7. SumOver(g, S) \in Int
    BY <2>1, <2>4, SumType
  <2> QED BY <2>1, <2>2, <2>3, <2>5, <2>6, <2>7 DEF EffectOf
<1>4. Counted \subseteq DOMAIN log
  BY DEF Counted
<1> QED BY <1>1, <1>2, <1>3, <1>4

\* What is added to the log, and which rows count then.
LEMMA RowAdded ==
    ASSUME TypeInv, TypeInv', RowsNamed, NEW tx, Entered(tx), NEW x, x = NextId,
           tx.undoes \in DOMAIN log \cup {0}, tx.type = "REVERSAL" <=> tx.undoes # 0
    PROVE  /\ x \notin DOMAIN log /\ DOMAIN log' = DOMAIN log \cup {x} /\ log'[x] = tx
           /\ \A i \in DOMAIN log : i # 0 /\ i < x /\ log'[i] = log[i]
           /\ RowsNamed'
           /\ tx.undoes = 0 => Counted' = Counted \cup {x}
           /\ tx.undoes # 0 => Counted' = Counted \ {tx.undoes}
<1>1. /\ x \notin DOMAIN log /\ DOMAIN log' = DOMAIN log \cup {x} /\ log'[x] = tx
      /\ \A i \in DOMAIN log : log'[i] = log[i]
  BY AddedRow DEF Entered
<1>2. \A i \in DOMAIN log : i # 0 /\ i < x
  BY LenProperties DEF TypeInv, MoneyTyped, NextId
<1>3. RowsNamed'
  BY <1>1 DEF RowsNamed
<1>4. x # 0 /\ \A i \in DOMAIN log : log[i].undoes # x
  <2>1. x # 0
    BY LenProperties DEF TypeInv, MoneyTyped, NextId
  <2> QED BY <1>1, <2>1 DEF RowsNamed
<1>5. \A i \in DOMAIN log : Reversed(i)' <=> Reversed(i) \/ tx.undoes = i
  BY <1>1 DEF Reversed
<1>6. ~Reversed(x)'
  <2>1. \A j \in DOMAIN log' : log'[j].undoes # x
    BY <1>1, <1>4
  <2> QED BY <2>1 DEF Reversed
<1>7. \A i \in DOMAIN log : i \in Counted' <=> i \in Counted /\ tx.undoes # i
  BY <1>1, <1>5 DEF Counted, countedTransaction
<1>8. x \in Counted' <=> tx.undoes = 0
  BY <1>1, <1>6 DEF Counted, countedTransaction
<1>9. Counted' \subseteq DOMAIN log \cup {x} /\ Counted \subseteq DOMAIN log
  BY <1>1 DEF Counted
<1>10. ASSUME tx.undoes = 0 PROVE Counted' = Counted \cup {x}
  BY <1>2, <1>7, <1>8, <1>9, <1>10
<1>11. ASSUME tx.undoes # 0 PROVE Counted' = Counted \ {tx.undoes}
  BY <1>7, <1>8, <1>9, <1>11
<1> QED BY <1>1, <1>2, <1>3, <1>10, <1>11

\* A wallet follows the rows that count, whether one is added or taken back.
LEMMA CountedFollows ==
    ASSUME TypeInv, TypeInv', RowsNamed, NEW tx, Entered(tx),
           Ordinary(tx) \/ TakesBack(tx) \/ BooksAway(tx),
           NEW p \in Players, wallet[p] = Opening + EffectOf(p, Counted)
    PROVE  RowsNamed' /\ wallet'[p] = Opening + EffectOf(p, Counted)'
<1>1. PICK x : x = NextId
  OBVIOUS
<1>2. /\ tx.undoes \in DOMAIN log \cup {0}
      /\ tx.type = "REVERSAL" <=> tx.undoes # 0
      /\ tx.undoes # 0 => /\ tx.undoes \in Counted
                          /\ tx.delta = [q \in DOMAIN log[tx.undoes].delta |-> -log[tx.undoes].delta[q]]
  <2>1. CASE Ordinary(tx)
    BY <2>1 DEF Ordinary, Special
  <2>2. CASE TakesBack(tx)
    <3>1. PICK i \in DOMAIN log : tx = Undoing(i) /\ ~Reversed(i) /\ log[i].type # "REVERSAL"
      BY <2>2 DEF TakesBack
    <3>2. /\ tx.undoes = i /\ tx.type = "REVERSAL"
          /\ tx.delta = [q \in DOMAIN log[i].delta |-> -log[i].delta[q]]
      BY <3>1 DEF Undoing, TileTx, Tx
    <3>3. i # 0
      BY LenProperties DEF TypeInv, MoneyTyped
    <3>4. i \in Counted
      BY <3>1 DEF Counted, countedTransaction
    <3> QED BY <3>2, <3>3, <3>4
  <2>3. CASE BooksAway(tx)
    BY <2>3 DEF BooksAway, TileTx, Tx
  <2> QED BY <2>1, <2>2, <2>3
<1>3. /\ x \notin DOMAIN log /\ DOMAIN log' = DOMAIN log \cup {x} /\ log'[x] = tx
      /\ \A i \in DOMAIN log : i # 0 /\ i < x /\ log'[i] = log[i]
      /\ RowsNamed'
      /\ tx.undoes = 0 => Counted' = Counted \cup {x}
      /\ tx.undoes # 0 => Counted' = Counted \ {tx.undoes}
  BY <1>1, <1>2, RowAdded
<1>4. PICK f : f = Effect(p)
  OBVIOUS
<1>5. PICK g : g = Effect(p)'
  OBVIOUS
<1>6. PICK C : C = Counted
  OBVIOUS
<1>7. PICK D : D = Counted'
  OBVIOUS
<1>8. C \subseteq DOMAIN log /\ IsFiniteSet(C) /\ x \notin C /\ \A i \in C : f[i] \in Int
  <2>1. Counted \in SUBSET DOMAIN log /\ \A i \in DOMAIN log : Effect(p)[i] \in Int
    BY EffectFacts
  <2>2. IsFiniteSet(Counted)
    BY <2>1, EffectFacts
  <2> QED BY <1>3, <1>4, <1>6, <2>1, <2>2
<1>9. /\ \A i \in DOMAIN log : g[i] = f[i] /\ f[i] = DeltaOf(i, p)
      /\ g[x] = DeltaIn(tx, p)
  <2>1. Effect(p)' = [i \in DOMAIN log' |-> IF p \in DOMAIN log'[i].delta THEN log'[i].delta[p] ELSE 0]
    BY DEF Effect, DeltaOf
  <2>2. \A i \in DOMAIN log : f[i] = DeltaOf(i, p)
    BY <1>4 DEF Effect
  <2>3. \A i \in DOMAIN log : g[i] = f[i]
    BY <1>3, <1>5, <2>1, <2>2 DEF DeltaOf
  <2>4. g[x] = DeltaIn(tx, p)
    BY <1>3, <1>5, <2>1 DEF DeltaIn
  <2> QED BY <2>2, <2>3, <2>4
<1>10. DeltaIn(tx, p) \in Int /\ wallet'[p] = wallet[p] + DeltaIn(tx, p) /\ wallet[p] \in Int
  <2>1. tx.delta \in Deltas
    BY AddedRow DEF Entered
  <2>2. wallet[p] \in Int
    BY DEF TypeInv, MoneyTyped
  <2> QED BY <2>1, <2>2, DeltaFacts DEF DeltaIn, Entered, After
<1>11. SumOver(f, C) \in Int /\ wallet[p] = Opening + SumOver(f, C)
  <2>1. SumOver(f, C) \in Int
    BY <1>8, SumType
  <2> QED BY <1>4, <1>6, <2>1 DEF EffectOf
<1>12. SumOver(g, C) = SumOver(f, C)
  <2>1. \A i \in C : g[i] = f[i] /\ g[i] \in Int
    BY <1>8, <1>9
  <2> QED BY <1>8, <2>1, SumSame
<1>13. SumOver(g, D) = SumOver(g, C) + DeltaIn(tx, p)
  <2>1. CASE tx.undoes = 0
    <3>1. D = C \cup {x} /\ D \ {x} = C /\ x \in D
      BY <1>3, <1>6, <1>7, <1>8, <2>1
    <3>2. IsFiniteSet(D)
      BY <1>8, <3>1, FS_AddElement
    <3>3. \A i \in D : g[i] \in Int
      BY <1>8, <1>9, <1>10, <3>1
    <3>4. SumOver(g, D) = g[x] + SumOver(g, D \ {x})
      BY <3>1, <3>2, <3>3, SumSplit
    <3>5. SumOver(g, D) = g[x] + SumOver(g, C)
      BY <3>1, <3>4, Zenon
    <3> QED BY <1>9, <1>10, <1>11, <1>12, <3>5
  <2>2. CASE tx.undoes # 0
    <3>1. PICK i \in Counted : i = tx.undoes /\ tx.delta = [q \in DOMAIN log[i].delta |-> -log[i].delta[q]]
      BY <1>2, <2>2
    <3>2. D = C \ {i} /\ i \in C
      BY <1>3, <1>6, <1>7, <2>2, <3>1
    <3>3. \A j \in C : g[j] \in Int
      BY <1>8, <1>9
    <3>4. SumOver(g, C) = g[i] + SumOver(g, C \ {i})
      BY <1>8, <3>2, <3>3, SumSplit
    <3>5. SumOver(g, C) = g[i] + SumOver(g, D)
      BY <3>2, <3>4, Zenon
    <3>6. DeltaIn(tx, p) = -g[i]
      <4>1. i \in DOMAIN log /\ g[i] = DeltaOf(i, p)
        BY <1>6, <1>8, <1>9, <3>1
      <4> QED BY <3>1, <4>1 DEF DeltaIn, DeltaOf
    <3>7. SumOver(g, D) \in Int
      <4>1. IsFiniteSet(D) /\ \A j \in D : g[j] \in Int
        BY <1>8, <3>2, <3>3, FS_Subset
      <4> QED BY <4>1, SumType
    <3>8. g[i] \in Int
      BY <3>2, <3>3
    <3> QED BY <3>5, <3>6, <3>7, <3>8
  <2> QED BY <2>1, <2>2
<1>14. EffectOf(p, Counted)' = SumOver(g, D)
  BY <1>5, <1>7 DEF EffectOf
<1>15. wallet'[p] = Opening + SumOver(g, D)
  BY <1>10, <1>11, <1>12, <1>13, LedgerAssumption
<1> QED BY <1>3, <1>14, <1>15

\* Every step keeps the wallets on what counts.
LEMMA CountedKept ==
    TypeInv /\ TypeInv' /\ RowsNamed /\ CountedInv /\ [Next]_vars => RowsNamed' /\ CountedInv'
<1> SUFFICES ASSUME TypeInv, TypeInv', RowsNamed, CountedInv, [Next]_vars
             PROVE  RowsNamed' /\ CountedInv'
  OBVIOUS
<1>1. CASE log' = log /\ wallet' = wallet
  <2>1. Counted' = Counted
    BY <1>1 DEF Counted, countedTransaction, Reversed
  <2>2. \A p : EffectOf(p, Counted)' = EffectOf(p, Counted)
    BY <1>1, <2>1 DEF EffectOf, Effect, DeltaOf
  <2> QED BY <1>1, <2>2 DEF RowsNamed, CountedInv
<1>2. ASSUME NEW tx, Entered(tx), Ordinary(tx) \/ TakesBack(tx) \/ BooksAway(tx)
      PROVE  RowsNamed' /\ CountedInv'
  <2>1. ASSUME NEW p \in Players PROVE RowsNamed' /\ wallet'[p] = Opening + EffectOf(p, Counted)'
    BY <1>2, CountedFollows DEF CountedInv
  <2>2. \E p : p \in Players
    BY LedgerAssumption
  <2> QED BY <2>1, <2>2 DEF CountedInv
<1> QED BY <1>1, <1>2, StepRecords

-----------------------------------------------------------------------------
(* Who a bankruptcy takes from *)

\* Whoever a bankruptcy takes money from, without tiles in return, is out of the
\* game, and no later row names them.
TakenFromTheBankrupt ==
  \A i \in OfType("BANKRUPTCY_TRANSFER"), p \in Players :
    DeltaOf(i, p) < 0 /\ ~TookOver(p) =>
      p \in bankrupt /\ \A j \in DOMAIN log : i < j => p \notin DOMAIN log[j].delta

\* The bank takes no more of a bankrupt than there is.
LEMMA BankTakesWhatIsThere ==
    ASSUME TypeInv, LoanInv, NEW p \in Players
    PROVE  BankTake(p) \in Nat /\ BankTake(p) <= wallet[p] + proceeds(p)
<1> DEFINE f == [s \in Settlements(p) |-> s.amount + s.interest]
<1>1. PICK cash \in Nat : cash = wallet[p] + proceeds(p)
  BY SettlementsFacts
<1>2. /\ BankTake(p) \in Nat /\ bankLoanOf(p) \subseteq DOMAIN loans
      /\ Settlements(p) = {settleBankLoan(l, cash) : l \in bankLoanOf(p)}
  BY <1>1, SettlementsFacts DEF Settlements
<1>3. BankTake(p) = SumFunction(f)
  BY DEF BankTake
<1>4. CASE bankLoanOf(p) = {}
  <2>1. DOMAIN f = {}
    BY <1>2, <1>4
  <2> HIDE DEF f
  <2>2. SumFunction(f) = 0
    BY <2>1, FunctionSumEmpty
  <2> QED BY <1>1, <1>2, <1>3, <2>2
<1>5. ASSUME NEW l \in bankLoanOf(p) PROVE BankTake(p) <= cash
  <2>1. bankLoanOf(p) = {l}
    BY DEF bankLoanOf, LoanInv, OneBankLoan
  <2>2. PICK s : s = settleBankLoan(l, cash)
    OBVIOUS
  <2>3. Settlements(p) = {s}
    BY <1>2, <2>1, <2>2
  <2>4. s.amount \in Nat /\ s.interest \in Nat /\ s.amount + s.interest <= cash
    BY <1>1, <1>2, <2>2, SettlementFacts
  <2>5. f \in [{s} -> Int] /\ f[s] = s.amount + s.interest
    BY <2>3, <2>4
  <2> HIDE DEF f
  <2>6. SumFunction(f) = f[s]
    BY <2>5, FunctionSumOne
  <2> QED BY <1>3, <2>4, <2>5, <2>6
<1> QED BY <1>1, <1>2, <1>4, <1>5

\* A creditor pays only for tiles they are given.
LEMMA HeirPaysForTiles ==
    ASSUME TypeInv, LoanInv, NEW p \in Players, NEW heir \in Players, heirNet(p, heir) < 0
    PROVE  Owned(p) # {}
<1> SUFFICES ASSUME Owned(p) = {} PROVE FALSE
  OBVIOUS
<1>1. heirFee(p, heir) = 0
  <2>1. {u \in Owned(p) : registry[u].mortgaged} = {}
    OBVIOUS
  <2>2. FeesOf(Owned(p)) = 0
    BY <2>1, FunctionSumEmpty DEF FeesOf
  <2>3. heir # Bank
    BY LedgerAssumption
  <2> QED BY <2>2, <2>3 DEF heirFee
<1>2. wallet[p] \in Nat /\ proceeds(p) \in Nat
  BY ProceedsNat DEF TypeInv, MoneyTyped
<1>3. BankTake(p) \in Nat /\ BankTake(p) <= wallet[p] + proceeds(p)
  BY BankTakesWhatIsThere
<1>4. heirNet(p, heir) = wallet[p] + proceeds(p) - BankTake(p) - heirFee(p, heir)
  BY DEF heirNet
<1> QED BY <1>1, <1>2, <1>3, <1>4

\* The row of a bankruptcy takes from the bankrupt, or from a creditor with tiles.
LEMMA TakenNow ==
    ASSUME TypeInv, TypeInv', LoanInv, NEW tx, Entered(tx), BooksAway(tx), NEW q \in Players,
           DeltaIn(tx, q) < 0
    PROVE  q \in bankrupt' \/ TookOver(q)'
<1>1. PICK p \in Active, heir \in Active \cup {Bank} :
        /\ p # heir /\ bankrupt' = bankrupt \cup {p}
        /\ tx = TileTx("BANKRUPTCY_TRANSFER", bankruptcyDelta(p, heir), {}, bankruptcyAssets(p, heir))
  BY DEF BooksAway
<1>2. /\ tx.type = "BANKRUPTCY_TRANSFER" /\ tx.delta = bankruptcyDelta(p, heir)
      /\ tx.changes = bankruptcyAssets(p, heir)
  BY <1>1 DEF TileTx, Tx
<1>3. q \in DOMAIN tx.delta /\ tx.delta[q] < 0
  BY DEF DeltaIn
<1>4. CASE q = p
  BY <1>1, <1>4
<1>5. CASE q # p
  <2>1. q = heir /\ heirNet(p, heir) < 0 /\ heir # Bank
    BY <1>2, <1>3, <1>5 DEF bankruptcyDelta
  <2>2. PICK t : t \in Owned(p)
    <3>1. p \in Players /\ heir \in Players
      BY <2>1 DEF Active
    <3> QED BY <2>1, <3>1, HeirPaysForTiles
  <2>3. t \in DOMAIN tx.changes /\ tx.changes[t].after = [registry[t] EXCEPT !.owner = heir, !.houses = 0]
    <3>1. PICK given : given = [registry[t] EXCEPT !.owner = heir, !.houses = 0]
      OBVIOUS
    <3>2. t \in DOMAIN bankruptcyAssets(p, heir) /\ bankruptcyAssets(p, heir)[t] = Change(registry[t], given)
      BY <2>1, <2>2, <3>1, Zenon DEF bankruptcyAssets
    <3>3. tx.changes[t].after = given
      BY <1>2, <3>2 DEF Change
    <3> QED BY <1>2, <3>1, <3>2, <3>3
  <2>4. tx.changes[t].after.owner = heir
    <3>1. registry[t] \in TileState
      BY <2>2, RegistryFacts DEF Owned, TypeInv
    <3> QED BY <2>3, <3>1 DEF TileState
  <2>5. PICK x : x = NextId
    OBVIOUS
  <2>6. x \in DOMAIN log' /\ log'[x] = tx
    BY <2>5, AddedRow DEF Entered
  <2>7. TookOver(q)'
    BY <1>2, <2>1, <2>3, <2>4, <2>6 DEF TookOver, OfType
  <2> QED BY <2>7
<1> QED BY <1>4, <1>5

\* Every step keeps it so.
LEMMA TakenKept ==
    TypeInv /\ TypeInv' /\ LoanInv /\ TakenFromTheBankrupt /\ [Next]_vars => TakenFromTheBankrupt'
<1> SUFFICES ASSUME TypeInv, TypeInv', LoanInv, TakenFromTheBankrupt, [Next]_vars
             PROVE  TakenFromTheBankrupt'
  OBVIOUS
<1>1. bankrupt \subseteq bankrupt'
  BY BankruptForGood
<1>2. CASE log' = log
  BY <1>1, <1>2 DEF TakenFromTheBankrupt, OfType, DeltaOf, TookOver
<1>3. ASSUME NEW tx, Entered(tx), Ordinary(tx) \/ TakesBack(tx) \/ BooksAway(tx)
      PROVE  TakenFromTheBankrupt'
  <2>1. PICK x : x = NextId
    OBVIOUS
  <2>2. /\ x \notin DOMAIN log /\ DOMAIN log' = DOMAIN log \cup {x} /\ log'[x] = tx
        /\ \A i \in DOMAIN log : log'[i] = log[i]
    BY <1>3, <2>1, AddedRow DEF Entered
  <2>3. x \in Nat /\ \A i \in DOMAIN log : i \in Nat /\ i < x
    BY <2>1, LenProperties DEF TypeInv, MoneyTyped, NextId
  <2>4. ASSUME NEW i \in OfType("BANKRUPTCY_TRANSFER")', NEW q \in Players,
               DeltaOf(i, q)' < 0, ~TookOver(q)', NEW j \in DOMAIN log', i < j
        PROVE  q \notin DOMAIN log'[j].delta
    <3>1. j \in DOMAIN log \/ j = x
      BY <2>2
    <3>2. i \in DOMAIN log
      BY <2>2, <2>3, <2>4 DEF OfType
    <3>3. i \in OfType("BANKRUPTCY_TRANSFER") /\ DeltaOf(i, q) < 0
      BY <2>2, <2>4, <3>2 DEF OfType, DeltaOf
    <3>4. ~TookOver(q)
      BY <2>2, <2>4 DEF TookOver, OfType
    <3>5. q \in bankrupt /\ \A k \in DOMAIN log : i < k => q \notin DOMAIN log[k].delta
      BY <3>3, <3>4 DEF TakenFromTheBankrupt
    <3>6. q \notin DOMAIN tx.delta
      BY <1>3, <3>5 DEF Entered, Active
    <3> QED BY <2>2, <2>4, <3>1, <3>5, <3>6
  <2>5. ASSUME NEW i \in OfType("BANKRUPTCY_TRANSFER")', NEW q \in Players,
               DeltaOf(i, q)' < 0, ~TookOver(q)'
        PROVE  q \in bankrupt'
    <3>1. CASE i \in DOMAIN log
      <4>1. i \in OfType("BANKRUPTCY_TRANSFER") /\ DeltaOf(i, q) < 0
        BY <2>2, <2>5, <3>1 DEF OfType, DeltaOf
      <4>2. ~TookOver(q)
        BY <2>2, <2>5 DEF TookOver, OfType
      <4> QED BY <1>1, <4>1, <4>2 DEF TakenFromTheBankrupt
    <3>2. CASE i = x
      <4>1. tx.type = "BANKRUPTCY_TRANSFER" /\ DeltaIn(tx, q) < 0
        BY <2>2, <2>5, <3>2 DEF OfType, DeltaOf, DeltaIn
      <4>2. BooksAway(tx)
        BY <1>3, <4>1 DEF Ordinary, Special, TakesBack, Undoing, TileTx, Tx
      <4> QED BY <1>3, <2>5, <4>1, <4>2, TakenNow
    <3> QED BY <2>2, <2>5, <3>1, <3>2 DEF OfType
  <2> QED BY <2>4, <2>5 DEF TakenFromTheBankrupt
<1> QED BY <1>2, <1>3, StepRecords

-----------------------------------------------------------------------------
(* The statistics add up *)

LoanRowsCounted == {j \in Counted : log[j].type \in LoanTypes}

\* Income and expense are what moved a player's money, loans aside.
LEMMA IncomeAndExpense ==
    ASSUME TypeInv, NEW p
    PROVE  /\ totalReceived(p) \in Int /\ totalPaid(p) \in Int
           /\ totalReceived(p) - totalPaid(p) = EffectOf(p, MovedBy(p))
           /\ MovedBy(p) \subseteq Counted \ LoanRowsCounted
<1>1. PICK S : S = MovedBy(p)
  OBVIOUS
<1>2. PICK paid : paid = [i \in S |-> Max({0, -log[i].delta[p]})]
  OBVIOUS
<1>3. PICK received : received = [i \in S |-> Max({0, log[i].delta[p]})]
  OBVIOUS
<1>4. S \subseteq DOMAIN log /\ S \subseteq Counted \ LoanRowsCounted
  BY <1>1 DEF MovedBy, Counted, LoanRowsCounted
<1>5. PICK f : f = Effect(p)
  OBVIOUS
<1>6. IsFiniteSet(S)
  BY <1>4, EffectFacts
<1>7. ASSUME NEW i \in S
      PROVE  paid[i] \in Int /\ received[i] \in Int /\ f[i] = received[i] - paid[i]
  <2>1. PICK d \in Int : d = log[i].delta[p] /\ f[i] = d
    <3>1. i \in DOMAIN log /\ p \in DOMAIN log[i].delta
      BY <1>1 DEF MovedBy, Counted
    <3>2. DeltaOf(i, p) = log[i].delta[p] /\ f[i] = DeltaOf(i, p) /\ DeltaOf(i, p) \in Int
      BY <1>5, <3>1, EffectFacts DEF DeltaOf
    <3> QED BY <3>2
  <2>2. /\ Max({0, d}) = IF d >= 0 THEN d ELSE 0
        /\ Max({0, -d}) = IF -d >= 0 THEN -d ELSE 0
    <3>1. -d \in Int
      OBVIOUS
    <3> QED BY <3>1, MaxWithZero
  <2>3. paid[i] = Max({0, -d}) /\ received[i] = Max({0, d})
    BY <1>2, <1>3, <2>1
  <2> QED BY <2>1, <2>2, <2>3
<1>8. SumOver(f, S) = SumOver(received, S) - SumOver(paid, S)
  BY <1>6, <1>7, SumDifference
<1>9. SumOver(received, S) \in Int /\ SumOver(paid, S) \in Int
  BY <1>6, <1>7, SumType
<1>10. DOMAIN paid = S /\ DOMAIN received = S
  BY <1>2, <1>3
<1>11. totalPaid(p) = SumOver(paid, S) /\ totalReceived(p) = SumOver(received, S)
  BY <1>1, <1>2, <1>3, <1>10, FunctionSum DEF totalPaid, totalReceived
<1> QED BY <1>1, <1>4, <1>5, <1>8, <1>9, <1>11 DEF EffectOf

\* With the loans they make the wallet.
LEMMA TotalsMakeTheWallet ==
    ASSUME TypeInv, CountedInv, NEW p \in Players
    PROVE  wallet[p] = Opening + totalReceived(p) - totalPaid(p)
             + SumFunction([i \in LoanRowsCounted |-> DeltaOf(i, p)])
<1>1. PICK f : f = Effect(p)
  OBVIOUS
<1>2. PICK C : C = Counted
  OBVIOUS
<1>3. PICK L : L = LoanRowsCounted
  OBVIOUS
<1>4. PICK M : M = MovedBy(p)
  OBVIOUS
<1>5. C \subseteq DOMAIN log /\ L \subseteq C /\ M \subseteq C \ L
  BY <1>2, <1>3, <1>4, EffectFacts, IncomeAndExpense DEF LoanRowsCounted
<1>6. IsFiniteSet(C) /\ IsFiniteSet(C \ L) /\ L \in SUBSET DOMAIN log /\ C \ L \in SUBSET DOMAIN log
  BY <1>5, EffectFacts
<1>7. \A i \in C : f[i] \in Int /\ f[i] = DeltaOf(i, p)
  BY <1>1, <1>5, EffectFacts
<1>8. SumOver(f, C) = SumOver(f, L) + SumOver(f, C \ L)
  BY <1>5, <1>6, <1>7, SumPart
<1>9. SumOver(f, M) = SumOver(f, C \ L)
  <2>1. ASSUME NEW i \in (C \ L) \ M PROVE f[i] = 0
    <3>1. i \in Counted /\ log[i].type \notin LoanTypes
      BY <1>2, <1>3, <2>1 DEF LoanRowsCounted
    <3>2. p \notin DOMAIN log[i].delta
      BY <1>4, <2>1, <3>1 DEF MovedBy
    <3> QED BY <1>7, <2>1, <3>2 DEF DeltaOf
  <2>2. M \in SUBSET (C \ L) /\ \A i \in C \ L : f[i] \in Int
    BY <1>5, <1>7
  <2> QED BY <1>6, <2>1, <2>2, SumOfRest
<1>10. wallet[p] = Opening + SumOver(f, C)
  BY <1>1, <1>2 DEF CountedInv, EffectOf
<1>11. SumFunction([i \in LoanRowsCounted |-> DeltaOf(i, p)]) = SumOver(f, L)
  BY <1>1, <1>3, <1>6, EffectFacts DEF EffectOf
<1>12. totalReceived(p) - totalPaid(p) = SumOver(f, M)
  BY <1>1, <1>4, IncomeAndExpense DEF EffectOf
<1>13. SumOver(f, L) \in Int /\ SumOver(f, C \ L) \in Int
  BY <1>1, <1>6, EffectFacts DEF EffectOf
<1>14. totalReceived(p) \in Int /\ totalPaid(p) \in Int /\ Opening \in Int
  BY IncomeAndExpense, LedgerAssumption
<1> QED BY <1>8, <1>9, <1>10, <1>11, <1>12, <1>13, <1>14

\* The rows that p's balance after k steps of the chart has in it.
Upto(k) == {j \in Entries : stepOf(Entries, j) <= k}

\* What the counted rows outside of a set leave alone, the set tells in full.
LEMMA EffectOfEntries ==
    ASSUME TypeInv, NEW p, NEW S \in SUBSET Counted, \A i \in Counted \ S : p \notin DOMAIN log[i].delta
    PROVE  EffectOf(p, S) = EffectOf(p, Counted)
<1>1. PICK f : f = Effect(p)
  OBVIOUS
<1>2. Counted \in SUBSET DOMAIN log
  BY EffectFacts
<1>3. IsFiniteSet(Counted) /\ \A i \in Counted : f[i] \in Int /\ f[i] = DeltaOf(i, p)
  BY <1>1, <1>2, EffectFacts
<1>4. \A i \in Counted \ S : f[i] = 0
  BY <1>3 DEF DeltaOf
<1>5. SumOver(f, S) = SumOver(f, Counted)
  BY <1>3, <1>4, SumOfRest
<1> QED BY <1>1, <1>5 DEF EffectOf

\* Entries are rows that count, and those left out name nobody.
LEMMA EntriesFacts ==
    ASSUME TypeInv
    PROVE  /\ Entries \subseteq Counted /\ Entries \subseteq Nat /\ IsFiniteSet(Entries)
           /\ Cardinality(Entries) \in Nat
           /\ \A i \in Counted \ Entries : \A p : p \notin DOMAIN log[i].delta
<1>1. Entries \subseteq Counted /\ Counted \subseteq DOMAIN log
  BY EffectFacts DEF Entries
<1>2. DOMAIN log \subseteq Nat
  BY LenProperties DEF TypeInv, MoneyTyped
<1>3. Entries \in SUBSET DOMAIN log
  BY <1>1
<1>4. IsFiniteSet(Entries)
  BY <1>3, EffectFacts
<1>5. Cardinality(Entries) \in Nat
  BY <1>4, FS_CardinalityType
<1>6. \A i \in Counted \ Entries : \A p : p \notin DOMAIN log[i].delta
  BY DEF Entries
<1> QED BY <1>1, <1>2, <1>4, <1>5, <1>6

\* The points of a line.
LEMMA LineFacts ==
    ASSUME TypeInv, NEW p
    PROVE  LET N == Points(Cardinality(Entries))
               at == keep(Cardinality(Entries))
               line == balances(Entries, p)
           IN /\ N \in Nat /\ N >= 1 /\ DOMAIN line = 1 .. N /\ Len(line) = N
              /\ \A n \in 1 .. N : line[n] = Opening + EffectOf(p, Upto(at[n]))
<1>1. PICK N \in Nat : N = Points(Cardinality(Entries)) /\ N >= 1
  BY EntriesFacts, PointsFacts
<1>2. PICK at : at = keep(Cardinality(Entries))
  OBVIOUS
<1>3. DOMAIN at = 1 .. N
  BY <1>1, <1>2, EntriesFacts, KeepFacts
<1>4. PICK line : line = balances(Entries, p)
  OBVIOUS
<1>5. line = [n \in 1 .. N |-> running(Entries, at[n], p)]
  BY <1>2, <1>3, <1>4 DEF balances
<1>6. ASSUME NEW n \in 1 .. N PROVE line[n] = Opening + EffectOf(p, Upto(at[n]))
  <2>1. Upto(at[n]) \in SUBSET DOMAIN log
    BY EntriesFacts, EffectFacts DEF Upto
  <2>2. SumFunction([i \in Upto(at[n]) |-> DeltaOf(i, p)]) = EffectOf(p, Upto(at[n]))
    BY <2>1, EffectFacts
  <2>3. line[n] = running(Entries, at[n], p)
    BY <1>5
  <2> QED BY <2>2, <2>3 DEF running, Upto
<1>7. DOMAIN line = 1 .. N /\ Len(line) = N
  <2>1. line \in Seq({running(Entries, at[n], p) : n \in 1 .. N})
    BY <1>5
  <2>2. DOMAIN line = 1 .. N
    BY <1>5
  <2> QED BY <1>1, <2>1, <2>2, LenProperties
<1> QED BY <1>1, <1>2, <1>4, <1>6, <1>7

\* A line starts at the opening balance and ends at the wallet.
LEMMA LineEnds ==
    ASSUME TypeInv, CountedInv, NEW p \in Players
    PROVE  LET line == balances(Entries, p)
           IN line[1] = Opening /\ line[Len(line)] = wallet[p]
<1>1. PICK N \in Nat : N = Points(Cardinality(Entries)) /\ N >= 1
  BY EntriesFacts, PointsFacts
<1>2. PICK at : at = keep(Cardinality(Entries))
  OBVIOUS
<1>3. PICK line : line = balances(Entries, p)
  OBVIOUS
<1>4. Len(line) = N /\ \A n \in 1 .. N : line[n] = Opening + EffectOf(p, Upto(at[n]))
  BY <1>1, <1>2, <1>3, LineFacts
<1>5. at[1] = 0 /\ at[N] = Cardinality(Entries)
  BY <1>1, <1>2, EntriesFacts, KeepFacts
<1>6. \A j \in Entries : /\ stepOf(Entries, j) \in Nat /\ 1 <= stepOf(Entries, j)
                         /\ stepOf(Entries, j) <= Cardinality(Entries)
  BY EntriesFacts, StepFacts
<1>7. Upto(0) = {}
  BY <1>6 DEF Upto
<1>8. Upto(Cardinality(Entries)) = Entries
  BY <1>6 DEF Upto
<1>9. EffectOf(p, {}) = 0
  BY SumEmpty DEF EffectOf
<1>10. EffectOf(p, Entries) = EffectOf(p, Counted)
  BY EntriesFacts, EffectOfEntries
<1>11. line[1] = Opening
  <2>1. line[1] = Opening + EffectOf(p, Upto(at[1]))
    BY <1>1, <1>4
  <2>2. EffectOf(p, Upto(at[1])) = 0
    BY <1>5, <1>7, <1>9, Zenon
  <2> QED BY <2>1, <2>2, LedgerAssumption
<1>12. line[N] = wallet[p]
  <2>1. line[N] = Opening + EffectOf(p, Upto(at[N]))
    BY <1>1, <1>4
  <2> QED BY <1>5, <1>8, <1>10, <2>1 DEF CountedInv
<1> QED BY <1>3, <1>4, <1>11, <1>12

\* A line that is cut short is a bankrupt's, and at zero from there on.
LEMMA CutLines ==
    ASSUME TypeInv, CountedInv, HoldInv, TakenFromTheBankrupt,
           NEW p \in Players, ~TookOver(p), NEW n \in endIndex(Entries, p)
    PROVE  /\ p \in bankrupt
           /\ LET line == balances(Entries, p) IN \A m \in n .. Len(line) : line[m] = 0
<1>1. PICK N \in Nat : N = Points(Cardinality(Entries)) /\ N >= 1
  BY EntriesFacts, PointsFacts
<1>2. PICK at : at = keep(Cardinality(Entries))
  OBVIOUS
<1>3. PICK line : line = balances(Entries, p)
  OBVIOUS
<1>4. Len(line) = N /\ \A m \in 1 .. N : line[m] = Opening + EffectOf(p, Upto(at[m]))
  BY <1>1, <1>2, <1>3, LineFacts
<1>5. /\ DOMAIN at = 1 .. N /\ \A m \in 1 .. N : at[m] \in Nat
      /\ \A k, m \in 1 .. N : k <= m => at[k] <= at[m]
  BY <1>1, <1>2, EntriesFacts, KeepFacts
<1>6. PICK k \in bankruptAt(Entries, p) : n \in 1 .. N /\ at[n] >= k
  BY <1>2, <1>5 DEF endIndex
<1>7. PICK i \in Entries : /\ k = stepOf(Entries, i)
                           /\ log[i].type = "BANKRUPTCY_TRANSFER" /\ DeltaOf(i, p) < 0
  BY <1>6 DEF bankruptAt
<1>8. i \in OfType("BANKRUPTCY_TRANSFER")
  BY <1>7, EntriesFacts, EffectFacts DEF OfType
<1>9. p \in bankrupt /\ \A j \in DOMAIN log : i < j => p \notin DOMAIN log[j].delta
  BY <1>7, <1>8 DEF TakenFromTheBankrupt
<1>10. wallet[p] = 0
  BY <1>9 DEF HoldInv, WalletsHeld
<1>11. ASSUME NEW m \in n .. N PROVE line[m] = 0
  <2>1. m \in 1 .. N /\ n <= m
    BY <1>6
  <2>2. at[m] \in Nat /\ k \in Nat /\ k <= at[m]
    <3>1. at[n] <= at[m] /\ at[n] \in Nat /\ at[m] \in Nat
      BY <1>5, <1>6, <2>1
    <3>2. k \in Nat
      BY <1>7, EntriesFacts, StepFacts
    <3> QED BY <1>6, <3>1, <3>2
  <2>3. ASSUME NEW j \in Entries, j \notin Upto(at[m]) PROVE p \notin DOMAIN log[j].delta
    <3>1. i \in Nat /\ j \in Nat /\ j \in DOMAIN log
      BY EntriesFacts, EffectFacts
    <3>2. stepOf(Entries, j) \in Nat /\ ~(stepOf(Entries, j) <= at[m])
      BY <2>3, EntriesFacts, StepFacts DEF Upto
    <3>3. j <= i => stepOf(Entries, j) <= stepOf(Entries, i)
      BY EntriesFacts, StepFacts
    <3>4. i < j
      BY <1>7, <2>2, <3>1, <3>2, <3>3
    <3> QED BY <1>9, <3>1, <3>4
  <2>4. Upto(at[m]) \subseteq Entries
    BY DEF Upto
  <2>5. EffectOf(p, Upto(at[m])) = EffectOf(p, Counted)
    <3>1. \A j \in Counted \ Upto(at[m]) : p \notin DOMAIN log[j].delta
      BY <2>3, EntriesFacts
    <3>2. Upto(at[m]) \in SUBSET Counted
      BY <2>4, EntriesFacts
    <3> QED BY <3>1, <3>2, EffectOfEntries
  <2>6. line[m] = Opening + EffectOf(p, Counted)
    BY <1>4, <2>1, <2>5
  <2> QED BY <1>10, <2>6 DEF CountedInv
<1> QED BY <1>3, <1>4, <1>9, <1>11

\* The summary of a game adds up, whatever was paid, lent, reversed or lost in it and
\* however long it was (StatisticsAddUp; calculate and calculateBalanceSeries): income,
\* expense and loans make the wallet, every line of the chart runs from the opening
\* balance to the wallet, and one that is cut short is a bankrupt's at zero, unless the
\* player paid for the mortgages of somebody else's bankruptcy.
THEOREM StatisticsAlwaysAddUp == Spec => []StatisticsAddUp
<1>1. Init => RowsNamed /\ CountedInv /\ TakenFromTheBankrupt
  <2> SUFFICES ASSUME Init PROVE RowsNamed /\ CountedInv /\ TakenFromTheBankrupt
    OBVIOUS
  <2>1. DOMAIN log = {} /\ \A p \in Players : wallet[p] = Opening
    BY DEF Init
  <2>2. Counted = {}
    BY <2>1 DEF Counted
  <2>3. \A p : EffectOf(p, Counted) = 0
    BY <2>2, SumEmpty DEF EffectOf
  <2>4. CountedInv
    BY <2>1, <2>3, LedgerAssumption DEF CountedInv
  <2> QED BY <2>1, <2>4 DEF RowsNamed, TakenFromTheBankrupt, OfType
<1>2. Spec => []TypeInv
  BY BankTypes, PTL
<1>3. Spec => []HoldInv
  BY <1>2, InitHolds, HoldKept, PTL DEF Spec
<1>4. Spec => []LoanInv
  BY <1>2, InitLoans, LoanInvKept, PTL DEF Spec
<1>5. Spec => [](RowsNamed /\ CountedInv)
  BY <1>1, <1>2, CountedKept, PTL DEF Spec
<1>6. Spec => []TakenFromTheBankrupt
  BY <1>1, <1>2, <1>4, TakenKept, PTL DEF Spec
<1>7. TypeInv /\ HoldInv /\ CountedInv /\ TakenFromTheBankrupt => StatisticsAddUp
  <2> SUFFICES ASSUME TypeInv, HoldInv, CountedInv, TakenFromTheBankrupt PROVE StatisticsAddUp
    OBVIOUS
  <2> DEFINE Adds(p) ==
        LET line == balances(Entries, p)
        IN /\ wallet[p] = Opening + totalReceived(p) - totalPaid(p)
                + SumFunction([i \in {j \in Counted : log[j].type \in LoanTypes} |-> DeltaOf(i, p)])
           /\ line[1] = Opening /\ line[Len(line)] = wallet[p]
           /\ ~TookOver(p) =>
                \A n \in endIndex(Entries, p) :
                  p \in bankrupt /\ \A m \in n .. Len(line) : line[m] = 0
  <2>1. ASSUME NEW p \in Players PROVE Adds(p)
    <3>1. wallet[p] = Opening + totalReceived(p) - totalPaid(p)
             + SumFunction([i \in {j \in Counted : log[j].type \in LoanTypes} |-> DeltaOf(i, p)])
      BY TotalsMakeTheWallet DEF LoanRowsCounted
    <3>2. /\ balances(Entries, p)[1] = Opening
          /\ balances(Entries, p)[Len(balances(Entries, p))] = wallet[p]
      BY LineEnds
    <3>3. ASSUME ~TookOver(p), NEW n \in endIndex(Entries, p)
          PROVE  /\ p \in bankrupt
                 /\ \A m \in n .. Len(balances(Entries, p)) : balances(Entries, p)[m] = 0
      BY <3>3, CutLines
    <3> QED BY <3>1, <3>2, <3>3
  <2>2. StatisticsAddUp <=> \A p \in Players : Adds(p)
    BY Zenon DEF StatisticsAddUp
  <2> QED BY <2>1, <2>2
<1> QED BY <1>2, <1>3, <1>5, <1>6, <1>7, PTL

-----------------------------------------------------------------------------
(* What the forms show *)

\* Nobody lends to themselves.
LoansApart == \A l \in DOMAIN loans : loans[l].lender # loans[l].borrower

\* A mortgage is worth something.
MortgagesCount == \A m \in DOMAIN mortgages : mortgages[m].value > 0

\* No step makes a loan of somebody to themselves: a new one comes from a request
\* of another, and who inherits one does not owe it.
LEMMA LoansStayApart ==
    ASSUME TypeInv, RequestInv, LoansApart, [Next]_vars
    PROVE  LoansApart'
<1>1. ASSUME NEW row, row.lender # row.borrower, loans' = Insert(loans, row) PROVE LoansApart'
  <2>1. PICK x : x = NextId
    OBVIOUS
  <2>2. /\ DOMAIN loans' = DOMAIN loans \cup {x} /\ loans'[x] = row
        /\ \A l \in DOMAIN loans : loans'[l] = loans[l]
    BY <1>1, <2>1, LoanAdded
  <2> QED BY <1>1, <2>2 DEF LoansApart
<1>2. ASSUME NEW r \in DOMAIN requests, NEW later, acceptLoan(r, later) PROVE LoansApart'
  <2> DEFINE row == Loan(requests[r].payer, requests[r].recipient, requests[r].amount)
  <2>1. row.lender # row.borrower
    BY DEF Loan, RequestInv, RequestSound
  <2>2. loans' = Insert(loans, row)
    BY <1>2 DEF acceptLoan
  <2> HIDE DEF row
  <2> QED BY <1>1, <2>1, <2>2
<1>3. ASSUME NEW p \in Active, NEW a, NEW ack, issueBankLoan(p, a, ack) PROVE LoansApart'
  <2> DEFINE row == Loan(Bank, p, a)
  <2>1. row.lender # row.borrower
    BY LedgerAssumption DEF Loan, Active
  <2>2. loans' = Insert(loans, row)
    BY <1>3 DEF issueBankLoan
  <2> HIDE DEF row
  <2> QED BY <1>1, <2>1, <2>2
<1>4. ASSUME NEW l \in DOMAIN loans, NEW a \in Nat, loans' = Repaid(l, a) PROVE LoansApart'
  <2>1. /\ DOMAIN loans' = DOMAIN loans
        /\ \A k \in DOMAIN loans \ {l} : loans'[k] = loans[k]
        /\ loans'[l].lender = loans[l].lender /\ loans'[l].borrower = loans[l].borrower
    BY <1>4, LoanReduced
  <2> QED BY <2>1 DEF LoansApart
<1>5. ASSUME NEW l \in ActiveLoans, NEW a \in Amounts, repayLoan(l, a) PROVE LoansApart'
  <2>1. l \in DOMAIN loans /\ a \in Nat /\ loans' = Repaid(l, a)
    BY <1>5, AmountsAssumption DEF repayLoan, ActiveLoans
  <2> QED BY <1>4, <2>1
<1>6. ASSUME NEW l \in BankLoans, NEW rate, repayBankLoan(l, rate) PROVE LoansApart'
  <2> DEFINE owes == loans[l].principal - loans[l].repaid
  <2>1. l \in DOMAIN loans /\ owes \in Nat
    BY LoanFacts DEF BankLoans, ActiveLoans, TypeInv
  <2>2. loans' = Repaid(l, owes)
    BY <1>6 DEF repayBankLoan
  <2> HIDE DEF owes
  <2> QED BY <1>4, <2>1, <2>2
<1>7. ASSUME NEW p \in Active, NEW heir \in Active \cup {Bank}, declareBankruptcy(p, heir)
      PROVE  LoansApart'
  <2>1. loans' = [l \in DOMAIN loans |-> LoanAfter(p, heir, l)]
    BY <1>7, BankruptLoanFacts DEF declareBankruptcy
  <2>2. ASSUME NEW l \in DOMAIN loans PROVE loans'[l].lender # loans'[l].borrower
    <3>1. loans'[l] = LoanAfter(p, heir, l) /\ loans[l] \in LoanRows
      BY <2>1, LoanFacts DEF TypeInv
    <3>2. loans[l].lender # loans[l].borrower
      BY DEF LoansApart
    <3>3. PICK paid : paid = PaidFor(p, l)
      OBVIOUS
    <3>4. PICK s : s = IF loans[l].repaid + paid = loans[l].principal
                         THEN "REPAID" ELSE "WRITTEN_OFF"
      OBVIOUS
    <3>5. \/ loans'[l] = loans[l]
          \/ loans'[l] = [loans[l] EXCEPT !.repaid = loans[l].repaid + paid, !.state = s]
          \/ heir # loans[l].borrower /\ loans'[l] = [loans[l] EXCEPT !.lender = heir]
          \/ loans'[l] = [loans[l] EXCEPT !.state = "WRITTEN_OFF"]
      BY <3>1, <3>3, <3>4 DEF LoanAfter
    <3> QED BY <3>1, <3>2, <3>5 DEF LoanRows
  <2> QED BY <2>1, <2>2 DEF LoansApart
<1>8. \/ MoneyStep \/ RequestStep \/ TileStep \/ BuildingStep \/ MortgageStep
      \/ TradeStep \/ ReverseStep \/ Tick \/ UNCHANGED vars
      => LoansApart'
  BY CreditQuiet DEF LoansApart, vars, credit
<1>9. LoanStep => LoansApart'
  <2>1. ASSUME NEW p \in Active, NEW q \in Active, NEW a \in Amounts, createLoanRequest(p, q, a)
        PROVE  LoansApart'
    BY <2>1, CreditQuiet DEF LoansApart
  <2> QED BY <1>2, <1>5, <2>1 DEF LoanStep
<1>10. BankLoanStep => LoansApart'
  BY <1>3, <1>6 DEF BankLoanStep
<1>11. BankruptcyStep => LoansApart'
  BY <1>7 DEF BankruptcyStep
<1> QED BY <1>8, <1>9, <1>10, <1>11 DEF Next

\* Every step leaves what a mortgage is worth alone, but for a new one, which is
\* worth what its tile or its name is.
LEMMA MortgagesStayWorth ==
    ASSUME TypeInv, MortgagesCount, [Next]_vars
    PROVE  MortgagesCount'
<1>1. ASSUME NEW row, row.value > 0, mortgages' = Insert(mortgages, row) PROVE MortgagesCount'
  <2>1. PICK x : x = NextId
    OBVIOUS
  <2>2. /\ DOMAIN mortgages' = DOMAIN mortgages \cup {x} /\ mortgages'[x] = row
        /\ \A m \in DOMAIN mortgages \ {x} : mortgages'[m] = mortgages[m]
    BY <1>1, <2>1 DEF Insert
  <2>3. ASSUME NEW m \in DOMAIN mortgages' PROVE mortgages'[m].value > 0
    BY <1>1, <2>2 DEF MortgagesCount
  <2> QED BY <2>3 DEF MortgagesCount
<1>2. ASSUME DOMAIN mortgages' = DOMAIN mortgages,
             \A m \in DOMAIN mortgages : mortgages'[m].value = mortgages[m].value
      PROVE  MortgagesCount'
  BY <1>2 DEF MortgagesCount
<1>3. \A m \in DOMAIN mortgages : mortgages[m] \in MortgageRows
  BY MortgageFacts DEF TypeInv
<1>4. ASSUME NEW c, NEW m \in DOMAIN mortgages
      PROVE  HandOver(c)[m].value = mortgages[m].value
  <2>1. \/ HandOver(c)[m] = mortgages[m]
        \/ HandOver(c)[m] = [mortgages[m] EXCEPT !.player = c[mortgages[m].item].after.owner]
    BY DEF HandOver
  <2> QED BY <1>3, <2>1 DEF MortgageRows
<1>5. ASSUME NEW p, NEW t \in Tiles, mortgageTile(p, t) PROVE MortgagesCount'
  <2>1. mortgages' = Insert(mortgages, MortgageRow(p, t, Tile[t].mortgage))
    BY <1>5 DEF mortgageTile
  <2>2. MortgageRow(p, t, Tile[t].mortgage).value > 0
    BY PositiveAssumption DEF MortgageRow
  <2> QED BY <1>1, <2>1, <2>2
<1>6. ASSUME NEW p, NEW name, NEW value \in Values, mortgageProperty(p, name, value)
      PROVE  MortgagesCount'
  <2>1. mortgages' = Insert(mortgages, MortgageRow(p, name, value))
    BY <1>6 DEF mortgageProperty
  <2>2. MortgageRow(p, name, value).value > 0
    BY PositiveAssumption, EstateAssumption DEF MortgageRow
  <2> QED BY <1>1, <2>1, <2>2
<1>7. ASSUME NEW n \in ActiveMortgages, redeemMortgage(n) PROVE MortgagesCount'
  <2>1. mortgages' = Redeemed(n)
    BY <1>7 DEF redeemMortgage
  <2>2. DOMAIN mortgages' = DOMAIN mortgages
    BY <2>1 DEF Redeemed
  <2>3. ASSUME NEW m \in DOMAIN mortgages PROVE mortgages'[m].value = mortgages[m].value
    BY <1>3, <2>1 DEF Redeemed, MortgageRows
  <2> QED BY <1>2, <2>2, <2>3
<1>8. ASSUME NEW i, reverseTransaction(i) PROVE MortgagesCount'
  <2>1. mortgages' = mortgageReversal(i)
    BY <1>8 DEF reverseTransaction
  <2>2. DOMAIN mortgages' = DOMAIN mortgages
    BY <2>1 DEF mortgageReversal
  <2>3. ASSUME NEW m \in DOMAIN mortgages PROVE mortgages'[m].value = mortgages[m].value
    <3>1. \/ mortgages'[m] = [mortgages[m] EXCEPT !.state = "RELEASED"]
          \/ mortgages'[m] = [mortgages[m] EXCEPT !.state = "ACTIVE", !.redeemedBy = 0]
          \/ mortgages'[m] = HandOver(invertChanges(log[i].changes))[m]
      BY <2>1 DEF mortgageReversal
    <3> QED BY <1>3, <1>4, <3>1 DEF MortgageRows
  <2> QED BY <1>2, <2>2, <2>3
<1>9. ASSUME NEW p, NEW heir, declareBankruptcy(p, heir) PROVE MortgagesCount'
  <2>1. mortgages' = bankruptMortgages(p, heir)
    BY <1>9 DEF declareBankruptcy
  <2>2. DOMAIN mortgages' = DOMAIN mortgages
    BY <2>1 DEF bankruptMortgages
  <2>3. ASSUME NEW m \in DOMAIN mortgages PROVE mortgages'[m].value = mortgages[m].value
    <3>1. \/ mortgages'[m] = mortgages[m]
          \/ mortgages'[m] = [mortgages[m] EXCEPT !.state = "RELEASED"]
          \/ mortgages'[m] = [mortgages[m] EXCEPT !.player = heir]
      BY <2>1 DEF bankruptMortgages
    <3> QED BY <1>3, <3>1 DEF MortgageRows
  <2> QED BY <1>2, <2>2, <2>3
<1>10. ASSUME NEW r, acceptTradeRequest(r) PROVE MortgagesCount'
  <2>1. mortgages' = HandOver(TransferChanges(trades[r]))
    BY <1>10 DEF acceptTradeRequest
  <2>2. DOMAIN mortgages' = DOMAIN mortgages
    BY <2>1 DEF HandOver
  <2> QED BY <1>2, <1>4, <2>1, <2>2
<1>11. mortgages' = mortgages => MortgagesCount'
  BY DEF MortgagesCount
<1>12. MoneyStep \/ RequestStep \/ LoanStep \/ BankLoanStep \/ Tick => mortgages' = mortgages
  BY MoneyBare DEF estate
<1>13. TileStep => mortgages' = mortgages
  BY DEF TileStep, propertyPurchase, payRent
<1>14. BuildingStep => mortgages' = mortgages
  BY DEF BuildingStep, building
<1>15. MortgageStep => MortgagesCount'
  <2>1. DOMAIN registry \subseteq Tiles
    BY RegistryFacts DEF TypeInv
  <2> QED BY <1>5, <1>6, <1>7, <2>1 DEF MortgageStep
<1>16. TradeStep => MortgagesCount'
  <2>1. ASSUME \/ \E p, q \in Active, give, take \in Sides, cashGive, cashTake \in Cash :
                    createTradeRequest(p, q, give, take, cashGive, cashTake)
               \/ \E r \in DOMAIN trades, state \in {"DECLINED", "CANCELLED"} :
                    resolveTradeRequest(r, state)
               \/ listTradeRequests
        PROVE  mortgages' = mortgages
    BY <2>1, TradesTalk DEF estate
  <2> QED BY <1>10, <1>11, <2>1 DEF TradeStep
<1>17. ReverseStep \/ BankruptcyStep => MortgagesCount'
  BY <1>8, <1>9 DEF ReverseStep, BankruptcyStep
<1>18. UNCHANGED vars => mortgages' = mortgages
  BY DEF vars, estate
<1> QED BY <1>11, <1>12, <1>13, <1>14, <1>15, <1>16, <1>17, <1>18 DEF Next

PlainTypes == {"PLAYER_TO_BANK", "TO_JACKPOT", "BANK_TO_PLAYER", "PLAYER_TO_ALL",
               "ALL_TO_PLAYER", "LOAN_ISSUE"}

\* The forms there are.
LEMMA FormShapes ==
    ASSUME NEW type, NEW f \in Forms(type)
    PROVE  \/ type \in PlainTypes /\ \E p \in Active, a \in Amounts : f = PlainForm(type, p, a)
           \/ /\ type = "PLAYER_TO_PLAYER"
              /\ \E p, q \in Active, a \in Amounts : f = Form(type, p, q, a, 0, 0)
           \/ /\ type = "PASS_GO"
              /\ \E p \in Active, n \in {1, 2} : f = PlainForm(type, p, n * PassGoReward)
           \/ type = "JACKPOT_PAYOUT" /\ \E p \in Active : f = PlainForm(type, p, pot)
           \/ /\ type = "MORTGAGE"
              /\ \E p \in Active, v \in Values, name \in Names : f = Form(type, p, Bank, v, 0, name)
           \/ /\ type = "MORTGAGE_REDEMPTION"
              /\ \E m \in ActiveMortgages :
                   f = Form(type, mortgages[m].player, Bank, redemptionCost(mortgages[m].value), 0, m)
           \/ /\ type = "LOAN_REPAYMENT"
              /\ \E l \in ActiveLoans \ BankLoans, a \in Amounts : f = RepaymentForm(l, a, 0)
           \/ /\ type = "LOAN_REPAYMENT"
              /\ \E l \in BankLoans, rate \in Rates :
                   f = RepaymentForm(l, owed(l), bankLoanInterest(owed(l), rate))
<1>1. CASE type \in PlainTypes
  BY <1>1 DEF Forms, PlainTypes
<1>2. CASE type = "PLAYER_TO_PLAYER"
  BY <1>2 DEF Forms
<1>3. CASE type = "PASS_GO"
  BY <1>3 DEF Forms
<1>4. CASE type = "JACKPOT_PAYOUT"
  BY <1>4 DEF Forms
<1>5. CASE type = "MORTGAGE"
  BY <1>5 DEF Forms
<1>6. CASE type = "MORTGAGE_REDEMPTION"
  BY <1>6 DEF Forms
<1>7. CASE type = "LOAN_REPAYMENT"
  BY <1>7 DEF Forms
<1>8. CASE type \notin PlainTypes \cup {"PLAYER_TO_PLAYER", "PASS_GO", "JACKPOT_PAYOUT", "MORTGAGE",
                                      "MORTGAGE_REDEMPTION", "LOAN_REPAYMENT"}
  BY <1>8 DEF Forms, PlainTypes
<1> QED BY <1>1, <1>2, <1>3, <1>4, <1>5, <1>6, <1>7, <1>8

\* A form with the fields of its submission.
Filled(f, type, p, target, a, interest, item) ==
  /\ f.type = type /\ f.player = p /\ f.target = target /\ f.amount = a
  /\ f.interest = interest /\ f.item = item

\* What a form has to show.
ShowsIt(f) == previewBalances(f) = wallet' /\ isFormValid(f) /\ ~preflightFundsError(f)

\* Whoever is debited can pay.
LEMMA PayersCan ==
    ASSUME TypeInv, NEW p \in Players, NEW a \in Nat
    PROVE  /\ Covered(Pays(p, a)) => wallet[p] >= a
           /\ \A q : Covered(Moves(p, q, a)) => wallet[p] >= a
<1>1. wallet[p] \in Nat
  BY DEF TypeInv, MoneyTyped
<1>2. Covered(Pays(p, a)) => wallet[p] >= a
  BY <1>1 DEF Covered, Pays
<1>3. ASSUME NEW q, Covered(Moves(p, q, a)) PROVE wallet[p] >= a
  <2>1. p \in DOMAIN Moves(p, q, a) /\ Moves(p, q, a)[p] = -a
    BY DEF Moves
  <2>2. wallet[p] + Moves(p, q, a)[p] >= 0
    BY <1>3, <2>1 DEF Covered
  <2> QED BY <1>1, <2>1, <2>2
<1> QED BY <1>2, <1>3

\* Payments with one wallet, or between two.
LEMMA PaymentsShow ==
    ASSUME TypeInv, NEW f, NEW type, NEW p \in Active, NEW a \in Amounts,
           \/ /\ type \in PlainTypes \ {"PLAYER_TO_ALL", "ALL_TO_PLAYER"}
              /\ Filled(f, type, p, Bank, a, 0, 0)
           \/ type = "PLAYER_TO_PLAYER" /\ \E q \in Active : Filled(f, type, p, q, a, 0, 0),
           Submit(f)
    PROVE  ShowsIt(f)
<1>1. p \in Players /\ p # Bank /\ a \in Nat /\ a > 0 /\ wallet[p] \in Nat
  BY LedgerAssumption, AmountsAssumption DEF Active, TypeInv, MoneyTyped
<1>2. CASE Filled(f, "PLAYER_TO_BANK", p, Bank, a, 0, 0) \/ Filled(f, "TO_JACKPOT", p, Bank, a, 0, 0)
  <2>1. wallet' = After(Pays(p, a)) /\ Covered(Pays(p, a))
    BY <1>2 DEF Submit, Filled, playerToBank, toJackpot, Plain, Commit, Tx
  <2>2. previewDeltas(f) = Pays(p, a)
    BY <1>2 DEF previewDeltas, Filled
  <2>3. isFormValid(f)
    BY <1>1, <1>2 DEF isFormValid, Filled
  <2>4. ~preflightFundsError(f)
    BY <1>1, <1>2, <2>1, PayersCan DEF preflightFundsError, Filled
  <2> QED BY <2>1, <2>2, <2>3, <2>4 DEF ShowsIt, previewBalances
<1>3. CASE Filled(f, "BANK_TO_PLAYER", p, Bank, a, 0, 0) \/ Filled(f, "LOAN_ISSUE", p, Bank, a, 0, 0)
  <2>1. /\ wallet' = After(Gets(p, a))
        /\ f.type = "LOAN_ISSUE" => bankLoanOf(p) = {} /\ a <= BankLoanMax
    BY <1>3 DEF Submit, Filled, bankToPlayer, issueBankLoan, Plain, Commit, Tx
  <2>2. previewDeltas(f) = Gets(p, a)
    BY <1>3 DEF previewDeltas, Filled
  <2>3. isFormValid(f)
    BY <1>1, <1>3, <2>1 DEF isFormValid, Filled
  <2>4. ~preflightFundsError(f)
    BY <1>3 DEF preflightFundsError, Filled
  <2> QED BY <2>1, <2>2, <2>3, <2>4 DEF ShowsIt, previewBalances
<1>4. ASSUME NEW q \in Active, Filled(f, "PLAYER_TO_PLAYER", p, q, a, 0, 0) PROVE ShowsIt(f)
  <2>1. wallet' = After(Moves(p, q, a)) /\ Covered(Moves(p, q, a)) /\ p # q
    BY <1>4 DEF Submit, Filled, playerToPlayer, Plain, Commit, Tx
  <2>2. previewDeltas(f) = Moves(p, q, a)
    BY <1>4 DEF previewDeltas, Filled
  <2>3. isFormValid(f)
    BY <1>1, <1>4, <2>1 DEF isFormValid, Filled
  <2>4. ~preflightFundsError(f)
    BY <1>1, <1>4, <2>1, PayersCan DEF preflightFundsError, Filled
  <2> QED BY <2>1, <2>2, <2>3, <2>4 DEF ShowsIt, previewBalances
<1> QED BY <1>2, <1>3, <1>4 DEF PlainTypes

\* Payments to and from everybody, while nobody is bankrupt.
LEMMA FansShow ==
    ASSUME TypeInv, NEW f, NEW p \in Active, NEW a \in Amounts, bankrupt = {},
           \/ Filled(f, "PLAYER_TO_ALL", p, Bank, a, 0, 0)
           \/ Filled(f, "ALL_TO_PLAYER", p, Bank, a, 0, 0),
           Submit(f)
    PROVE  ShowsIt(f)
<1>1. /\ p \in Players /\ p # Bank /\ a \in Nat /\ a > 0 /\ Active = Players
      /\ wallet \in [Players -> Nat]
  BY LedgerAssumption, AmountsAssumption DEF Active, TypeInv, MoneyTyped
<1>2. PICK n \in Nat : n = Cardinality(others(p)) /\ Cardinality(Players) = n + 1
  <2>1. IsFiniteSet(Players) /\ IsFiniteSet(others(p)) /\ p \notin others(p)
        /\ others(p) \cup {p} = Players
    BY <1>1, LedgerAssumption, FS_RemoveElement DEF others
  <2>2. Cardinality(others(p)) \in Nat /\ Cardinality(others(p) \cup {p}) = Cardinality(others(p)) + 1
    BY <2>1, FS_CardinalityType, FS_AddElement
  <2> QED BY <2>1, <2>2
<1>3. \A x \in Int : FanDelta(p, x) = [q \in Players |-> IF q = p THEN x * (-n) ELSE x]
  <2>1. \A x \in Int : x * (1 - Cardinality(Active)) = x * (-n)
    BY <1>1, <1>2
  <2> QED BY <1>1, <2>1 DEF FanDelta
<1>4. \A x \in Int : fanDeltas(p, others(p), x) = FanDelta(p, x)
  <2>1. {p} \cup others(p) = Players
    BY <1>1 DEF others
  <2>2. \A x \in Int : (-x) * n = x * (-n)
    BY <1>2
  <2>3. ASSUME NEW x \in Int PROVE fanDeltas(p, others(p), x) = FanDelta(p, x)
    <3>1. fanDeltas(p, others(p), x) = [q \in Players |-> IF q = p THEN (-x) * n ELSE x]
      BY <1>2, <2>1 DEF fanDeltas
    <3> QED BY <1>3, <2>2, <3>1
  <2> QED BY <2>3
<1>5. CASE Filled(f, "PLAYER_TO_ALL", p, Bank, a, 0, 0)
  <2>1. wallet' = After(FanDelta(p, a)) /\ Covered(FanDelta(p, a))
    BY <1>5 DEF Submit, Filled, playerToAll, Plain, Commit, Tx
  <2>2. previewDeltas(f) = FanDelta(p, a)
    <3>1. previewDeltas(f) = fanDeltas(p, others(p), a)
      BY <1>5 DEF previewDeltas, Filled
    <3> QED BY <1>1, <1>4, <3>1
  <2>3. isFormValid(f)
    BY <1>1, <1>5 DEF isFormValid, Filled
  <2>4. ~preflightFundsError(f)
    <3>1. wallet[p] + a * (-n) >= 0
      BY <1>1, <1>3, <2>1 DEF Covered
    <3>2. ~(wallet[p] < a * n)
      BY <1>1, <1>2, <3>1
    <3> QED BY <1>2, <1>5, <3>2 DEF preflightFundsError, Filled
  <2> QED BY <2>1, <2>2, <2>3, <2>4 DEF ShowsIt, previewBalances
<1>6. CASE Filled(f, "ALL_TO_PLAYER", p, Bank, a, 0, 0)
  <2>1. wallet' = After(FanDelta(p, -a)) /\ Covered(FanDelta(p, -a))
    BY <1>6 DEF Submit, Filled, allToPlayer, Plain, Commit, Tx
  <2>2. previewDeltas(f) = FanDelta(p, -a)
    <3>1. previewDeltas(f) = fanDeltas(p, others(p), -a)
      BY <1>6 DEF previewDeltas, Filled
    <3> QED BY <1>1, <1>4, <3>1
  <2>3. isFormValid(f)
    BY <1>1, <1>6 DEF isFormValid, Filled
  <2>4. ~preflightFundsError(f)
    <3>1. -a \in Int
      BY <1>1
    <3>2. \A q \in others(p) : wallet[q] + (-a) >= 0
      BY <1>1, <1>3, <2>1, <3>1 DEF Covered, others
    <3>3. \A q \in others(p) : ~(wallet[q] < a)
      BY <1>1, <3>2 DEF others
    <3> QED BY <1>6, <3>3 DEF preflightFundsError, Filled
  <2> QED BY <2>1, <2>2, <2>3, <2>4 DEF ShowsIt, previewBalances
<1> QED BY <1>5, <1>6

\* What the bank pays out on its own account: GO, the pot and a mortgage.
LEMMA PayoutsShow ==
    ASSUME TypeInv, NEW f, NEW p \in Active, NEW a,
           \/ Filled(f, "PASS_GO", p, Bank, a, 0, 0) /\ \E n \in {1, 2} : a = n * PassGoReward
           \/ Filled(f, "JACKPOT_PAYOUT", p, Bank, a, 0, 0) /\ a = pot
           \/ a \in Values /\ \E name \in Names : Filled(f, "MORTGAGE", p, Bank, a, 0, name),
           Submit(f)
    PROVE  ShowsIt(f)
<1>1. p # Bank
  BY LedgerAssumption DEF Active
<1>2. previewDeltas(f) = Gets(p, a) /\ ~preflightFundsError(f)
  BY DEF previewDeltas, preflightFundsError, Filled
<1>3. isFormValid(f) <=> a > 0 /\ (f.type = "JACKPOT_PAYOUT" => pot > 0)
  BY <1>1 DEF isFormValid, Filled
<1>4. CASE Filled(f, "PASS_GO", p, Bank, a, 0, 0) /\ \E n \in {1, 2} : a = n * PassGoReward
  <2>1. PassGoReward \in Nat /\ PassGoReward > 0
    BY PositiveAssumption, LedgerAssumption
  <2>2. a > 0
    BY <1>4, <2>1
  <2>3. PICK exact \in BOOLEAN : a = (IF exact THEN 2 ELSE 1) * PassGoReward /\ passGo(p, exact)
    BY <1>4 DEF Submit, Filled
  <2>4. a = IF exact THEN 2 * PassGoReward ELSE PassGoReward
    BY <2>1, <2>3
  <2>5. wallet' = After(Gets(p, a))
    BY <2>3, <2>4 DEF passGo, Plain, Commit, Tx
  <2> QED BY <1>2, <1>3, <1>4, <2>2, <2>5 DEF ShowsIt, previewBalances, Filled
<1>5. CASE Filled(f, "JACKPOT_PAYOUT", p, Bank, a, 0, 0) /\ a = pot
  <2>1. wallet' = After(Gets(p, a)) /\ pot # 0
    BY <1>5 DEF Submit, Filled, jackpotPayout, Commit, Tx
  <2>2. a > 0
    BY <1>5, <2>1 DEF TypeInv, MoneyTyped
  <2> QED BY <1>2, <1>3, <1>5, <2>1, <2>2 DEF ShowsIt, previewBalances, Filled
<1>6. ASSUME a \in Values, NEW name \in Names, Filled(f, "MORTGAGE", p, Bank, a, 0, name)
      PROVE  ShowsIt(f)
  <2>1. a \in Nat /\ a > 0
    BY <1>6, EstateAssumption, PositiveAssumption
  <2>2. wallet' = After(Gets(p, a))
    BY <1>6 DEF Submit, Filled, mortgageProperty, Commit, Tx
  <2> QED BY <1>2, <1>3, <1>6, <2>1, <2>2 DEF ShowsIt, previewBalances, Filled
<1> QED BY <1>4, <1>5, <1>6

\* Redemptions.
LEMMA RedemptionsShow ==
    ASSUME TypeInv, MortgagesCount, NEW f, NEW m \in ActiveMortgages,
           Filled(f, "MORTGAGE_REDEMPTION", mortgages[m].player, Bank,
                  redemptionCost(mortgages[m].value), 0, m),
           Submit(f)
    PROVE  ShowsIt(f)
<1>1. PICK p, a : p = mortgages[m].player /\ a = redemptionCost(mortgages[m].value)
  OBVIOUS
<1>2. Filled(f, "MORTGAGE_REDEMPTION", p, Bank, a, 0, m)
  BY <1>1
<1>3. p \in Players /\ p # Bank /\ a \in Nat /\ a > 0 /\ wallet[p] \in Nat
  <2>1. m \in DOMAIN mortgages /\ mortgages[m].player \in Players /\ mortgages[m].value \in Nat
    BY MortgageFacts DEF ActiveMortgages, TypeInv
  <2>2. mortgages[m].value > 0
    BY <2>1 DEF MortgagesCount
  <2>3. PICK v \in Nat : v = mortgages[m].value
    BY <2>1
  <2>4. redemptionCost(v) \in Nat /\ redemptionCost(v) >= v /\ v > 0
    BY <2>2, <2>3, BoardFacts
  <2>5. a = redemptionCost(v)
    BY <1>1, <2>3
  <2>6. p \in Players /\ p # Bank
    BY <1>1, <2>1, LedgerAssumption
  <2>7. wallet[p] \in Nat
    BY <2>6 DEF TypeInv, MoneyTyped
  <2>8. a \in Nat /\ a > 0
    BY <2>4, <2>5
  <2> QED BY <2>6, <2>7, <2>8
<1>4. wallet' = After(Pays(p, a)) /\ Covered(Pays(p, a))
  <2>1. redeemMortgage(m)
    BY <1>2 DEF Submit, Filled
  <2>2. PICK tx : Commit(tx) /\ tx.delta = Pays(p, a)
    <3> DEFINE t == mortgages[m].item
               c == One(t, mortgageChange(registry[t], FALSE))
    <3>1. \/ Deal("MORTGAGE_REDEMPTION", Pays(p, a), {t}, c)
          \/ Commit(Tx("MORTGAGE_REDEMPTION", Pays(p, a)))
      BY <1>1, <2>1 DEF redeemMortgage
    <3> HIDE DEF c, t
    <3> QED BY <3>1, DealRow DEF Deal
  <2> QED BY <2>2 DEF Commit
<1>5. previewDeltas(f) = Pays(p, a)
  BY <1>2 DEF previewDeltas, Filled
<1>6. isFormValid(f)
  BY <1>2, <1>3 DEF isFormValid, Filled
<1>7. ~preflightFundsError(f)
  BY <1>2, <1>3, <1>4, PayersCan DEF preflightFundsError, Filled
<1> QED BY <1>4, <1>5, <1>6, <1>7 DEF ShowsIt, previewBalances

\* A loan that runs is not covered yet, and owed to somebody else.
LEMMA RunningLoan ==
    ASSUME TypeInv, LoanInv, LoansApart, NEW l \in ActiveLoans
    PROVE  /\ l \in DOMAIN loans /\ loans[l].borrower \in Players
           /\ loans[l].lender \in Players \cup {Bank} /\ loans[l].lender # loans[l].borrower
           /\ owed(l) \in Nat /\ owed(l) > 0
<1>1. l \in DOMAIN loans /\ loans[l].state = "ACTIVE"
  BY DEF ActiveLoans
<1>2. loans[l].repaid # loans[l].principal
  BY <1>1 DEF LoanInv, LoanSound
<1>3. /\ loans[l].principal \in Nat /\ loans[l].repaid \in Nat
      /\ loans[l].repaid <= loans[l].principal
      /\ loans[l].borrower \in Players /\ loans[l].lender \in Players \cup {Bank}
  BY <1>1, LoanFacts DEF TypeInv
<1> QED BY <1>1, <1>2, <1>3 DEF owed, LoansApart

\* Repayments between players.
LEMMA RepaymentsShow ==
    ASSUME TypeInv, LoanInv, LoansApart, NEW f, NEW l \in ActiveLoans \ BankLoans, NEW a \in Amounts,
           Filled(f, "LOAN_REPAYMENT", loans[l].borrower, loans[l].lender, a, 0, l),
           Submit(f)
    PROVE  ShowsIt(f)
<1>1. PICK p, q : p = loans[l].borrower /\ q = loans[l].lender
  OBVIOUS
<1>2. Filled(f, "LOAN_REPAYMENT", p, q, a, 0, l)
  BY <1>1
<1>3. /\ p \in Players /\ q # Bank /\ q # p /\ a \in Nat /\ a > 0 /\ wallet[p] \in Nat
      /\ l \in DOMAIN loans
  BY <1>1, RunningLoan, AmountsAssumption DEF BankLoans, TypeInv, MoneyTyped
<1>4. repayLoan(l, a)
  BY <1>2, <1>3 DEF Submit, Filled
<1>5. wallet' = After(Moves(p, q, a)) /\ Covered(Moves(p, q, a)) /\ a <= owed(l)
  BY <1>1, <1>4 DEF repayLoan, Commit, Tx, owed
<1>6. previewDeltas(f) = Moves(p, q, a)
  BY <1>2, <1>3 DEF previewDeltas, repaymentDeltas, Filled
<1>7. isFormValid(f)
  BY <1>2, <1>3, <1>5 DEF isFormValid, Filled
<1>8. ~preflightFundsError(f)
  BY <1>2, <1>3, <1>5, PayersCan DEF preflightFundsError, Filled
<1> QED BY <1>5, <1>6, <1>7, <1>8 DEF ShowsIt, previewBalances

\* Repayments to the bank, with the interest of any rate.
LEMMA BankRepaymentsShow ==
    ASSUME TypeInv, LoanInv, LoansApart, NEW f, NEW l \in BankLoans, NEW rate \in Rates,
           Filled(f, "LOAN_REPAYMENT", loans[l].borrower, loans[l].lender, owed(l),
                  bankLoanInterest(owed(l), rate), l),
           Submit(f)
    PROVE  ShowsIt(f)
<1>1. PICK p, a, i : p = loans[l].borrower /\ a = owed(l) /\ i = bankLoanInterest(a, rate)
  OBVIOUS
<1>2. l \in ActiveLoans /\ loans[l].lender = Bank
  BY DEF BankLoans
<1>3. Filled(f, "LOAN_REPAYMENT", p, Bank, a, i, l)
  BY <1>1, <1>2
<1>4. /\ p \in Players /\ p # Bank /\ a \in Nat /\ a > 0 /\ i \in Nat /\ a + i \in Nat
      /\ wallet[p] \in Nat
  <2>1. loans[l].borrower \in Players /\ owed(l) \in Nat /\ owed(l) > 0
    BY <1>2, RunningLoan
  <2>2. p \in Players /\ a \in Nat /\ a > 0
    BY <1>1, <2>1
  <2>3. wallet[p] \in Nat /\ p # Bank
    BY <2>2, LedgerAssumption DEF TypeInv, MoneyTyped
  <2>4. bankLoanInterest(a, rate) \in Nat
    BY <2>2, InterestNat
  <2>5. i \in Nat
    BY <1>1, <2>4
  <2> QED BY <2>2, <2>3, <2>5
<1>5. PICK r \in Rates : bankLoanInterest(a, r) = i /\ repayBankLoan(l, r)
  BY <1>3 DEF Submit, Filled
<1>6. wallet' = After(Pays(p, a + i)) /\ Covered(Pays(p, a + i))
  <2>1. Commit(Tx("LOAN_REPAYMENT", Pays(p, a + i)))
    BY <1>1, <1>5 DEF repayBankLoan, owed
  <2> QED BY <2>1 DEF Commit, Tx
<1>7. previewDeltas(f) = Pays(p, a + i)
  BY <1>3 DEF previewDeltas, repaymentDeltas, Filled
<1>8. isFormValid(f)
  <2>1. a <= owed(l)
    BY <1>1, <1>4
  <2> QED BY <1>3, <1>4, <2>1 DEF isFormValid, Filled
<1>9. ~preflightFundsError(f)
  BY <1>3, <1>4, <1>6, PayersCan DEF preflightFundsError, Filled
<1> QED BY <1>6, <1>7, <1>8, <1>9 DEF ShowsIt, previewBalances

\* A form carries its type.
LEMMA FormsTyped == ASSUME NEW type, NEW f \in Forms(type) PROVE f.type = type
  BY FormShapes DEF PlainForm, RepaymentForm, Form

\* So does every form.
LEMMA EveryFormShows ==
    ASSUME TypeInv, LoanInv, LoansApart, MortgagesCount, NEW type, NEW f \in Forms(type),
           type \in FanTypes => bankrupt = {}, Submit(f)
    PROVE  f.type = type /\ ShowsIt(f)
<1>1. ASSUME type \in PlainTypes, NEW p \in Active, NEW a \in Amounts, f = PlainForm(type, p, a)
      PROVE  f.type = type /\ ShowsIt(f)
  <2>1. Filled(f, type, p, Bank, a, 0, 0)
    BY <1>1 DEF PlainForm, Form, Filled
  <2>2. CASE type \in FanTypes
    BY <2>1, <2>2, FansShow DEF FanTypes, Filled
  <2>3. CASE type \notin FanTypes
    BY <1>1, <2>1, <2>3, PaymentsShow DEF FanTypes, Filled
  <2> QED BY <2>2, <2>3
<1>2. ASSUME type = "PLAYER_TO_PLAYER", NEW p \in Active, NEW q \in Active, NEW a \in Amounts,
             f = Form(type, p, q, a, 0, 0)
      PROVE  f.type = type /\ ShowsIt(f)
  <2>1. Filled(f, type, p, q, a, 0, 0)
    BY <1>2 DEF Form, Filled
  <2> QED BY <1>2, <2>1, PaymentsShow DEF Filled
<1>3. ASSUME type = "PASS_GO", NEW p \in Active, NEW n \in {1, 2}, f = PlainForm(type, p, n * PassGoReward)
      PROVE  f.type = type /\ ShowsIt(f)
  <2>1. PICK a : a = n * PassGoReward
    OBVIOUS
  <2>2. Filled(f, type, p, Bank, a, 0, 0)
    BY <1>3, <2>1 DEF PlainForm, Form, Filled
  <2> QED BY <1>3, <2>1, <2>2, PayoutsShow DEF Filled
<1>4. ASSUME type = "JACKPOT_PAYOUT", NEW p \in Active, f = PlainForm(type, p, pot)
      PROVE  f.type = type /\ ShowsIt(f)
  <2>1. Filled(f, type, p, Bank, pot, 0, 0)
    BY <1>4 DEF PlainForm, Form, Filled
  <2> QED BY <1>4, <2>1, PayoutsShow DEF Filled
<1>5. ASSUME type = "MORTGAGE", NEW p \in Active, NEW v \in Values, NEW name \in Names,
             f = Form(type, p, Bank, v, 0, name)
      PROVE  f.type = type /\ ShowsIt(f)
  <2>1. Filled(f, type, p, Bank, v, 0, name)
    BY <1>5 DEF Form, Filled
  <2> QED BY <1>5, <2>1, PayoutsShow DEF Filled
<1>6. ASSUME type = "MORTGAGE_REDEMPTION", NEW m \in ActiveMortgages,
             f = Form(type, mortgages[m].player, Bank, redemptionCost(mortgages[m].value), 0, m)
      PROVE  f.type = type /\ ShowsIt(f)
  <2>1. Filled(f, type, mortgages[m].player, Bank, redemptionCost(mortgages[m].value), 0, m)
    BY <1>6 DEF Form, Filled
  <2> QED BY <1>6, <2>1, RedemptionsShow DEF Filled
<1>7. ASSUME type = "LOAN_REPAYMENT", NEW l \in ActiveLoans \ BankLoans, NEW a \in Amounts,
             f = RepaymentForm(l, a, 0)
      PROVE  f.type = type /\ ShowsIt(f)
  <2>1. Filled(f, type, loans[l].borrower, loans[l].lender, a, 0, l)
    BY <1>7 DEF RepaymentForm, Form, Filled
  <2> QED BY <1>7, <2>1, RepaymentsShow DEF Filled
<1>8. ASSUME type = "LOAN_REPAYMENT", NEW l \in BankLoans, NEW rate \in Rates,
             f = RepaymentForm(l, owed(l), bankLoanInterest(owed(l), rate))
      PROVE  f.type = type /\ ShowsIt(f)
  <2>1. Filled(f, type, loans[l].borrower, loans[l].lender, owed(l), bankLoanInterest(owed(l), rate), l)
    BY <1>8 DEF RepaymentForm, Form, Filled
  <2> QED BY <1>8, <2>1, BankRepaymentsShow DEF Filled
<1> QED BY <1>1, <1>2, <1>3, <1>4, <1>5, <1>6, <1>7, <1>8, FormShapes

\* Whatever the server records, every form that can have led to it was let through by
\* the dialog, and the balances it previewed are the ones that result (isFormValid,
\* previewBalances, preflightFundsError), whatever the table, the loans and the log; the
\* payments to and from everybody while nobody is bankrupt (FormsShowTheTruth).
THEOREM FormsAlwaysShowTheTruth == Spec => FormsShowTheTruth
<1>1. Init => LoansApart /\ MortgagesCount
  BY DEF Init, LoansApart, MortgagesCount
<1>2. Spec => []TypeInv
  BY BankTypes, PTL
<1>3. Spec => []RequestInv
  <2>1. RequestInv /\ TradeInv /\ TypeInv /\ TypeInv' /\ [Next]_vars => RequestInv' /\ TradeInv'
    BY RequestInvKept, TradeInvKept
  <2> QED BY <1>2, <2>1, InitRequests, PTL DEF Spec
<1>4. Spec => []LoanInv
  BY <1>2, InitLoans, LoanInvKept, PTL DEF Spec
<1>5. TypeInv /\ RequestInv /\ LoansApart /\ MortgagesCount /\ [Next]_vars
      => LoansApart' /\ MortgagesCount'
  BY LoansStayApart, MortgagesStayWorth
<1>6. Spec => [](LoansApart /\ MortgagesCount)
  BY <1>1, <1>2, <1>3, <1>5, PTL DEF Spec
<1>7. TypeInv /\ LoanInv /\ LoansApart /\ MortgagesCount /\ [Next]_vars
      => [log' # log =>
            \A f \in Forms(Last(log').type) :
              (f.type \in FanTypes => bankrupt = {}) => ShowsTheTruth(f)]_vars
  <2> SUFFICES ASSUME TypeInv, LoanInv, LoansApart, MortgagesCount,
                      NEW f \in Forms(Last(log').type), f.type \in FanTypes => bankrupt = {}
               PROVE  ShowsTheTruth(f)
    OBVIOUS
  <2>1. PICK type : type = Last(log').type
    OBVIOUS
  <2>2. f \in Forms(type)
    BY <2>1
  <2>3. f.type = type
    BY <2>2, FormsTyped
  <2> QED BY <2>2, <2>3, EveryFormShows DEF ShowsTheTruth, ShowsIt
<1> QED BY <1>2, <1>4, <1>6, <1>7, PTL DEF Spec, FormsShowTheTruth

-----------------------------------------------------------------------------
(* What is offered is accepted *)

\* The tiles of the board, once somebody can own one.
LEMMA BoardOpen ==
    ASSUME TypeInv, NEW t \in DOMAIN registry
    PROVE  /\ t \in Tiles /\ t \in groupTiles(t) /\ DOMAIN registry = Tiles
           /\ \A u \in groupTiles(t) :
                /\ u \in DOMAIN registry /\ groupTiles(u) = groupTiles(t) /\ t \in groupTiles(u)
                /\ registry[u] \in TileState /\ registry[u].houses \in 0 .. MaxBuildings
                /\ registry[u].owner \in Players \cup {Bank} /\ registry[u].mortgaged \in BOOLEAN
<1>1. registry \in [Tiles -> TileState]
  BY RegistryFacts DEF TypeInv
<1>2. \A u \in Tiles : registry[u] \in TileState
  BY <1>1
<1>3. \A s \in TileState :
        s.houses \in 0 .. MaxBuildings /\ s.owner \in Players \cup {Bank} /\ s.mortgaged \in BOOLEAN
  BY DEF TileState
<1> QED BY <1>1, <1>2, <1>3 DEF groupTiles

\* What the sheet of a tile offers.
LEMMA SheetMeans ==
    ASSUME NEW t, NEW p
    PROVE  /\ "PROPERTY_BUILD" \in tileIntents(t, p) <=>
                registry[t].owner = p /\ canBuild(registry, t, p)
           /\ "PROPERTY_SELL_BUILDING" \in tileIntents(t, p) <=>
                registry[t].owner = p /\ canSellBuilding(registry, t, p)
           /\ "MORTGAGE_REDEMPTION" \in tileIntents(t, p) =>
                registry[t].owner = p /\ registry[t].mortgaged
           /\ "MORTGAGE" \in tileIntents(t, p) =>
                registry[t].owner = p /\ ~registry[t].mortgaged /\ ~groupBuilt(t)
           /\ "PAY_RENT" \in tileIntents(t, p) =>
                registry[t].owner # Bank /\ ~registry[t].mortgaged
           /\ "PROPERTY_TRANSFER" \in tileIntents(t, p) => registry[t].owner # Bank
BY DEF tileIntents

\* One building up (1) or down (-1), as the interface offers it.
Steppable(u, p, d) == IF d = 1 THEN canBuild(registry, u, p) ELSE canSellBuilding(registry, u, p)

\* ... which in a whole group is a question of levels.
LevelsAllow(u, d) ==
  /\ Buildable(u) /\ registry[u].houses + d \in 0 .. MaxBuildings
  /\ Rules.buildEvenly =>
       \A v \in groupTiles(u) : d * (registry[u].houses - registry[v].houses) <= 0

\* ... of a whole group the interface offers a step exactly then.
LEMMA StepMeans ==
    ASSUME TypeInv, NEW u \in DOMAIN registry, NEW p, WholeGroup(u), registry[u].owner = p,
           NEW d \in {1, -1}
    PROVE  Steppable(u, p, d) <=> LevelsAllow(u, d)
<1>1. \A v \in groupTiles(u) : registry[v].houses \in 0 .. MaxBuildings
  BY BoardOpen
<1>2. registry[u].houses \in 0 .. MaxBuildings
  BY BoardOpen
<1>3. holdsFullGroup(registry, u, p) /\ \A v \in groupTiles(u) : ~registry[v].mortgaged
  BY DEF WholeGroup, holdsFullGroup
<1>4. CASE d = 1
  <2>1. registry[u].houses < MaxBuildings <=> registry[u].houses + d \in 0 .. MaxBuildings
    BY <1>2, <1>4 DEF MaxBuildings
  <2>2. \A v \in groupTiles(u) : registry[u].houses <= registry[v].houses <=>
                                 d * (registry[u].houses - registry[v].houses) <= 0
    BY <1>1, <1>2, <1>4 DEF MaxBuildings
  <2> QED BY <1>3, <1>4, <2>1, <2>2 DEF Steppable, canBuild, LevelsAllow
<1>5. CASE d = -1
  <2>1. registry[u].houses > 0 <=> registry[u].houses + d \in 0 .. MaxBuildings
    BY <1>2, <1>5 DEF MaxBuildings
  <2>2. \A v \in groupTiles(u) : registry[u].houses >= registry[v].houses <=>
                                 d * (registry[u].houses - registry[v].houses) <= 0
    BY <1>1, <1>2, <1>5 DEF MaxBuildings
  <2>3. d # 1
    BY <1>5
  <2> QED BY <2>1, <2>2, <2>3 DEF Steppable, canSellBuilding, LevelsAllow
<1> QED BY <1>4, <1>5

\* The server accepts that step alone exactly then, the group being even before.
LEMMA StepPlanned ==
    ASSUME TypeInv, NEW t \in DOMAIN registry, Even(registry, t), NEW p,
           WholeGroup(t), registry[t].owner = p, NEW d \in {1, -1}
    PROVE  planBuildings(registry, p, One(t, registry[t].houses + d), d) <=> LevelsAllow(t, d)
<1>1. PICK h : h = registry[t].houses
  OBVIOUS
<1>2. PICK targets : targets = One(t, h + d)
  OBVIOUS
<1>3. DOMAIN targets = {t} /\ targets[t] = h + d
  BY <1>2 DEF One
<1>4. PICK final : final = FinalLevels(registry, t, targets)
  OBVIOUS
<1>5. \A u \in groupTiles(t) : final[u] = IF u = t THEN h + d ELSE registry[u].houses
  BY <1>3, <1>4 DEF FinalLevels
<1>6. /\ t \in groupTiles(t) /\ h \in 0 .. MaxBuildings
      /\ \A u \in groupTiles(t) : registry[u].houses \in 0 .. MaxBuildings
  BY <1>1, BoardOpen
<1>7. \A u \in groupTiles(t) : final[u] \in Int /\ d * (final[u] - registry[u].houses) >= 0
  BY <1>1, <1>5, <1>6 DEF MaxBuildings
<1>8. final[t] # registry[t].houses
  BY <1>1, <1>5, <1>6 DEF MaxBuildings
<1>9. /\ holdsFullGroup(registry, t, p) /\ DOMAIN targets \subseteq groupTiles(t)
      /\ \A v \in groupTiles(t) : ~registry[v].mortgaged
  BY <1>3, <1>6 DEF WholeGroup, holdsFullGroup
<1>10. planBuildings(registry, p, targets, d) <=>
         /\ Buildable(t) /\ h + d \in 0 .. MaxBuildings
         /\ Rules.buildEvenly => \A u, v \in groupTiles(t) : final[u] - final[v] <= 1
  BY <1>3, <1>4, <1>6, <1>7, <1>8, <1>9 DEF planBuildings
<1>11. ASSUME Rules.buildEvenly
       PROVE  (\A u, v \in groupTiles(t) : final[u] - final[v] <= 1) <=>
                \A v \in groupTiles(t) : d * (h - registry[v].houses) <= 0
  <2>1. \A u, v \in groupTiles(t) : registry[u].houses - registry[v].houses <= 1
    BY <1>11 DEF Even
  <2>2. ASSUME \A v \in groupTiles(t) : d * (h - registry[v].houses) <= 0,
               NEW u \in groupTiles(t), NEW v \in groupTiles(t)
        PROVE  final[u] - final[v] <= 1
    <3>1. d * (h - registry[u].houses) <= 0 /\ d * (h - registry[v].houses) <= 0
      BY <2>2
    <3>2. registry[u].houses - registry[v].houses <= 1
      BY <2>1
    <3> QED BY <1>1, <1>5, <1>6, <3>1, <3>2 DEF MaxBuildings
  <2>3. ASSUME \A u, v \in groupTiles(t) : final[u] - final[v] <= 1, NEW v \in groupTiles(t)
        PROVE  d * (h - registry[v].houses) <= 0
    <3>1. final[t] - final[v] <= 1 /\ final[v] - final[t] <= 1
      BY <1>6, <2>3
    <3> QED BY <1>1, <1>5, <1>6, <3>1 DEF MaxBuildings
  <2> QED BY <2>2, <2>3
<1> QED BY <1>1, <1>2, <1>10, <1>11 DEF LevelsAllow

\* A plan for a whole group.
LEMMA GroupPlanned ==
    ASSUME TypeInv, NEW g \in DOMAIN registry, NEW p,
           \A u \in groupTiles(g) : WholeGroup(u) /\ registry[u].owner = p,
           NEW d \in {1, -1}, NEW targets \in [groupTiles(g) -> 0 .. MaxBuildings]
    PROVE  planBuildings(registry, p, targets, d) <=>
             /\ \A u \in groupTiles(g) : Buildable(u) /\ d * (targets[u] - registry[u].houses) >= 0
             /\ \E u \in groupTiles(g) : targets[u] # registry[u].houses
             /\ Rules.buildEvenly => \A u, v \in groupTiles(g) : targets[u] - targets[v] <= 1
<1>1. /\ g \in groupTiles(g)
      /\ \A k \in groupTiles(g) : groupTiles(k) = groupTiles(g)
  BY BoardOpen
<1>2. DOMAIN targets = groupTiles(g) /\ \A u \in groupTiles(g) : targets[u] \in 0 .. MaxBuildings
  OBVIOUS
<1>3. \A k \in groupTiles(g) : \A u \in groupTiles(g) : FinalLevels(registry, k, targets)[u] = targets[u]
  BY <1>1, <1>2 DEF FinalLevels
<1>4. \A k \in groupTiles(g) :
        holdsFullGroup(registry, k, p) /\ \A v \in groupTiles(g) : ~registry[v].mortgaged
  BY <1>1 DEF WholeGroup, holdsFullGroup
<1>5. ASSUME NEW k \in groupTiles(g)
      PROVE  LET final == FinalLevels(registry, k, targets)
             IN  (/\ holdsFullGroup(registry, k, p)
                  /\ DOMAIN targets \subseteq groupTiles(k)
                  /\ \A t \in DOMAIN targets : Buildable(t) /\ targets[t] \in 0 .. MaxBuildings
                  /\ \A u \in groupTiles(k) :
                       /\ ~registry[u].mortgaged
                       /\ d * (final[u] - registry[u].houses) >= 0
                  /\ \E u \in groupTiles(k) : final[u] # registry[u].houses
                  /\ Rules.buildEvenly => \A u, v \in groupTiles(k) : final[u] - final[v] <= 1)
                 <=>
                 (/\ \A u \in groupTiles(g) : Buildable(u) /\ d * (targets[u] - registry[u].houses) >= 0
                  /\ \E u \in groupTiles(g) : targets[u] # registry[u].houses
                  /\ Rules.buildEvenly => \A u, v \in groupTiles(g) : targets[u] - targets[v] <= 1)
  <2>1. PICK final : final = FinalLevels(registry, k, targets)
    OBVIOUS
  <2>2. groupTiles(k) = groupTiles(g) /\ \A u \in groupTiles(g) : final[u] = targets[u]
    BY <1>1, <1>3, <2>1
  <2>3. holdsFullGroup(registry, k, p) /\ \A v \in groupTiles(g) : ~registry[v].mortgaged
    BY <1>4
  <2> QED BY <1>2, <2>1, <2>2, <2>3
<1> QED BY <1>1, <1>2, <1>5 DEF planBuildings

\* Some plan for a whole, even group is possible exactly while one of its tiles can take
\* a step: the lowest one, or the highest.
LEMMA GroupSteps ==
    ASSUME TypeInv, NEW g \in DOMAIN registry, Even(registry, g), NEW p,
           \A u \in groupTiles(g) : WholeGroup(u) /\ registry[u].owner = p,
           NEW d \in {1, -1}
    PROVE  (\E u \in groupTiles(g) : LevelsAllow(u, d)) <=>
             \E targets \in [groupTiles(g) -> 0 .. MaxBuildings] :
               planBuildings(registry, p, targets, d)
<1>1. /\ g \in Tiles /\ g \in groupTiles(g)
      /\ \A u \in groupTiles(g) : /\ groupTiles(u) = groupTiles(g)
                                  /\ registry[u].houses \in 0 .. MaxBuildings
  BY BoardOpen
<1>2. ASSUME NEW u \in groupTiles(g), LevelsAllow(u, d)
      PROVE  \E targets \in [groupTiles(g) -> 0 .. MaxBuildings] :
               planBuildings(registry, p, targets, d)
  <2>1. PICK targets :
          targets = [v \in groupTiles(g) |-> IF v = u THEN registry[v].houses + d
                                                      ELSE registry[v].houses]
    OBVIOUS
  <2>2. /\ Buildable(u) /\ registry[u].houses + d \in 0 .. MaxBuildings
        /\ Rules.buildEvenly =>
             \A v \in groupTiles(g) : d * (registry[u].houses - registry[v].houses) <= 0
    BY <1>1, <1>2 DEF LevelsAllow
  <2>3. /\ targets \in [groupTiles(g) -> 0 .. MaxBuildings]
        /\ \A v \in groupTiles(g) : targets[v] = IF v = u THEN registry[v].houses + d
                                                          ELSE registry[v].houses
    BY <1>1, <2>1, <2>2
  <2>4. \A v \in groupTiles(g) : Buildable(v)
    <3>1. Buildable(u) <=> Buildable(g)
      BY <1>1, PresetAssumption
    <3> QED BY <1>1, <2>2, <3>1, PresetAssumption
  <2>5. \A v \in groupTiles(g) : d * (targets[v] - registry[v].houses) >= 0
    BY <1>1, <2>3 DEF MaxBuildings
  <2>6. targets[u] # registry[u].houses
    BY <1>1, <2>3 DEF MaxBuildings
  <2>7. ASSUME Rules.buildEvenly, NEW v \in groupTiles(g), NEW w \in groupTiles(g)
        PROVE  targets[v] - targets[w] <= 1
    <3>1. registry[v].houses - registry[w].houses <= 1
      BY <2>7 DEF Even
    <3>2. /\ d * (registry[u].houses - registry[v].houses) <= 0
          /\ d * (registry[u].houses - registry[w].houses) <= 0
      BY <2>2, <2>7
    <3> QED BY <1>1, <2>3, <3>1, <3>2 DEF MaxBuildings
  <2>8. planBuildings(registry, p, targets, d)
    BY <2>3, <2>4, <2>5, <2>6, <2>7, GroupPlanned
  <2> QED BY <2>3, <2>8
<1>3. ASSUME NEW targets \in [groupTiles(g) -> 0 .. MaxBuildings],
             planBuildings(registry, p, targets, d)
      PROVE  \E u \in groupTiles(g) : LevelsAllow(u, d)
  <2>1. /\ \A u \in groupTiles(g) : Buildable(u) /\ d * (targets[u] - registry[u].houses) >= 0
        /\ \E u \in groupTiles(g) : targets[u] # registry[u].houses
    BY <1>3, GroupPlanned
  <2>2. PICK u \in groupTiles(g) : targets[u] # registry[u].houses
    BY <2>1
  <2>3. \A v \in groupTiles(g) : targets[v] \in 0 .. MaxBuildings
    OBVIOUS
  <2>4. registry[u].houses + d \in 0 .. MaxBuildings
    BY <1>1, <2>1, <2>2, <2>3 DEF MaxBuildings
  <2>5. CASE \A v \in groupTiles(g) : d * (registry[u].houses - registry[v].houses) <= 0
    BY <1>1, <2>1, <2>4, <2>5 DEF LevelsAllow
  <2>6. ASSUME NEW v \in groupTiles(g), ~(d * (registry[u].houses - registry[v].houses) <= 0)
        PROVE  \E w \in groupTiles(g) : LevelsAllow(w, d)
    <3>1. CASE ~Rules.buildEvenly
      BY <1>1, <2>1, <2>4, <3>1 DEF LevelsAllow
    <3>2. CASE Rules.buildEvenly
      <4>1. \A x, y \in groupTiles(g) : registry[x].houses - registry[y].houses <= 1
        BY <3>2 DEF Even
      <4>2. registry[v].houses = registry[u].houses - d
        <5>1. registry[v].houses - registry[u].houses <= 1 /\ registry[u].houses - registry[v].houses <= 1
          BY <4>1
        <5> QED BY <1>1, <2>6, <5>1 DEF MaxBuildings
      <4>3. registry[v].houses + d \in 0 .. MaxBuildings
        BY <1>1, <4>2 DEF MaxBuildings
      <4>4. ASSUME NEW w \in groupTiles(g) PROVE d * (registry[v].houses - registry[w].houses) <= 0
        <5>1. registry[w].houses - registry[u].houses <= 1 /\ registry[u].houses - registry[w].houses <= 1
          BY <4>1
        <5> QED BY <1>1, <4>2, <5>1 DEF MaxBuildings
      <4> QED BY <1>1, <2>1, <4>3, <4>4 DEF LevelsAllow
    <3> QED BY <3>1, <3>2
  <2> QED BY <2>5, <2>6
<1> QED BY <1>2, <1>3

\* The least of a level and the top one is the level.
LEMMA LeastOfTwo ==
    ASSUME NEW a \in Nat, NEW b \in Nat, a <= b
    PROVE  Min({a, b}) = a
<1>1. \E x \in {a, b} : \A y \in {a, b} : x <= y
  OBVIOUS
<1>2. Min({a, b}) \in {a, b} /\ \A y \in {a, b} : Min({a, b}) <= y
  BY <1>1 DEF Min
<1> QED BY <1>2

\* How many of a group the owner of one of its tiles holds: all, exactly if the group is theirs.
LEMMA HeldOfGroup ==
    ASSUME TypeInv, NEW t \in DOMAIN registry, NEW p, p = registry[t].owner
    PROVE  /\ ownedCount(registry, t, p) \in 1 .. Cardinality(groupTiles(t))
           /\ ownedCount(registry, t, p) = Cardinality(groupTiles(t)) <=>
                holdsFullGroup(registry, t, p)
<1>1. PICK S : S = {u \in groupTiles(t) : registry[u].owner = p}
  OBVIOUS
<1>2. PICK G : G = groupTiles(t)
  OBVIOUS
<1>3. IsFiniteSet(G)
  BY <1>2, BoardAssumption, FS_Subset DEF groupTiles
<1>4. t \in S /\ S \in SUBSET G
  BY <1>1, <1>2, BoardOpen
<1>5. S = G <=> holdsFullGroup(registry, t, p)
  BY <1>1, <1>2 DEF holdsFullGroup
<1>6. /\ IsFiniteSet(S) /\ Cardinality(S) <= Cardinality(G)
      /\ Cardinality(G) = Cardinality(S) => G = S
  BY <1>3, <1>4, FS_Subset
<1>7. Cardinality(S) \in Nat /\ Cardinality(G) \in Nat /\ Cardinality(S) # 0
  BY <1>3, <1>4, <1>6, FS_CardinalityType, FS_EmptySet
<1>8. Cardinality(S) \in 1 .. Cardinality(G)
  BY <1>6, <1>7
<1>9. ownedCount(registry, t, p) = Cardinality(S)
  BY <1>1 DEF ownedCount
<1> QED BY <1>2, <1>5, <1>6, <1>8, <1>9

\* The rent the client works out is known, and the one the server charges.
LEMMA RentAgrees ==
    ASSUME TypeInv, NEW t \in DOMAIN registry, registry[t].owner # Bank, ~registry[t].mortgaged
    PROVE  rentKnown(registry, t) /\ \A dice \in Dice : rentDue(t, dice) = rentFor(registry, t, dice)
<1>1. PICK owner : owner = registry[t].owner
  OBVIOUS
<1>2. PICK held : held = ownedCount(registry, t, owner)
  OBVIOUS
<1>3. PICK size : size = Cardinality(groupTiles(t))
  OBVIOUS
<1>4. t \in Tiles /\ registry[t].houses \in 0 .. MaxBuildings
  BY BoardOpen
<1>5. held \in 1 .. size /\ (held = size <=> holdsFullGroup(registry, t, owner))
  BY <1>1, <1>2, <1>3, HeldOfGroup
<1>6. /\ Tile[t].kind = "railway" => held \in DOMAIN Rules.railwayRent
      /\ Tile[t].kind = "utility" => held \in DOMAIN Rules.utilityDiceMultiplier
  BY <1>3, <1>4, <1>5, PresetAssumption
<1>7. rentKnown(registry, t)
  BY <1>1, <1>2, <1>6 DEF rentKnown
<1>8. held = Cardinality({u \in groupTiles(t) : registry[u].owner = registry[t].owner})
  BY <1>1, <1>2 DEF ownedCount
<1>9. groupBuilt(t) <=> groupHasBuildings(registry, t)
  BY DEF groupBuilt, groupHasBuildings
<1>10. ASSUME NEW dice \in Dice PROVE rentDue(t, dice) = rentFor(registry, t, dice)
  <2>1. rentDue(t, dice) =
          CASE Tile[t].kind = "railway" -> Rules.railwayRent[held]
            [] Tile[t].kind = "utility" ->
                 dice * Rules.utilityDiceMultiplier[held] * UtilityRentUnit
            [] Tile[t].kind = "street" ->
                 IF registry[t].houses > 0 THEN Tile[t].rent[Min({registry[t].houses, MaxBuildings})]
                 ELSE IF held = size /\ ~groupBuilt(t)
                        THEN Tile[t].rent[0] * Rules.monopolyBaseRentMultiplier
                 ELSE Tile[t].rent[0]
    BY <1>3, <1>8 DEF rentDue
  <2>2. rentFor(registry, t, dice) =
          CASE Tile[t].kind = "railway" -> Rules.railwayRent[held]
            [] Tile[t].kind = "utility" ->
                 Rules.utilityDiceMultiplier[held] * dice * UtilityRentUnit
            [] Tile[t].kind = "street" -> streetRent(registry, t)
    BY <1>1, <1>2 DEF rentFor
  <2>3. CASE Tile[t].kind = "railway"
    BY <2>1, <2>2, <2>3
  <2>4. CASE Tile[t].kind = "utility"
    <3>1. PICK m : m = Rules.utilityDiceMultiplier[held]
      OBVIOUS
    <3>2. m \in Nat /\ dice \in Nat
      BY <1>6, <2>4, <3>1, BoardAssumption, EstateAssumption
    <3>3. dice * m = m * dice
      BY <3>2
    <3> QED BY <2>1, <2>2, <2>4, <3>1, <3>3
  <2>5. CASE Tile[t].kind = "street"
    <3>1. Min({registry[t].houses, MaxBuildings}) = registry[t].houses
      BY <1>4, LeastOfTwo DEF MaxBuildings
    <3>2. streetRent(registry, t) =
            IF registry[t].houses > 0 THEN Tile[t].rent[registry[t].houses]
            ELSE IF held = size /\ ~groupBuilt(t)
                   THEN Tile[t].rent[0] * Rules.monopolyBaseRentMultiplier
            ELSE Tile[t].rent[0]
      BY <1>1, <1>5, <1>9 DEF streetRent
    <3> QED BY <2>1, <2>2, <2>5, <3>1, <3>2
  <2> QED BY <1>4, <2>3, <2>4, <2>5, BoardAssumption
<1> QED BY <1>7, <1>10

\* The sheet of a tile.
LEMMA TileOffers ==
    ASSUME TypeInv, TilesHeld, MortgagesMatchTiles, NEW t \in DOMAIN registry,
           Even(registry, t), NEW p \in Active
    PROVE  TileOffersAccepted(t, p)
<1>1. PICK offered : offered = tileIntents(t, p)
  OBVIOUS
<1>2. ASSUME WholeGroup(t), registry[t].owner = p
      PROVE  /\ "PROPERTY_BUILD" \in offered <=>
                  planBuildings(registry, p, One(t, registry[t].houses + 1), 1)
             /\ "PROPERTY_SELL_BUILDING" \in offered <=>
                  planBuildings(registry, p, One(t, registry[t].houses + (-1)), -1)
  <2>1. Steppable(t, p, 1) <=> canBuild(registry, t, p)
    BY DEF Steppable
  <2>2. Steppable(t, p, -1) <=> canSellBuilding(registry, t, p)
    BY DEF Steppable
  <2>3. "PROPERTY_BUILD" \in offered <=> LevelsAllow(t, 1)
    BY <1>1, <1>2, <2>1, SheetMeans, StepMeans
  <2>4. "PROPERTY_SELL_BUILDING" \in offered <=> LevelsAllow(t, -1)
    BY <1>1, <1>2, <2>2, SheetMeans, StepMeans
  <2>5. planBuildings(registry, p, One(t, registry[t].houses + 1), 1) <=> LevelsAllow(t, 1)
    BY <1>2, StepPlanned
  <2>6. planBuildings(registry, p, One(t, registry[t].houses + (-1)), -1) <=> LevelsAllow(t, -1)
    BY <1>2, StepPlanned
  <2> QED BY <2>3, <2>4, <2>5, <2>6
<1>3. ASSUME "MORTGAGE_REDEMPTION" \in offered
      PROVE  \E m \in ActiveMortgages : mortgages[m].item = t /\ mortgages[m].player = p
  <2>1. registry[t].owner = p /\ registry[t].mortgaged
    BY <1>1, <1>3, SheetMeans
  <2> QED BY <2>1 DEF MortgagesMatchTiles
<1>4. "MORTGAGE" \in offered => canMortgage(registry, t, p)
  BY <1>1, SheetMeans DEF canMortgage, groupBuilt, groupHasBuildings
<1>5. offered \cap {"PAY_RENT", "PROPERTY_TRANSFER"} # {} => registry[t].owner \in Active
  BY <1>1, SheetMeans DEF TilesHeld
<1>6. "PAY_RENT" \in offered =>
        rentKnown(registry, t) /\ \A dice \in Dice : rentDue(t, dice) = rentFor(registry, t, dice)
  BY <1>1, SheetMeans, RentAgrees
<1> QED BY <1>1, <1>2, <1>3, <1>4, <1>5, <1>6 DEF TileOffersAccepted

\* The building form lists a whole group exactly if a step on it is possible.
LEMMA GroupOffers ==
    ASSUME TypeInv, NEW g \in DOMAIN registry, Even(registry, g), NEW p,
           \A t \in groupTiles(g) : WholeGroup(t) /\ registry[t].owner = p
    PROVE  GroupOffersAccepted(groupTiles(g), p)
<1>1. /\ g \in groupTiles(g)
      /\ \A u \in groupTiles(g) : u \in DOMAIN registry /\ groupTiles(u) = groupTiles(g)
  BY BoardOpen
<1>2. \A u \in DOMAIN registry : u \in groupTiles(u)
  BY BoardOpen
<1>3. ASSUME NEW d \in {1, -1}
      PROVE  groupTiles(g) \in buildingGroups(p, d) <=>
               \E targets \in [groupTiles(g) -> 0 .. MaxBuildings] :
                 planBuildings(registry, p, targets, d)
  <2>1. buildingGroups(p, d) = {groupTiles(u) : u \in {v \in DOMAIN registry : Steppable(v, p, d)}}
    BY DEF buildingGroups, Steppable
  <2>2. groupTiles(g) \in buildingGroups(p, d) <=> \E u \in groupTiles(g) : Steppable(u, p, d)
    BY <1>1, <1>2, <2>1
  <2>3. \A u \in groupTiles(g) : Steppable(u, p, d) <=> LevelsAllow(u, d)
    BY <1>1, StepMeans
  <2>4. (\E u \in groupTiles(g) : LevelsAllow(u, d)) <=>
          \E targets \in [groupTiles(g) -> 0 .. MaxBuildings] :
            planBuildings(registry, p, targets, d)
    BY GroupSteps
  <2> QED BY <2>2, <2>3, <2>4
<1> QED BY <1>3 DEF GroupOffersAccepted

\* The trade dialog lets through the sides the server lets through.
LEMMA SidesAgree ==
    ASSUME TypeInv, NEW p \in Active, NEW q \in Players, NEW give, NEW take
    PROVE  sidesValid(p, q, give, take) <=> Tradable(p, q, give, take)
<1>1. \A t : groupBuilt(t) <=> groupHasBuildings(registry, t)
  BY DEF groupBuilt, groupHasBuildings
<1>2. ASSUME sidesValid(p, q, give, take) PROVE Tradable(p, q, give, take)
  <2>1. /\ q \in Active /\ p # q /\ give \cup take # {}
        /\ \A t \in give : t \in DOMAIN registry /\ registry[t].owner = p /\ ~groupBuilt(t)
        /\ \A t \in take : t \in DOMAIN registry /\ registry[t].owner = q /\ ~groupBuilt(t)
    BY <1>2 DEF sidesValid, tradable
  <2>2. give \cap take = {}
    BY <2>1
  <2> QED BY <1>1, <2>1, <2>2 DEF Tradable
<1>3. ASSUME Tradable(p, q, give, take) PROVE sidesValid(p, q, give, take)
  <2>1. /\ q \in Active /\ p # q /\ give \cup take # {}
        /\ \A t \in give : t \in DOMAIN registry /\ registry[t].owner = p /\ ~groupBuilt(t)
        /\ \A t \in take : t \in DOMAIN registry /\ registry[t].owner = q /\ ~groupBuilt(t)
    BY <1>1, <1>3 DEF Tradable
  <2> QED BY <2>1 DEF sidesValid, tradable
<1> QED BY <1>2, <1>3

\* ... and finds a party short exactly if the server would.
LEMMA ShortAgrees ==
    ASSUME TypeInv, NEW x, Tradable(x.from, x.to, x.give, x.take),
           x.cashGive \in Cash, x.cashTake \in Cash
    PROVE  ~short(x) <=> Covered(TransferDelta(x))
<1>1. x.from \in Players /\ x.to \in Players
  BY DEF Tradable, Active
<1>2. x.give \in SUBSET DOMAIN registry /\ x.take \in SUBSET DOMAIN registry
  BY DEF Tradable
<1>3. FeesOf(x.give) \in Nat /\ FeesOf(x.take) \in Nat
  BY <1>2, FeesNat DEF TypeInv
<1>4. x.cashGive \in Nat /\ x.cashTake \in Nat
  BY EstateAssumption
<1>5. \A p \in {x.from, x.to} : wallet[p] \in Nat
  BY <1>1 DEF TypeInv, MoneyTyped
<1>6. \A p \in {x.from, x.to} : tradeOutcome(x, p) \in Int
  BY <1>3, <1>4 DEF tradeOutcome
<1>7. /\ DOMAIN TransferDelta(x) = {x.from, x.to}
      /\ \A p \in {x.from, x.to} : TransferDelta(x)[p] = tradeOutcome(x, p)
  BY DEF TransferDelta, tradeOutcome
<1>8. short(x) <=> \E p \in {x.from, x.to} : wallet[p] + tradeOutcome(x, p) < 0
  BY DEF short
<1>9. Covered(TransferDelta(x)) <=> \A p \in {x.from, x.to} : wallet[p] + tradeOutcome(x, p) >= 0
  BY <1>7 DEF Covered
<1>10. \A p \in {x.from, x.to} :
         ~(wallet[p] + tradeOutcome(x, p) < 0) <=> wallet[p] + tradeOutcome(x, p) >= 0
  BY <1>5, <1>6
<1> QED BY <1>8, <1>9, <1>10

\* Everything offered, from the state of the books alone.
LEMMA AllOffers == TypeInv /\ HoldInv /\ StoryInv /\ BuildInv => OfferedIsAccepted
<1> SUFFICES ASSUME TypeInv, HoldInv, StoryInv, BuildInv PROVE OfferedIsAccepted
  OBVIOUS
<1>1. TilesHeld /\ MortgagesMatchTiles
  BY StoryTold DEF HoldInv, EstateHeld
<1>2. \A g \in DOMAIN registry : Even(registry, g)
  BY DEF BuildInv, EvenGroup
<1>3. \A p \in Active, t \in DOMAIN registry : TileOffersAccepted(t, p)
  BY <1>1, <1>2, TileOffers
<1>4. ASSUME NEW streets \in {groupTiles(t) : t \in {u \in DOMAIN registry : Buildable(u)}},
             NEW p \in Active, \A t \in streets : WholeGroup(t) /\ registry[t].owner = p
      PROVE  GroupOffersAccepted(streets, p)
  <2>1. PICK g \in DOMAIN registry : streets = groupTiles(g)
    OBVIOUS
  <2> QED BY <1>2, <1>4, <2>1, GroupOffers
<1>5. ASSUME NEW p \in Active, NEW q \in Players, NEW give \in Sides, NEW take \in Sides
      PROVE  sidesValid(p, q, give, take) <=> Tradable(p, q, give, take)
  BY SidesAgree
<1>6. ASSUME NEW p \in Active, NEW q \in Players, NEW give \in Sides, NEW take \in Sides,
             Tradable(p, q, give, take), NEW cashGive \in Cash, NEW cashTake \in Cash,
             NEW x, x = [from |-> p, to |-> q, give |-> give, take |-> take,
                         cashGive |-> cashGive, cashTake |-> cashTake]
      PROVE  ~short(x) <=> Covered(TransferDelta(x))
  <2>1. /\ Tradable(x.from, x.to, x.give, x.take)
        /\ x.cashGive \in Cash /\ x.cashTake \in Cash
    BY <1>6
  <2> QED BY <2>1, ShortAgrees
<1> QED BY <1>3, <1>4, <1>5, <1>6 DEF OfferedIsAccepted

\* What the client offers is what the server's rules accept, money aside, at every step
\* of every game: building steps and groups, redemptions, mortgages, rent and trades,
\* decided from the registry alone (utils/property-view.ts, TradeDialog.tsx;
\* OfferedIsAccepted).
THEOREM OffersAreAccepted == Spec => []OfferedIsAccepted
<1>1. Init => HoldInv /\ StoryInv /\ BuildInv
  BY InitHolds, InitStory, InitBuild
<1>2. TypeInv /\ TypeInv' /\ HoldInv /\ [Next]_vars => HoldInv'
  BY HoldKept
<1>3. TypeInv /\ TypeInv' /\ StoryInv /\ [Next]_vars => StoryInv'
  BY StoryKept
<1>4. TypeInv /\ TypeInv' /\ StoryInv /\ BuildInv /\ [Next]_vars => BuildInv'
  BY BuildKept
<1>5. Spec => []TypeInv
  BY BankTypes, PTL
<1>6. TypeInv /\ HoldInv /\ StoryInv /\ BuildInv => OfferedIsAccepted
  BY AllOffers
<1> QED BY <1>1, <1>2, <1>3, <1>4, <1>5, <1>6, PTL DEF Spec
=============================================================================
