----------------------------- MODULE MCAuction -----------------------------
(***************************************************************************)
(* Small instances of Auction.  Two bidders who can outbid each other once *)
(* or twice, an auction and its successor, and a clock long enough for a   *)
(* start, an extension and a settlement that comes late.                   *)
(***************************************************************************)
EXTENDS Auction, TLC

CONSTANTS p1, p2, x1, x2

OnePlayer == {p1}
TwoPlayers == {p1, p2}
OneAuction == {x1}
TwoAuctions == {x1, x2}
One == {1}
TradingKinds == {"START", "BID", "DEBIT", "BANKRUPT", "READ"}

PollKinds == {"START", "BID", "READ"}
WatchKinds == {"START", "BID", "READ", "SNAPSHOT"}

\* Bidders, and auctions, are interchangeable: no action or property names one.
Symmetry == Permutations(TwoPlayers) \cup Permutations(TwoAuctions)
=============================================================================
