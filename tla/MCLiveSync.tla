----------------------------- MODULE MCLiveSync -----------------------------
(***************************************************************************)
(* Small instances of LiveSync: one browser that follows the game, some    *)
(* commands of its own and some of other devices.  Its answers may be late *)
(* without bound, so what it sees before one is what any other sees.       *)
(***************************************************************************)
EXTENDS LiveSync, TLC

CONSTANT c1

OneClient == {c1}

\* Every version is a single broadcast; the client bids, others pay.
SingleKinds == {"PAY", "AUCTION"}
BidderHere == [PAY |-> {None}, AUCTION |-> {c1}]

\* A settlement has two broadcasts.
SettleKinds == {"SETTLE"}
NobodyHere == [SETTLE |-> {None}]

\* The client pays, and so do others.
PayKinds == {"PAY"}
PayerHere == [PAY |-> {c1, None}]
=============================================================================
