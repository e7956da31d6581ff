---------------------------- MODULE MCAuctionSafe ----------------------------
(***************************************************************************)
(* Two scenes of Auction, checked side by side: two auctions with every    *)
(* command and no late write, and one auction whose trading is disturbed   *)
(* by the writes that outlive an eviction.  What moves money beside the    *)
(* auctions is started before the eviction and before the second lot.      *)
(***************************************************************************)
EXTENDS MCAuction

VARIABLE scene

\* The lots that are, or are about to be, in auction.
Lots == {a \in Auctions : auction[a] # NoRow}
        \cup ({t.job.lot : t \in running} \ {None})

SpendingKinds == {"DEBIT", "BANKRUPT", "FINISH"}

\* A task of one of these kinds takes the slot.
Starting(kinds) == running = {} /\ \E t \in running' : t.job.kind \in kinds

SafeInit == Init /\ scene \in {"commands", "late writes"}

SafeNext ==
  /\ Next
  /\ scene' = scene
  /\ crashes = 1 => ~Starting(SpendingKinds)
  /\ scene = "commands" =>
       /\ late' = {}
       /\ Cardinality(Lots)' = 2 => ~Starting(SpendingKinds)
  /\ scene = "late writes" =>
       /\ Cardinality(Lots)' <= 1
       /\ snapshot' = NoSnapshot
       /\ ~Starting(AllKinds \ TradingKinds)

SafeSpec == SafeInit /\ [][SafeNext]_<<vars, scene>>

\* A debit that outlives an eviction may land below a reserve made after it, so
\* reserves are covered only while every write lands in its own step.
ReservesHold == scene = "commands" => ReserveCovered
=============================================================================
