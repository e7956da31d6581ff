------------------------------- MODULE Money --------------------------------
(***************************************************************************)
(* Payments between wallets, the bank and the Free Parking pot, and the    *)
(* payment requests a payment becomes in CONFIRMATION mode.                *)
(***************************************************************************)
EXTENDS Ledger

CONSTANT Amounts     \* bound: the sums anybody types in

ASSUME AmountsAssumption == Amounts \subseteq Nat \ {0}

Rest == <<estate, credit, bankrupt, confirm, trades, now>>

Plain(tx) == Commit(tx) /\ UNCHANGED <<pot, requests>> /\ UNCHANGED Rest

playerToPlayer(p, q, a) ==
  /\ ~confirm
  /\ p # q
  /\ Plain(Tx("PLAYER_TO_PLAYER", Moves(p, q, a)))

playerToBank(p, a) == Plain(Tx("PLAYER_TO_BANK", Pays(p, a)))

bankToPlayer(p, a) == Plain(Tx("BANK_TO_PLAYER", Gets(p, a)))

\* Landing exactly on GO pays double.
passGo(p, exact) ==
  Plain(Tx("PASS_GO", Gets(p, IF exact THEN 2 * PassGoReward ELSE PassGoReward)))

FanDelta(p, a) ==
  [q \in Active |-> IF q = p THEN a * (1 - Cardinality(Active)) ELSE a]

playerToAll(p, a) ==
  /\ Active # {p}
  /\ Plain(Tx("PLAYER_TO_ALL", FanDelta(p, a)))

allToPlayer(p, a) ==
  /\ ~confirm
  /\ Active # {p}
  /\ Plain(Tx("ALL_TO_PLAYER", FanDelta(p, -a)))

\* The winner of a free-text lot; a board tile is sold by Estate.
auctionPayment(p, a) == Plain(Tx("AUCTION_PAYMENT", Pays(p, a)))

toJackpot(p, a) ==
  /\ Commit(Tx("TO_JACKPOT", Pays(p, a)))
  /\ pot' = pot + a
  /\ UNCHANGED requests /\ UNCHANGED Rest

\* The whole pot, if it still is the one the player reviewed.
jackpotPayout(p) ==
  /\ pot # 0
  /\ Commit(Tx("JACKPOT_PAYOUT", Gets(p, pot)))
  /\ pot' = 0
  /\ UNCHANGED requests /\ UNCHANGED Rest
-----------------------------------------------------------------------------
Request(kind, payer, recipient, a) ==
  [kind |-> kind, payer |-> payer, recipient |-> recipient, amount |-> a,
   state |-> "PENDING", due |-> now + TimeToLive, tx |-> 0]

pendingReservedAmount(p) ==
  LET asked == {r \in DOMAIN requests : requests[r].payer = p /\ Pending(requests, r)}
  IN SumFunction([r \in asked |-> requests[r].amount])

Available(p, a) == wallet[p] - pendingReservedAmount(p) >= a

\* One request per payer.  They are inserted by calls of their own: some of
\* them may be all that was written when another one fails.
createConfirmationRequests(payers, p, a) ==
  /\ confirm
  /\ payers # {} /\ p \notin payers
  /\ \A q \in payers : Available(q, a)
  /\ \E made \in (SUBSET payers) \ {{}} :
       /\ Len(requests) + Cardinality(made) <= MaxRequests
       /\ \E rows \in SetToSeqs({Request("PAYMENT", q, p, a) : q \in made}) :
            requests' = expirePending(requests) \o rows
  /\ UNCHANGED money /\ UNCHANGED Rest

requestPayment(p, q, a) == createConfirmationRequests({p}, q, a)

requestFromAll(p, a) == createConfirmationRequests(Active \ {p}, p, a)

\* The clock is read again by every statement of the batch: `later` is what
\* the one that marks the request sees, after the wallets were written.  A
\* loan is inserted only for a request so marked; a payment goes on without.
settle(r, later, tx) ==
  /\ Pending(requests, r)
  /\ later \in now .. now + 1 /\ later <= MaxTime
  /\ Commit([tx EXCEPT !.via = r])
  /\ requests' =
       IF requests[r].due > later
         THEN [expirePending(requests) EXCEPT ![r].state = "ACCEPTED", ![r].tx = NextId]
         ELSE expirePending(requests)
  /\ now' = later
  /\ UNCHANGED <<pot, estate, repayments, bankrupt, confirm, trades>>

acceptPayment(r, later) ==
  LET q == requests[r]
  IN /\ q.kind = "PAYMENT"
     /\ {q.payer, q.recipient} \subseteq Active
     /\ settle(r, later, Tx("PLAYER_TO_PLAYER", Moves(q.payer, q.recipient, q.amount)))
     /\ UNCHANGED loans

resolvePaymentRequest(r, state) ==
  /\ Pending(requests, r)
  /\ requests' = Resolve(requests, r, state)
  /\ UNCHANGED money /\ UNCHANGED Rest

\* Any reading of the requests expires the ones whose time has come.
listPaymentRequests ==
  /\ requests' = expirePending(requests)
  /\ requests' # requests
  /\ UNCHANGED money /\ UNCHANGED Rest

MoneyStep ==
  \/ \E p \in Active :
       \/ passGo(p, FALSE) \/ passGo(p, TRUE) \/ jackpotPayout(p)
       \/ \E a \in Amounts :
            \/ playerToBank(p, a) \/ bankToPlayer(p, a) \/ playerToAll(p, a)
            \/ allToPlayer(p, a) \/ auctionPayment(p, a) \/ toJackpot(p, a)
            \/ \E q \in Active : playerToPlayer(p, q, a)

RequestStep ==
  \/ \E p, q \in Players, a \in Amounts : requestPayment(p, q, a)
  \/ \E p \in Players, a \in Amounts : requestFromAll(p, a)
  \/ \E r \in DOMAIN requests :
       \/ \E later \in now .. now + 1 : acceptPayment(r, later)
       \/ \E state \in {"DECLINED", "CANCELLED"} : resolvePaymentRequest(r, state)
  \/ listPaymentRequests
=============================================================================
