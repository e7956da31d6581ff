---------------------------- MODULE AuctionProofs ----------------------------
(***************************************************************************)
(* What holds of every auction, for any number of players, lots, crashes   *)
(* and failed steps, writes that outlive their step included.              *)
(*                                                                         *)
(* The argument follows the writes: a step changes D1 by a batch that was  *)
(* outstanding (BatchesAccounted), and what a batch was planned on either  *)
(* still holds when it arrives or its guard turns it away.                 *)
(***************************************************************************)
EXTENDS MCAuctionSafe, TLAPS

-----------------------------------------------------------------------------
(* Types *)

\* What the fields of a batch are used for is there.
BatchShape(w) ==
    /\ w.type \in {"START", "BID", "SALE", "NO_SALE"} => w.lot \in Auctions
    /\ w.type \in {"START", "BID", "DEBIT", "BANKRUPT", "SALE"} => w.player \in Players
    /\ w.type \in {"DEBIT", "SALE"} => w.amount <= w.before

LotStages == {"rearm", "realarm", "close", "closing", "record", "announce", "clear",
              "arm", "alarm"}

\* What the stage of a task works with is there.
TaskShape(t) ==
    /\ t.stage \in LotStages => t.lot \in Auctions
    /\ t.stage \in {"run", "writing", "arm", "alarm"} => t.job \in Commands
    /\ t.stage \in {"closing", "writing"} => t.batch \in Batch /\ BatchShape(t.batch)
    /\ t.stage = "closing" => t.batch.type \in {"SALE", "NO_SALE"} /\ t.batch.lot = t.lot
    /\ t.stage = "writing" => t.batch.type = t.job.kind

\* The queue runs one task at a time.
SlotOK ==
    /\ running \subseteq Task
    /\ \A t, u \in running : t = u
    /\ \A t \in running : TaskShape(t)

\* The rows of D1, and everything else.
RowsOK ==
    /\ balance \in [Players -> Nat]
    /\ status \in [Players -> {"ACTIVE", "BANKRUPT"}]
    /\ game \in {"ACTIVE", "FINISHED"}
    /\ auction \in [Auctions -> AuctionRow]
    /\ payments \in [Auctions -> Seq(Payment)]

RestOK ==
    /\ settled \subseteq Auctions
    /\ deadline \in [lot : Auctions, endsAt : Nat] \cup {None}
    /\ alarm \in Nat \cup {None}
    /\ checked \in BOOLEAN
    /\ alarmTail \in BOOLEAN
    /\ snapshot \in Snapshot
    /\ snapshot.stage # "idle" => snapshot.lot \in Auctions
    /\ announced \in [Auctions -> Nat]
    /\ late \subseteq Batch
    /\ \A w \in late : BatchShape(w)
    /\ now \in Nat
    /\ crashes \in Nat /\ errors \in Nat

\* The types, with the shapes that keep them.
TypeInv == RowsOK /\ SlotOK /\ RestOK

\* The task in the slot goes on as another one.
LEMMA BecomesKeeps ==
    ASSUME SlotOK, NEW t \in running, NEW u \in Task, TaskShape(u), Becomes(t, u)
    PROVE  SlotOK' /\ running' = {u}
<1>1. running' = {u}
  BY DEF SlotOK, Becomes
<1> QED BY <1>1 DEF SlotOK

\* The task leaves the slot.
LEMMA EndsKeeps ==
    ASSUME SlotOK, NEW t \in running, Ends(t)
    PROVE  SlotOK' /\ running' = {}
BY DEF SlotOK, Ends

\* A new task is well-formed.
LEMMA NewTaskFacts ==
    ASSUME NEW job \in Jobs
    PROVE  /\ NewTask(job) \in Task /\ TaskShape(NewTask(job))
           /\ NewTask(job).stage = "settle" /\ NewTask(job).job = job
           /\ job \in Commands => /\ [NewTask(job) EXCEPT !.stage = "run"] \in Task
                                  /\ TaskShape([NewTask(job) EXCEPT !.stage = "run"])
<1>1. NewTask(job) \in Task /\ NewTask(job).stage = "settle" /\ NewTask(job).job = job
  BY DEF NewTask, Task, Stages
<1>2. ASSUME job \in Commands
      PROVE  /\ [NewTask(job) EXCEPT !.stage = "run"] \in Task
             /\ [NewTask(job) EXCEPT !.stage = "run"].stage = "run"
             /\ [NewTask(job) EXCEPT !.stage = "run"].job = job
  BY <1>1 DEF Task, Stages
<1> HIDE DEF Jobs, Task
<1> QED BY <1>1, <1>2 DEF TaskShape, LotStages

\* Where a settlement ends, a command goes on and everything else leaves.
LEMMA SettlementOverKeeps ==
    ASSUME SlotOK, NEW t \in running, alarmTail \in BOOLEAN, SettlementOver(t)
    PROVE  /\ SlotOK' /\ alarmTail' \in BOOLEAN
           /\ \A u \in running' : u.stage = "run"
<1>1. t \in Task /\ t.job \in Jobs
  BY DEF SlotOK, Task
<1>2. CASE t.job \in Commands
  <2> DEFINE u == [NewTask(t.job) EXCEPT !.stage = "run"]
  <2>1. u \in Task /\ TaskShape(u) /\ Becomes(t, u) /\ UNCHANGED alarmTail
    BY <1>1, <1>2, NewTaskFacts DEF SettlementOver
  <2>2. u.stage = "run"
    BY DEF NewTask
  <2> HIDE DEF u
  <2> QED BY <2>1, <2>2, BecomesKeeps
<1>3. CASE t.job \notin Commands
  BY <1>3, EndsKeeps DEF SettlementOver
<1> QED BY <1>2, <1>3

\* Where it throws, so it does, or the alarm is set again.
LEMMA SettlementThrowsKeeps ==
    ASSUME SlotOK, NEW t \in running, alarmTail \in BOOLEAN, SettlementThrows(t),
           alarm \in Nat \cup {None}, now \in Nat
    PROVE  /\ SlotOK' /\ alarmTail' \in BOOLEAN /\ alarm' \in Nat \cup {None}
           /\ \A u \in running' : u.stage = "run"
<1>1. CASE t.job.kind = "ALARM"
  BY <1>1, EndsKeeps DEF SettlementThrows
<1>2. CASE t.job.kind # "ALARM"
  BY <1>2, SettlementOverKeeps DEF SettlementThrows
<1> QED BY <1>1, <1>2

\* The row of an auction after a batch, case by case.
LEMMA RowCases ==
    ASSUME NEW w, NEW a
    PROVE  LET row == auction[a]
               next == row.version + 1
           IN /\ w.type = "START" /\ w.lot = a =>
                   RowAfter(w, a) = [state |-> "ACTIVE", bid |-> 0, leader |-> None,
                                     version |-> 1, endsAt |-> w.at + Duration]
              /\ w.type = "BID" /\ w.lot = a =>
                   RowAfter(w, a) = [row EXCEPT !.bid = w.amount, !.leader = w.player,
                                       !.version = next,
                                       !.endsAt = Later(row.endsAt, w.at + Extension)]
              /\ w.type = "SALE" /\ w.lot = a =>
                   RowAfter(w, a) = [row EXCEPT !.state = "SOLD", !.version = next]
              /\ w.type = "NO_SALE" /\ w.lot = a =>
                   RowAfter(w, a) = [row EXCEPT !.state = "NO_SALE", !.version = next]
              /\ w.type = "BANKRUPT" /\ row.state = "ACTIVE" /\ row.leader = w.player =>
                   RowAfter(w, a) = [row EXCEPT !.leader = None, !.version = next]
              /\ w.type = "BANKRUPT" /\ ~(row.state = "ACTIVE" /\ row.leader = w.player) =>
                   RowAfter(w, a) = row
              /\ w.type \notin {"START", "BID", "SALE", "NO_SALE", "BANKRUPT"} =>
                   RowAfter(w, a) = row
              /\ w.type # "BANKRUPT" /\ w.lot # a => RowAfter(w, a) = row
<1> DEFINE row == auction[a]
           next == row.version + 1
<1>1. ASSUME w.type = "START", w.lot = a
      PROVE  RowAfter(w, a) = [state |-> "ACTIVE", bid |-> 0, leader |-> None,
                               version |-> 1, endsAt |-> w.at + Duration]
  BY <1>1 DEF RowAfter
<1>2. ASSUME w.type = "BID", w.lot = a
      PROVE  RowAfter(w, a) = [row EXCEPT !.bid = w.amount, !.leader = w.player,
                                 !.version = next,
                                 !.endsAt = Later(row.endsAt, w.at + Extension)]
  BY <1>2 DEF RowAfter
<1>3. ASSUME w.type = "SALE", w.lot = a
      PROVE  RowAfter(w, a) = [row EXCEPT !.state = "SOLD", !.version = next]
  BY <1>3 DEF RowAfter
<1>4. ASSUME w.type = "NO_SALE", w.lot = a
      PROVE  RowAfter(w, a) = [row EXCEPT !.state = "NO_SALE", !.version = next]
  BY <1>4 DEF RowAfter
<1>5. ASSUME w.type = "BANKRUPT", row.state = "ACTIVE", row.leader = w.player
      PROVE  RowAfter(w, a) = [row EXCEPT !.leader = None, !.version = next]
  BY <1>5 DEF RowAfter
<1>6. ASSUME \/ w.type \notin {"START", "BID", "SALE", "NO_SALE", "BANKRUPT"}
             \/ w.type = "BANKRUPT" /\ ~(row.state = "ACTIVE" /\ row.leader = w.player)
             \/ w.type # "BANKRUPT" /\ w.lot # a
      PROVE  RowAfter(w, a) = row
  BY <1>6 DEF RowAfter
<1> HIDE DEF row, next
<1> QED BY <1>1, <1>2, <1>3, <1>4, <1>5, <1>6 DEF row, next

\* The batches that write the row of the auction a.
Touches(w, a) ==
    \/ w.type \in {"START", "BID", "SALE", "NO_SALE"} /\ w.lot = a
    \/ w.type = "BANKRUPT" /\ auction[a].state = "ACTIVE" /\ auction[a].leader = w.player

\* The same field by field, for well-formed batches and rows.
LEMMA RowFields ==
    ASSUME NEW a, auction[a] \in AuctionRow, NEW w \in Batch, BatchShape(w)
    PROVE  LET row == auction[a]
               new == RowAfter(w, a)
           IN /\ new \in AuctionRow
              /\ ~Touches(w, a) => new = row
              /\ Touches(w, a) /\ w.type # "START" =>
                    new.version = row.version + 1 /\ new.endsAt >= row.endsAt
              /\ Touches(w, a) /\ w.type = "START" =>
                    /\ new.state = "ACTIVE" /\ new.leader = None /\ new.bid = 0
                    /\ new.version = 1 /\ new.endsAt = w.at + Duration
              /\ Touches(w, a) /\ w.type = "BID" =>
                    new.state = row.state /\ new.bid = w.amount /\ new.leader = w.player
              /\ Touches(w, a) /\ w.type \in {"SALE", "NO_SALE"} =>
                    /\ new.state = IF w.type = "SALE" THEN "SOLD" ELSE "NO_SALE"
                    /\ new.bid = row.bid /\ new.leader = row.leader
                    /\ new.endsAt = row.endsAt
              /\ Touches(w, a) /\ w.type = "BANKRUPT" =>
                    /\ new.state = row.state /\ new.bid = row.bid /\ new.leader = None
                    /\ new.endsAt = row.endsAt
<1> DEFINE row == auction[a]
           new == RowAfter(w, a)
<1>1. /\ row \in AuctionRow /\ row.version + 1 \in Nat
      /\ row.endsAt \in Nat /\ w.at + Extension \in Nat /\ w.at + Duration \in Nat
      /\ w.amount \in Nat /\ w.player \in Players \cup {None}
      /\ w.type \in {"START", "BID", "DEBIT", "BANKRUPT", "FINISH", "SALE", "NO_SALE"}
  BY TimesAssumption DEF AuctionRow, Batch
<1>2. CASE ~Touches(w, a)
  <2>1. new = row
    BY <1>1, <1>2, RowCases DEF Touches
  <2> QED BY <1>1, <1>2, <2>1
<1>3. CASE Touches(w, a) /\ w.type = "START"
  <2>1. new = [state |-> "ACTIVE", bid |-> 0, leader |-> None,
               version |-> 1, endsAt |-> w.at + Duration]
    BY <1>3, RowCases DEF Touches
  <2> HIDE DEF new, row
  <2>2. new \in AuctionRow
    BY <1>1, <2>1 DEF AuctionRow, AuctionStates
  <2> QED BY <1>3, <2>1, <2>2 DEF new, row
<1>4. CASE Touches(w, a) /\ w.type = "BID"
  <2> DEFINE ends == Later(row.endsAt, w.at + Extension)
             next == row.version + 1
  <2>1. new = [row EXCEPT !.bid = w.amount, !.leader = w.player, !.version = next, !.endsAt = ends]
    BY <1>4, RowCases DEF Touches
  <2>2. ends \in Nat /\ ends >= row.endsAt /\ next \in Nat /\ w.player \in Players
    BY <1>1, <1>4 DEF Later, BatchShape
  <2>3. next = row.version + 1
    OBVIOUS
  <2> HIDE DEF new, row, ends, next
  <2>4. /\ new \in AuctionRow /\ new.state = row.state /\ new.bid = w.amount
        /\ new.leader = w.player /\ new.version = next /\ new.endsAt = ends
    BY <1>1, <2>1, <2>2 DEF AuctionRow
  <2> QED BY <1>4, <2>2, <2>3, <2>4 DEF new, row
<1>5. CASE Touches(w, a) /\ w.type \in {"SALE", "NO_SALE"}
  <2> DEFINE state == IF w.type = "SALE" THEN "SOLD" ELSE "NO_SALE"
             next == row.version + 1
  <2>0. w.lot = a
    BY <1>5 DEF Touches
  <2>1. new = [row EXCEPT !.state = state, !.version = next]
    <3>1. ASSUME w.type = "SALE" PROVE new = [row EXCEPT !.state = state, !.version = next]
      <4>1. new = [row EXCEPT !.state = "SOLD", !.version = next]
        BY <2>0, <3>1 DEF RowAfter
      <4>2. state = "SOLD"
        BY <3>1
      <4> QED BY <4>1, <4>2
    <3>2. ASSUME w.type = "NO_SALE" PROVE new = [row EXCEPT !.state = state, !.version = next]
      <4>1. new = [row EXCEPT !.state = "NO_SALE", !.version = next]
        BY <2>0, <3>2 DEF RowAfter
      <4>2. state = "NO_SALE"
        BY <3>2
      <4> QED BY <4>1, <4>2
    <3> QED BY <1>5, <3>1, <3>2
  <2>2. state \in AuctionStates /\ next = row.version + 1 /\ next \in Nat
        /\ state = IF w.type = "SALE" THEN "SOLD" ELSE "NO_SALE"
    BY <1>1 DEF AuctionStates
  <2> HIDE DEF new, row, state, next
  <2>3. /\ new \in AuctionRow /\ new.state = state /\ new.bid = row.bid
        /\ new.leader = row.leader /\ new.version = next /\ new.endsAt = row.endsAt
        /\ row.endsAt \in Nat
    BY <1>1, <2>1, <2>2 DEF AuctionRow
  <2>4. new.endsAt >= row.endsAt
    BY <2>3
  <2> QED BY <1>5, <2>2, <2>3, <2>4 DEF new, row
<1>6. CASE Touches(w, a) /\ w.type = "BANKRUPT"
  <2> DEFINE next == row.version + 1
  <2>1. new = [row EXCEPT !.leader = None, !.version = next]
    <3>1. w.type = "BANKRUPT" /\ row.state = "ACTIVE" /\ row.leader = w.player
      BY <1>6 DEF Touches
    <3> QED BY <3>1 DEF RowAfter
  <2>2. next = row.version + 1 /\ next \in Nat
    BY <1>1
  <2> HIDE DEF new, row, next
  <2>3. /\ new \in AuctionRow /\ new.state = row.state /\ new.bid = row.bid
        /\ new.leader = None /\ new.version = next /\ new.endsAt = row.endsAt
        /\ row.endsAt \in Nat
    BY <1>1, <2>1, <2>2 DEF AuctionRow
  <2>4. new.endsAt >= row.endsAt
    BY <2>3
  <2> QED BY <1>6, <2>2, <2>3, <2>4 DEF new, row
<1>7. Touches(w, a) => w.type \in {"START", "BID", "SALE", "NO_SALE", "BANKRUPT"}
  BY DEF Touches
<1> QED BY <1>2, <1>3, <1>4, <1>5, <1>6, <1>7

\* What a well-formed batch writes has its type.
LEMMA WriteKeepsRows ==
    ASSUME RowsOK, NEW w \in Batch, BatchShape(w), Write(w)
    PROVE  RowsOK'
<1>1. auction' \in [Auctions -> AuctionRow]
  <2>1. ASSUME NEW a \in Auctions PROVE RowAfter(w, a) \in AuctionRow
    BY RowFields DEF RowsOK
  <2> QED BY <2>1 DEF Write
<1>2. balance' \in [Players -> Nat]
  <2>1. CASE w.type \in {"DEBIT", "SALE"}
    <3>1. w.before - w.amount \in Nat
      BY <2>1 DEF Batch, BatchShape
    <3>2. balance' = [balance EXCEPT ![w.player] = w.before - w.amount]
      BY <2>1 DEF Write
    <3> QED BY <3>1, <3>2 DEF RowsOK
  <2>2. CASE w.type \notin {"DEBIT", "SALE"}
    BY <2>2 DEF Write, RowsOK
  <2> QED BY <2>1, <2>2
<1>3. payments' \in [Auctions -> Seq(Payment)]
  <2>1. CASE w.type = "SALE"
    <3>1. [player |-> w.player, amount |-> w.amount] \in Payment
      BY <2>1 DEF Payment, Batch, BatchShape
    <3>2. w.lot \in Auctions /\ payments[w.lot] \in Seq(Payment)
      BY <2>1 DEF BatchShape, RowsOK
    <3>3. Append(payments[w.lot], [player |-> w.player, amount |-> w.amount]) \in Seq(Payment)
      BY <3>1, <3>2
    <3>4. payments' = [payments EXCEPT ![w.lot] =
                         Append(@, [player |-> w.player, amount |-> w.amount])]
      BY <2>1 DEF Write
    <3> QED BY <3>3, <3>4 DEF RowsOK
  <2>2. CASE w.type # "SALE"
    BY <2>2 DEF Write, RowsOK
  <2> QED BY <2>1, <2>2
<1> QED BY <1>1, <1>2, <1>3 DEF Write, RowsOK

-----------------------------------------------------------------------------
(* The batches that are planned *)

Settlement(a) ==
    IF Saleable(auction[a])
    THEN NewBatch("SALE", a, auction[a].leader, auction[a].bid)
    ELSE NewBatch("NO_SALE", a, None, 0)

\* A settlement of an auction that is due, or a command that its rules allow.
Planned(w) ==
    \/ \E a \in Auctions : isAuctionDue(auction[a], now) /\ w = Settlement(a)
    \/ \E job \in Commands : Allowed(job) /\ w = BatchOf(job)

\* A planned batch is well-formed.
LEMMA SettlementFacts ==
    ASSUME RowsOK, NEW a \in Auctions
    PROVE  LET w == Settlement(a)
           IN /\ w \in Batch /\ BatchShape(w)
              /\ w.type \in {"SALE", "NO_SALE"} /\ w.lot = a
              /\ w.version = auction[a].version
              /\ w.type = "SALE" => /\ w.player = auction[a].leader
                                    /\ w.amount = auction[a].bid
<1>1. auction[a] \in AuctionRow /\ a # None
  BY NoneAssumption DEF RowsOK
<1>2. CASE Saleable(auction[a])
  <2>1. auction[a].leader \in Players /\ auction[a].leader # None
    BY <1>1, <1>2 DEF Saleable, AuctionRow
  <2>2. balance[auction[a].leader] \in Nat /\ balance[auction[a].leader] >= auction[a].bid
        /\ auction[a].bid \in Nat /\ auction[a].version \in Nat
    BY <1>1, <1>2, <2>1 DEF Saleable, RowsOK, AuctionRow
  <2>3. Settlement(a) = [type |-> "SALE", lot |-> a, player |-> auction[a].leader,
                         amount |-> auction[a].bid, version |-> auction[a].version,
                         before |-> balance[auction[a].leader], at |-> 0]
    BY <1>1, <1>2, <2>1 DEF Settlement, NewBatch
  <2> QED BY <2>1, <2>2, <2>3 DEF Batch, BatchShape
<1>3. CASE ~Saleable(auction[a])
  <2>1. Settlement(a) = [type |-> "NO_SALE", lot |-> a, player |-> None, amount |-> 0,
                         version |-> auction[a].version, before |-> 0, at |-> 0]
    BY <1>1, <1>3 DEF Settlement, NewBatch
  <2> QED BY <1>1, <2>1 DEF Batch, BatchShape, AuctionRow
<1> QED BY <1>2, <1>3

\* The parts of a command.
LEMMA CommandFacts ==
    ASSUME NEW job \in Commands
    PROVE  /\ job.kind \in {"START", "BID", "DEBIT", "BANKRUPT", "FINISH"}
           /\ job.kind \in {"START", "BID"} => job.lot \in Auctions
           /\ job.kind \notin {"START", "BID"} => job.lot = None
           /\ job.kind # "FINISH" => job.player \in Players
           /\ job.kind = "FINISH" => job.player = None
           /\ job.value \in Nat
           /\ job \in Jobs
<1>1. CASE job \in [kind : {"START"}, player : Players, lot : Auctions, value : {0}]
  BY <1>1 DEF Jobs
<1>2. CASE job \in [kind : {"BID"}, player : Players, lot : Auctions, value : Steps]
  <2>1. job.value \in Nat
    BY <1>2, AmountsAssumption
  <2> QED BY <1>2, <2>1 DEF Jobs
<1>3. CASE job \in [kind : {"DEBIT"}, player : Players, lot : {None}, value : Amounts]
  <2>1. job.value \in Nat
    BY <1>3, AmountsAssumption
  <2> QED BY <1>3, <2>1 DEF Jobs
<1>4. CASE job \in [kind : {"BANKRUPT"}, player : Players, lot : {None}, value : {0}]
  BY <1>4 DEF Jobs
<1>5. CASE job \in [kind : {"FINISH"}, player : {None}, lot : {None}, value : {0}]
  BY <1>5 DEF Jobs
<1> QED BY <1>1, <1>2, <1>3, <1>4, <1>5 DEF Commands

\* The batch of a command that its rules allow.
LEMMA BatchOfFacts ==
    ASSUME RowsOK, now \in Nat, NEW job \in Commands, Allowed(job)
    PROVE  /\ BatchOf(job) \in Batch /\ BatchShape(BatchOf(job))
           /\ BatchOf(job).type = job.kind /\ BatchOf(job).lot = job.lot
           /\ BatchOf(job).player = job.player
<1> DEFINE amount == IF job.kind = "BID" THEN nextBid(auction[job.lot], job.value)
                     ELSE job.value
           version == IF job.lot = None THEN 0 ELSE auction[job.lot].version
           before == IF job.player = None THEN 0 ELSE balance[job.player]
           at == IF job.kind \in {"START", "BID"} THEN now ELSE 0
<1>1. BatchOf(job) = [type |-> job.kind, lot |-> job.lot, player |-> job.player,
                      amount |-> amount, version |-> version, before |-> before,
                      at |-> at]
  BY DEF BatchOf, NewBatch
<1>2. amount \in Nat
  <2>1. CASE job.kind = "BID"
    <3>1. auction[job.lot].bid \in Nat /\ job.value \in Nat /\ MinBid \in Nat
      BY <2>1, CommandFacts, AmountsAssumption DEF RowsOK, AuctionRow
    <3> QED BY <2>1, <3>1 DEF nextBid, Later
  <2> QED BY <2>1, CommandFacts
<1>3. version \in Nat /\ before \in Nat /\ at \in Nat
  BY CommandFacts DEF RowsOK, AuctionRow
<1>4. job.kind = "DEBIT" => amount <= before
  <2>1. job.kind = "DEBIT" => MayDebit(job.player, job.value) /\ job.player # None
    BY CommandFacts, NoneAssumption DEF Allowed
  <2> QED BY <1>2, <1>3, <2>1 DEF MayDebit
<1> HIDE DEF amount, version, before, at
<1>5. BatchOf(job) \in Batch
  BY <1>1, <1>2, <1>3, CommandFacts DEF Batch
<1>6. BatchShape(BatchOf(job))
  BY <1>1, <1>4, CommandFacts DEF BatchShape
<1> QED BY <1>1, <1>5, <1>6

-----------------------------------------------------------------------------
(* The types hold *)

\* The writes that a set of tasks has sent.
SentBy(tasks) == {t.batch : t \in {u \in tasks : u.stage \in {"closing", "writing"}}}

\* What outlives its task was sent by it, and is well-formed.
LEMMA AbandonKeeps ==
    ASSUME SlotOK, NEW tasks \in SUBSET running, Abandon(tasks),
           late \subseteq Batch, \A w \in late : BatchShape(w)
    PROVE  /\ late' \subseteq late \cup SentBy(tasks)
           /\ late' \subseteq Batch /\ \A w \in late' : BatchShape(w)
<1>1. late' \subseteq late \cup SentBy(tasks)
  BY DEF Abandon, SentBy
<1>2. SentBy(tasks) \subseteq Batch /\ \A w \in SentBy(tasks) : BatchShape(w)
  BY DEF SentBy, SlotOK, TaskShape
<1> QED BY <1>1, <1>2

\* Every step of a task keeps the types.
LEMMA TaskKeepsTypes ==
    ASSUME TypeInv, TaskStep
    PROVE  TypeInv'
<1> USE DEF TypeInv
<1>1. PICK t \in running :
        \/ ReadDeadline(t) \/ PlanSettlement(t) \/ Settle(t) \/ RecordSettlement(t)
        \/ AnnounceSettlement(t) \/ ClearDeadline(t) \/ Execute(t) \/ Commit(t)
        \/ StoreDeadline(t) \/ SetAlarm(t)
  BY DEF TaskStep
<1>2. t \in Task /\ TaskShape(t) /\ t.job \in Jobs
  BY DEF SlotOK, Task
<1>3. ASSUME NEW u \in Task, TaskShape(u), Becomes(t, u) PROVE SlotOK'
  BY <1>3, BecomesKeeps
<1>4. ASSUME UNCHANGED d1Vars PROVE RowsOK'
  BY <1>4 DEF d1Vars, RowsOK
<1>5. CASE ReadDeadline(t)
  <2>1. SlotOK' /\ alarmTail' \in BOOLEAN /\ checked' \in BOOLEAN
    <3>1. CASE SettlementOver(t)
      BY <1>5, <3>1, SettlementOverKeeps DEF ReadDeadline, RestOK
    <3>2. ASSUME NEW a \in Active,
                 Becomes(t, [t EXCEPT !.stage = "rearm", !.lot = a,
                                      !.ends = auction[a].endsAt])
          PROVE  SlotOK'
      <4> DEFINE u == [t EXCEPT !.stage = "rearm", !.lot = a, !.ends = auction[a].endsAt]
      <4>1. a \in Auctions /\ auction[a].endsAt \in Nat
        BY DEF Active, RowsOK, AuctionRow
      <4>2. u \in Task /\ u.stage = "rearm" /\ u.lot = a
        BY <1>2, <4>1 DEF Task, Stages
      <4>3. Becomes(t, u)
        BY <3>2
      <4> HIDE DEF u
      <4>4. TaskShape(u)
        BY <4>1, <4>2 DEF TaskShape
      <4> QED BY <1>3, <4>2, <4>3, <4>4
    <3>3. ASSUME NEW stage \in {"clear", "close"}, deadline # None,
                 Becomes(t, [t EXCEPT !.lot = deadline.lot, !.tries = 0, !.stage = stage])
          PROVE  SlotOK'
      <4> DEFINE u == [t EXCEPT !.lot = deadline.lot, !.tries = 0, !.stage = stage]
      <4>1. deadline.lot \in Auctions
        BY <3>3 DEF RestOK
      <4>2. u \in Task /\ u.stage = stage /\ u.lot = deadline.lot
        BY <1>2, <4>1 DEF Task, Stages
      <4>3. Becomes(t, u)
        BY <3>3
      <4> HIDE DEF u
      <4>4. TaskShape(u)
        BY <4>1, <4>2 DEF TaskShape
      <4> QED BY <1>3, <4>2, <4>3, <4>4
    <3>4. \/ SettlementOver(t)
          \/ /\ UNCHANGED alarmTail /\ checked' \in BOOLEAN
             /\ \/ \E a \in Active :
                     Becomes(t, [t EXCEPT !.stage = "rearm", !.lot = a,
                                          !.ends = auction[a].endsAt])
                \/ /\ deadline # None
                   /\ \E stage \in {"clear", "close"} :
                        Becomes(t, [t EXCEPT !.lot = deadline.lot, !.tries = 0,
                                             !.stage = stage])
      BY <1>5 DEF ReadDeadline, RestOK
    <3>5. checked' \in BOOLEAN
      BY <1>5 DEF ReadDeadline, RestOK
    <3> QED BY <3>1, <3>2, <3>3, <3>4, <3>5 DEF RestOK
  <2> QED BY <1>4, <1>5, <2>1 DEF ReadDeadline, RestOK, storageVars, bounds
<1>6. CASE PlanSettlement(t)
  <2>1. t.stage = "close" /\ t.lot \in Auctions
    BY <1>2, <1>6 DEF PlanSettlement, TaskShape, LotStages
  <2>2. \/ Becomes(t, [t EXCEPT !.stage = "closing", !.tries = @ + 1,
                                !.batch = Settlement(t.lot)]) /\ UNCHANGED alarmTail
        \/ SettlementOver(t)
        \/ Becomes(t, [t EXCEPT !.stage = "record"]) /\ UNCHANGED alarmTail
    BY <1>6 DEF PlanSettlement, Settlement
  <2>3. SlotOK' /\ alarmTail' \in BOOLEAN
    <3>1. CASE Becomes(t, [t EXCEPT !.stage = "closing", !.tries = @ + 1,
                                    !.batch = Settlement(t.lot)]) /\ UNCHANGED alarmTail
      <4> DEFINE w == Settlement(t.lot)
                 tries == t.tries + 1
                 u == [t EXCEPT !.stage = "closing", !.tries = tries, !.batch = w]
      <4>1. Settlement(t.lot) \in Batch /\ BatchShape(Settlement(t.lot))
            /\ Settlement(t.lot).type \in {"SALE", "NO_SALE"}
            /\ Settlement(t.lot).lot = t.lot
        BY <2>1, SettlementFacts
      <4>2. tries \in Nat
        BY <1>2 DEF Task
      <4>3. Becomes(t, u)
        BY <3>1
      <4> HIDE DEF w, tries
      <4>4. u \in Task /\ u.stage = "closing" /\ u.lot = t.lot /\ u.batch = w
        BY <1>2, <4>1, <4>2 DEF Task, Stages, w
      <4> HIDE DEF u
      <4>5. TaskShape(u)
        BY <2>1, <4>1, <4>4 DEF TaskShape, w
      <4> QED BY <1>3, <3>1, <4>3, <4>4, <4>5 DEF RestOK
    <3>2. CASE SettlementOver(t)
      BY <3>2, SettlementOverKeeps DEF RestOK
    <3>3. CASE Becomes(t, [t EXCEPT !.stage = "record"]) /\ UNCHANGED alarmTail
      <4> DEFINE u == [t EXCEPT !.stage = "record"]
      <4>1. u \in Task /\ TaskShape(u) /\ Becomes(t, u)
        BY <1>2, <2>1, <3>3 DEF Task, Stages, TaskShape, LotStages
      <4> HIDE DEF u
      <4> QED BY <1>3, <3>3, <4>1 DEF RestOK
    <3> QED BY <2>2, <3>1, <3>2, <3>3
  <2> QED BY <1>4, <1>6, <2>3 DEF PlanSettlement, RestOK, storageVars, bounds
<1>7. CASE Settle(t)
  <2>1. /\ t.stage = "closing" /\ t.lot \in Auctions
        /\ t.batch \in Batch /\ BatchShape(t.batch)
    BY <1>2, <1>7 DEF Settle, TaskShape, LotStages
  <2>2. RowsOK'
    BY <1>4, <1>7, <2>1, WriteKeepsRows DEF Settle
  <2>3. SlotOK' /\ alarmTail' \in BOOLEAN /\ alarm' \in Nat \cup {None}
    <3>1. CASE /\ Becomes(t, [t EXCEPT !.stage = "close", !.batch = None])
               /\ UNCHANGED <<alarm, alarmTail>>
      <4> DEFINE u == [t EXCEPT !.stage = "close", !.batch = None]
      <4>1. u \in Task /\ u.stage = "close" /\ u.lot = t.lot /\ Becomes(t, u)
        BY <1>2, <3>1 DEF Task, Stages
      <4> HIDE DEF u
      <4>2. TaskShape(u)
        BY <2>1, <4>1 DEF TaskShape
      <4> QED BY <1>3, <3>1, <4>1, <4>2 DEF RestOK
    <3>2. CASE SettlementThrows(t)
      BY <3>2, SettlementThrowsKeeps DEF RestOK
    <3> QED BY <1>7, <3>1, <3>2 DEF Settle
  <2> QED BY <1>7, <2>2, <2>3 DEF Settle, RestOK, bounds
<1>8. CASE RecordSettlement(t)
  <2> DEFINE u == [t EXCEPT !.stage = "announce"]
  <2>1. t.lot \in Auctions
    BY <1>2, <1>8 DEF RecordSettlement, TaskShape, LotStages
  <2>2. u \in Task /\ u.stage = "announce" /\ u.lot = t.lot /\ Becomes(t, u)
    BY <1>2, <1>8 DEF RecordSettlement, Task, Stages
  <2> HIDE DEF u
  <2>3. SlotOK'
    BY <1>3, <2>1, <2>2 DEF TaskShape
  <2> QED BY <1>4, <1>8, <2>1, <2>3 DEF RecordSettlement, RestOK, storageVars, bounds
<1>9. CASE AnnounceSettlement(t)
  <2> DEFINE u == [t EXCEPT !.stage = "clear"]
  <2>1. t.lot \in Auctions
    BY <1>2, <1>9 DEF AnnounceSettlement, TaskShape, LotStages
  <2>2. u \in Task /\ u.stage = "clear" /\ u.lot = t.lot /\ Becomes(t, u)
    BY <1>2, <1>9 DEF AnnounceSettlement, Task, Stages
  <2> HIDE DEF u
  <2>3. SlotOK'
    BY <1>3, <2>1, <2>2 DEF TaskShape
  <2>4. announced' \in [Auctions -> Nat]
    BY <1>9, <2>1 DEF AnnounceSettlement, RestOK
  <2> QED BY <1>4, <1>9, <2>3, <2>4 DEF AnnounceSettlement, RestOK, storageVars, bounds
<1>10. CASE ClearDeadline(t)
  <2>1. SlotOK' /\ alarmTail' \in BOOLEAN
    BY <1>10, SettlementOverKeeps DEF ClearDeadline, RestOK
  <2> QED BY <1>4, <1>10, <2>1 DEF ClearDeadline, RestOK, storageVars, bounds
<1>11. CASE Execute(t)
  <2>1. t.stage = "run" /\ t.job \in Commands
    BY <1>2, <1>11 DEF Execute, TaskShape
  <2>2. SlotOK'
    <3>1. CASE Ends(t)
      BY <3>1, EndsKeeps
    <3>2. CASE /\ t.job.kind = "START"
               /\ Becomes(t, [t EXCEPT !.stage = "arm", !.lot = t.job.lot,
                                       !.ends = auction[t.job.lot].endsAt])
      <4> DEFINE u == [t EXCEPT !.stage = "arm", !.lot = t.job.lot,
                                !.ends = auction[t.job.lot].endsAt]
      <4>1. t.job.lot \in Auctions /\ auction[t.job.lot].endsAt \in Nat
        BY <2>1, <3>2, CommandFacts DEF RowsOK, AuctionRow
      <4>2. u \in Task /\ u.stage = "arm" /\ u.lot = t.job.lot /\ u.job = t.job
        BY <1>2, <4>1 DEF Task, Stages
      <4>3. Becomes(t, u)
        BY <3>2
      <4> HIDE DEF u
      <4>4. TaskShape(u)
        BY <2>1, <4>1, <4>2 DEF TaskShape
      <4> QED BY <1>3, <4>2, <4>3, <4>4
    <3>3. CASE /\ Allowed(t.job)
               /\ Becomes(t, [t EXCEPT !.stage = "writing", !.batch = BatchOf(t.job)])
      <4> DEFINE u == [t EXCEPT !.stage = "writing", !.batch = BatchOf(t.job)]
      <4>1. /\ BatchOf(t.job) \in Batch /\ BatchShape(BatchOf(t.job))
            /\ BatchOf(t.job).type = t.job.kind
        BY <2>1, <3>3, BatchOfFacts DEF RestOK
      <4>2. /\ u \in Task /\ u.stage = "writing" /\ u.job = t.job
            /\ u.batch = BatchOf(t.job)
        BY <1>2, <4>1 DEF Task, Stages
      <4>3. Becomes(t, u)
        BY <3>3
      <4> HIDE DEF u
      <4>4. TaskShape(u)
        BY <2>1, <4>1, <4>2 DEF TaskShape, LotStages
      <4> QED BY <1>3, <4>2, <4>3, <4>4
    <3> QED BY <1>11, <3>1, <3>2, <3>3 DEF Execute
  <2> QED BY <1>4, <1>11, <2>2 DEF Execute, RestOK, storageVars, bounds
<1>12. CASE Commit(t)
  <2>1. /\ t.stage = "writing" /\ t.job \in Commands
        /\ t.batch \in Batch /\ BatchShape(t.batch) /\ t.batch.type = t.job.kind
    BY <1>2, <1>12 DEF Commit, TaskShape
  <2>2. RowsOK'
    BY <1>4, <1>12, <2>1, WriteKeepsRows DEF Commit
  <2>3. SlotOK'
    <3>1. CASE Ends(t)
      BY <3>1, EndsKeeps
    <3>2. CASE /\ t.batch.type \in {"START", "BID"}
               /\ Becomes(t, [t EXCEPT !.stage = "arm", !.batch = None,
                                !.lot = t.batch.lot,
                                !.ends = RowAfter(t.batch, t.batch.lot).endsAt])
      <4> DEFINE ends == RowAfter(t.batch, t.batch.lot).endsAt
                 u == [t EXCEPT !.stage = "arm", !.batch = None, !.lot = t.batch.lot,
                                !.ends = ends]
      <4>1. t.batch.lot \in Auctions
        BY <2>1, <3>2 DEF BatchShape
      <4>2. ends \in Nat
        <5>1. auction[t.batch.lot] \in AuctionRow
          BY <4>1 DEF RowsOK
        <5>2. RowAfter(t.batch, t.batch.lot) \in AuctionRow
          BY <2>1, <5>1, RowFields
        <5> QED BY <5>2 DEF AuctionRow
      <4>3. Becomes(t, u)
        BY <3>2
      <4> HIDE DEF ends
      <4>4. u \in Task /\ u.stage = "arm" /\ u.lot = t.batch.lot /\ u.job = t.job
        BY <1>2, <4>1, <4>2 DEF Task, Stages
      <4> HIDE DEF u
      <4>5. TaskShape(u)
        BY <2>1, <4>1, <4>4 DEF TaskShape
      <4> QED BY <1>3, <4>3, <4>4, <4>5
    <3> QED BY <1>12, <3>1, <3>2 DEF Commit
  <2> QED BY <1>12, <2>2, <2>3 DEF Commit, RestOK, storageVars, bounds
<1>13. CASE StoreDeadline(t)
  <2> DEFINE stage == IF t.stage = "rearm" THEN "realarm" ELSE "alarm"
             u == [t EXCEPT !.stage = stage]
  <2>1. /\ t.lot \in Auctions /\ t.ends \in Nat /\ Becomes(t, u)
        /\ t.stage = "arm" => t.job \in Commands
    BY <1>2, <1>13 DEF StoreDeadline, TaskShape, LotStages, Task
  <2>2. u \in Task /\ u.stage = stage /\ u.lot = t.lot /\ u.job = t.job
    BY <1>2 DEF Task, Stages
  <2>3. stage \in {"realarm", "alarm"} /\ (stage = "alarm" => t.stage = "arm")
    BY <1>13 DEF StoreDeadline
  <2> HIDE DEF u, stage
  <2>4. TaskShape(u)
    BY <2>1, <2>2, <2>3 DEF TaskShape
  <2>5. SlotOK'
    BY <1>3, <2>1, <2>2, <2>4
  <2> QED BY <1>4, <1>13, <2>1, <2>5 DEF StoreDeadline, Arm, RestOK, bounds
<1>14. CASE SetAlarm(t)
  <2>1. t.ends \in Nat
    BY <1>2 DEF Task
  <2>2. SlotOK'
    BY <1>2, <1>3, <1>14, NewTaskFacts, EndsKeeps DEF SetAlarm
  <2> QED BY <1>4, <1>14, <2>1, <2>2 DEF SetAlarm, RestOK, bounds
<1> QED
  BY <1>1, <1>5, <1>6, <1>7, <1>8, <1>9, <1>10, <1>11, <1>12, <1>13, <1>14

\* Every other step keeps the types.
LEMMA TypeStep ==
    ASSUME TypeInv, [Next]_vars
    PROVE  TypeInv'
<1> USE DEF TypeInv
<1>1. ASSUME UNCHANGED d1Vars PROVE RowsOK'
  BY <1>1 DEF d1Vars, RowsOK
<1>2. ASSUME UNCHANGED running PROVE SlotOK'
  BY <1>2 DEF SlotOK
<1>3. ASSUME NEW job \in Jobs, Free, running' = running \cup {NewTask(job)}
      PROVE  SlotOK'
  <2>1. running' = {NewTask(job)}
    BY <1>3 DEF Free
  <2> QED BY <2>1, NewTaskFacts DEF SlotOK
<1>4. ASSUME NEW job \in Jobs, Submit(job) PROVE TypeInv'
  <2>1. SlotOK'
    BY <1>3, <1>4 DEF Submit
  <2> QED BY <1>1, <1>4, <2>1 DEF Submit, RestOK, storageVars, bounds
<1>5. CASE AlarmFires
  <2>1. Trigger("ALARM") \in Jobs
    BY DEF Jobs
  <2>2. SlotOK'
    BY <1>3, <1>5, <2>1 DEF AlarmFires
  <2> QED BY <1>1, <1>5, <2>2 DEF AlarmFires, RestOK, bounds
<1>6. CASE AlarmEnds
  <2>1. alarm' \in Nat \cup {None}
    <3>1. CASE deadline = None
      BY <1>6, <3>1 DEF AlarmEnds, RestOK
    <3>2. CASE deadline # None
      <4> DEFINE at == Later(deadline.endsAt, now + 1)
      <4>1. at \in Nat /\ MaxTime \in Nat
        BY <3>2, TimesAssumption DEF RestOK, Later
      <4>2. alarm' = IF at < MaxTime THEN at ELSE MaxTime
        BY <1>6, <3>2 DEF AlarmEnds
      <4> QED BY <4>1, <4>2
    <3> QED BY <3>1, <3>2
  <2> QED BY <1>1, <1>2, <1>6, <2>1 DEF AlarmEnds, RestOK, bounds
<1>7. CASE TaskStep
  BY <1>7, TaskKeepsTypes
<1>8. CASE SnapshotReads
  <2>1. PICK a \in Active :
          snapshot' = [stage |-> "loaded", lot |-> a, ends |-> auction[a].endsAt]
    BY <1>8 DEF SnapshotReads
  <2>2. a \in Auctions /\ auction[a].endsAt \in Nat
    BY DEF Active, RowsOK, AuctionRow
  <2>3. snapshot' \in Snapshot /\ snapshot'.lot \in Auctions
    BY <2>1, <2>2 DEF Snapshot
  <2> QED BY <1>1, <1>2, <1>8, <2>3 DEF SnapshotReads, RestOK, storageVars, bounds
<1>9. CASE SnapshotArms
  <2>1. snapshot \in Snapshot /\ snapshot.lot \in Auctions /\ snapshot.ends \in Nat
    BY <1>9 DEF SnapshotArms, RestOK, Snapshot
  <2>2. /\ deadline' \in [lot : Auctions, endsAt : Nat] \cup {None}
        /\ checked' \in BOOLEAN
    <3>1. \/ UNCHANGED <<deadline, checked>>
          \/ /\ deadline' = [lot |-> snapshot.lot, endsAt |-> snapshot.ends]
             /\ checked' = TRUE
      BY <1>9 DEF SnapshotArms, Arm
    <3>2. [lot |-> snapshot.lot, endsAt |-> snapshot.ends] \in [lot : Auctions, endsAt : Nat]
      BY <2>1
    <3>3. deadline \in [lot : Auctions, endsAt : Nat] \cup {None} /\ checked \in BOOLEAN
      BY DEF RestOK
    <3> QED BY <3>1, <3>2, <3>3
  <2>3. snapshot' \in Snapshot /\ (snapshot'.stage # "idle" => snapshot'.lot \in Auctions)
    BY <1>9, <2>1 DEF SnapshotArms, Snapshot, NoSnapshot
  <2> QED BY <1>1, <1>2, <1>9, <2>2, <2>3 DEF SnapshotArms, RestOK, bounds
<1>10. CASE SnapshotSetsAlarm
  <2>1. snapshot.ends \in Nat /\ NoSnapshot \in Snapshot /\ NoSnapshot.stage = "idle"
    BY DEF RestOK, Snapshot, NoSnapshot
  <2> QED BY <1>1, <1>2, <1>10, <2>1 DEF SnapshotSetsAlarm, RestOK, bounds
<1>11. CASE Tick
  <2>1. now' \in Nat
    BY <1>11 DEF Tick, RestOK
  <2> QED BY <1>1, <1>2, <1>11, <2>1 DEF Tick, RestOK, storageVars, bounds
<1>12. ASSUME NEW t \in running, StepFails(t) PROVE TypeInv'
  <2>1. late' \subseteq Batch /\ \A w \in late' : BatchShape(w)
    <3>1. Abandon({t}) /\ {t} \in SUBSET running
      BY <1>12 DEF StepFails
    <3> QED BY <3>1, AbandonKeeps DEF RestOK
  <2>2. SlotOK' /\ alarm' \in Nat \cup {None} /\ alarmTail' \in BOOLEAN
    BY <1>12, SettlementThrowsKeeps, EndsKeeps DEF StepFails, RestOK
  <2>3. errors' \in Nat
    BY <1>12 DEF StepFails, RestOK
  <2> QED BY <1>1, <1>12, <2>1, <2>2, <2>3 DEF StepFails, RestOK
<1>13. CASE Crash
  <2>1. late' \subseteq Batch /\ \A w \in late' : BatchShape(w)
    BY <1>13, AbandonKeeps DEF Crash, RestOK
  <2>2. SlotOK'
    BY <1>13 DEF Crash, SlotOK
  <2>3. NoSnapshot \in Snapshot /\ NoSnapshot.stage = "idle"
    BY DEF Snapshot, NoSnapshot
  <2>4. alarm' \in Nat \cup {None} /\ crashes' \in Nat
    BY <1>13 DEF Crash, RestOK
  <2> QED BY <1>1, <1>13, <2>1, <2>2, <2>3, <2>4 DEF Crash, RestOK
<1>14. ASSUME NEW w \in late, LateWriteArrives(w) PROVE TypeInv'
  <2>1. w \in Batch /\ BatchShape(w)
    BY DEF RestOK
  <2>2. RowsOK'
    BY <1>1, <1>14, <2>1, WriteKeepsRows DEF LateWriteArrives
  <2> QED BY <1>2, <1>14, <2>2 DEF LateWriteArrives, RestOK, storageVars, bounds
<1>15. CASE UNCHANGED vars
  <2>1. /\ UNCHANGED d1Vars /\ UNCHANGED running
        /\ UNCHANGED <<settled, deadline, alarm, checked, alarmTail, snapshot,
                       announced, late, now, crashes, errors>>
    BY <1>15 DEF vars, storageVars, bounds
  <2> QED BY <1>1, <1>2, <2>1 DEF RestOK
<1> QED
  BY <1>4, <1>5, <1>6, <1>7, <1>8, <1>9, <1>10, <1>11, <1>12, <1>13, <1>14, <1>15
     DEF Next

\* The types hold in every reachable state.
LEMMA TypeInvHolds == Spec => []TypeInv
<1>1. Init => TypeInv
  <2> SUFFICES ASSUME Init PROVE TypeInv
    OBVIOUS
  <2>1. NoRow \in AuctionRow
    BY DEF NoRow, AuctionRow, AuctionStates
  <2>2. NoSnapshot \in Snapshot /\ NoSnapshot.stage = "idle"
    BY DEF Snapshot, NoSnapshot
  <2>3. RowsOK
    BY <2>1, AmountsAssumption DEF Init, RowsOK
  <2>4. SlotOK /\ RestOK
    BY <2>2 DEF Init, SlotOK, RestOK
  <2> QED BY <2>3, <2>4 DEF TypeInv
<1>2. TypeInv /\ [Next]_vars => TypeInv'
  BY TypeStep
<1> QED BY <1>1, <1>2, PTL DEF Spec

\* Columns, storage keys and the fields of tasks keep their type; in particular no
\* wallet is overdrawn, whatever the writes that outlive their step find.
THEOREM AuctionTypes == Spec => []TypeOK
<1>1. TypeInv => TypeOK
  BY DEF TypeInv, RowsOK, SlotOK, RestOK, TypeOK
<1> QED BY <1>1, TypeInvHolds, PTL

-----------------------------------------------------------------------------
(* Every write is accounted for *)

\* The batches that may still land: of the task at work, and of those gone.
Outstanding == late \cup SentBy(running)

\* Outstanding batches are well-formed.
LEMMA OutstandingShape ==
    ASSUME TypeInv
    PROVE  Outstanding \subseteq Batch /\ \A w \in Outstanding : BatchShape(w)
BY DEF TypeInv, SlotOK, RestOK, TaskShape, Outstanding, SentBy

\* What is outstanding after a step in which the task in the slot went on as u.
LEMMA SentAfter ==
    ASSUME SlotOK, NEW t \in running, NEW u, Becomes(t, u),
           u.stage \notin {"closing", "writing"}
    PROVE  SentBy(running)' = {}
BY DEF SlotOK, Becomes, SentBy

\* A settlement that is over sends nothing.
LEMMA SentAfterSettlement ==
    ASSUME SlotOK, NEW t \in running, alarmTail \in BOOLEAN,
           SettlementOver(t) \/ SettlementThrows(t)
    PROVE  SentBy(running)' = {}
<1>1. ASSUME SettlementOver(t) PROVE \A u \in running' : u.stage = "run"
  BY <1>1, SettlementOverKeeps
<1>2. ASSUME Ends(t) PROVE running' = {}
  BY <1>2, EndsKeeps
<1>3. \A u \in running' : u.stage = "run"
  BY <1>1, <1>2 DEF SettlementThrows
<1> QED BY <1>3 DEF SentBy

\* A step changes D1 by a batch that was outstanding, if at all; and what is
\* outstanding after it was so before, or has just been planned.
BatchesAccounted ==
    /\ now' >= now
    /\ \/ UNCHANGED d1Vars
       \/ \E w \in Outstanding : Lands(w) /\ Write(w)
    /\ \A w \in Outstanding' :
          w \in Outstanding \/ (UNCHANGED <<d1Vars, now>> /\ Planned(w))

\* Every step of a task accounts for its batches.
LEMMA TaskAccounts ==
    ASSUME TypeInv, TaskStep
    PROVE  BatchesAccounted
<1> USE DEF TypeInv
<1>1. PICK t \in running :
        \/ ReadDeadline(t) \/ PlanSettlement(t) \/ Settle(t) \/ RecordSettlement(t)
        \/ AnnounceSettlement(t) \/ ClearDeadline(t) \/ Execute(t) \/ Commit(t)
        \/ StoreDeadline(t) \/ SetAlarm(t)
  BY DEF TaskStep
<1>2. t \in Task /\ TaskShape(t) /\ t.job \in Jobs /\ alarmTail \in BOOLEAN /\ now >= now
  BY DEF SlotOK, Task, RestOK
<1>3. ASSUME NEW w, t.stage \in {"closing", "writing"}, w = t.batch PROVE w \in Outstanding
  BY <1>3 DEF Outstanding, SentBy
<1>4. ASSUME NEW u, Becomes(t, u), u.stage \in {"closing", "writing"}
      PROVE  SentBy(running)' = {u.batch}
  <2>1. running' = {u}
    BY <1>4 DEF SlotOK, Becomes
  <2> QED BY <1>4, <2>1 DEF SentBy
<1>5. ASSUME SentBy(running)' = {}, UNCHANGED <<late, now>>,
             UNCHANGED d1Vars \/ \E w \in Outstanding : Lands(w) /\ Write(w)
      PROVE  BatchesAccounted
  BY <1>2, <1>5 DEF BatchesAccounted, Outstanding
<1>6. ASSUME NEW w, SentBy(running)' = {w}, Planned(w), UNCHANGED <<d1Vars, late, now>>
      PROVE  BatchesAccounted
  BY <1>2, <1>6 DEF BatchesAccounted, Outstanding
<1>7. ASSUME Ends(t) PROVE SentBy(running)' = {}
  BY <1>7, EndsKeeps DEF SentBy
<1>8. CASE ReadDeadline(t)
  <2>1. \/ SettlementOver(t)
        \/ \E a \in Active :
             Becomes(t, [t EXCEPT !.stage = "rearm", !.lot = a, !.ends = auction[a].endsAt])
        \/ \E stage \in {"clear", "close"} :
             Becomes(t, [t EXCEPT !.lot = deadline.lot, !.tries = 0, !.stage = stage])
    BY <1>8 DEF ReadDeadline
  <2>2. \A a : [t EXCEPT !.stage = "rearm", !.lot = a, !.ends = auction[a].endsAt].stage = "rearm"
    BY <1>2 DEF Task
  <2>3. \A stage : [t EXCEPT !.lot = deadline.lot, !.tries = 0, !.stage = stage].stage = stage
    BY <1>2 DEF Task
  <2>4. SentBy(running)' = {}
    <3>1. CASE SettlementOver(t)
      BY <1>2, <3>1, SentAfterSettlement
    <3>2. ASSUME NEW a \in Active,
                 Becomes(t, [t EXCEPT !.stage = "rearm", !.lot = a,
                                      !.ends = auction[a].endsAt])
          PROVE  SentBy(running)' = {}
      BY <2>2, <3>2, SentAfter
    <3>3. ASSUME NEW stage \in {"clear", "close"},
                 Becomes(t, [t EXCEPT !.lot = deadline.lot, !.tries = 0, !.stage = stage])
          PROVE  SentBy(running)' = {}
      BY <2>3, <3>3, SentAfter
    <3> QED BY <2>1, <3>1, <3>2, <3>3
  <2> QED BY <1>5, <1>8, <2>4 DEF ReadDeadline
<1>9. CASE PlanSettlement(t)
  <2>1. t.stage = "close" /\ t.lot \in Auctions /\ UNCHANGED <<d1Vars, late, now>>
    BY <1>2, <1>9 DEF PlanSettlement, TaskShape, LotStages
  <2>2. \/ /\ isAuctionDue(auction[t.lot], now)
           /\ Becomes(t, [t EXCEPT !.stage = "closing", !.tries = @ + 1,
                                !.batch = Settlement(t.lot)])
        \/ SettlementOver(t)
        \/ Becomes(t, [t EXCEPT !.stage = "record"])
    BY <1>9 DEF PlanSettlement, Settlement
  <2>3. CASE /\ isAuctionDue(auction[t.lot], now)
             /\ Becomes(t, [t EXCEPT !.stage = "closing", !.tries = @ + 1,
                                     !.batch = Settlement(t.lot)])
    <3> DEFINE w == Settlement(t.lot)
               tries == t.tries + 1
               u == [t EXCEPT !.stage = "closing", !.tries = tries, !.batch = w]
    <3>1. Becomes(t, u)
      BY <2>3
    <3>2. Planned(w)
      BY <2>1, <2>3 DEF Planned
    <3> HIDE DEF w, tries
    <3>3. u.stage = "closing" /\ u.batch = w
      BY <1>2 DEF Task
    <3> HIDE DEF u
    <3> QED BY <1>4, <1>6, <2>1, <3>1, <3>2, <3>3
  <2>4. CASE SettlementOver(t)
    BY <1>2, <1>5, <2>1, <2>4, SentAfterSettlement
  <2>5. CASE Becomes(t, [t EXCEPT !.stage = "record"])
    <3>1. [t EXCEPT !.stage = "record"].stage = "record"
      BY <1>2 DEF Task
    <3> QED BY <1>5, <2>1, <2>5, <3>1, SentAfter
  <2> QED BY <2>2, <2>3, <2>4, <2>5
<1>10. CASE Settle(t)
  <2>1. [t EXCEPT !.stage = "close", !.batch = None].stage = "close"
    BY <1>2 DEF Task
  <2>2. \/ Becomes(t, [t EXCEPT !.stage = "close", !.batch = None])
        \/ SettlementThrows(t)
    BY <1>10 DEF Settle
  <2>3. SentBy(running)' = {}
    BY <1>2, <2>1, <2>2, SentAfter, SentAfterSettlement
  <2>4. t.batch \in Outstanding
    BY <1>3, <1>10 DEF Settle
  <2> QED BY <1>5, <1>10, <2>3, <2>4 DEF Settle
<1>11. CASE RecordSettlement(t)
  <2>1. [t EXCEPT !.stage = "announce"].stage = "announce"
    BY <1>2 DEF Task
  <2> QED BY <1>5, <1>11, <2>1, SentAfter DEF RecordSettlement
<1>12. CASE AnnounceSettlement(t)
  <2>1. [t EXCEPT !.stage = "clear"].stage = "clear"
    BY <1>2 DEF Task
  <2> QED BY <1>5, <1>12, <2>1, SentAfter DEF AnnounceSettlement
<1>13. CASE ClearDeadline(t)
  BY <1>2, <1>5, <1>13, SentAfterSettlement DEF ClearDeadline
<1>14. CASE Execute(t)
  <2>1. t.stage = "run" /\ t.job \in Commands /\ UNCHANGED <<d1Vars, late, now>>
    BY <1>2, <1>14 DEF Execute, TaskShape
  <2>2. CASE Ends(t)
    BY <1>5, <1>7, <2>1, <2>2
  <2>3. CASE Becomes(t, [t EXCEPT !.stage = "arm", !.lot = t.job.lot,
                                  !.ends = auction[t.job.lot].endsAt])
    <3>1. [t EXCEPT !.stage = "arm", !.lot = t.job.lot,
                    !.ends = auction[t.job.lot].endsAt].stage = "arm"
      BY <1>2 DEF Task
    <3> QED BY <1>5, <2>1, <2>3, <3>1, SentAfter
  <2>4. CASE /\ Allowed(t.job)
             /\ Becomes(t, [t EXCEPT !.stage = "writing", !.batch = BatchOf(t.job)])
    <3> DEFINE w == BatchOf(t.job)
               u == [t EXCEPT !.stage = "writing", !.batch = w]
    <3>1. Becomes(t, u)
      BY <2>4
    <3>2. Planned(w)
      BY <2>1, <2>4 DEF Planned
    <3> HIDE DEF w
    <3>3. u.stage = "writing" /\ u.batch = w
      BY <1>2 DEF Task
    <3> HIDE DEF u
    <3> QED BY <1>4, <1>6, <2>1, <3>1, <3>2, <3>3
  <2> QED BY <1>14, <2>2, <2>3, <2>4 DEF Execute
<1>15. CASE Commit(t)
  <2>1. \/ Ends(t)
        \/ \E lot, ends : Becomes(t, [t EXCEPT !.stage = "arm", !.batch = None,
                                               !.lot = lot, !.ends = ends])
    BY <1>15 DEF Commit
  <2>2. \A lot, ends : [t EXCEPT !.stage = "arm", !.batch = None, !.lot = lot,
                                 !.ends = ends].stage = "arm"
    BY <1>2 DEF Task
  <2>3. SentBy(running)' = {}
    BY <1>7, <2>1, <2>2, SentAfter
  <2>4. t.batch \in Outstanding
    BY <1>3, <1>15 DEF Commit
  <2> QED BY <1>5, <1>15, <2>3, <2>4 DEF Commit
<1>16. CASE StoreDeadline(t)
  <2> DEFINE stage == IF t.stage = "rearm" THEN "realarm" ELSE "alarm"
             u == [t EXCEPT !.stage = stage]
  <2>1. u.stage = stage /\ stage \notin {"closing", "writing"} /\ Becomes(t, u)
    BY <1>2, <1>16 DEF Task, StoreDeadline
  <2> HIDE DEF u, stage
  <2> QED BY <1>5, <1>16, <2>1, SentAfter DEF StoreDeadline
<1>17. CASE SetAlarm(t)
  <2>1. SentBy(running)' = {}
    BY <1>2, <1>7, <1>17, NewTaskFacts, SentAfter DEF SetAlarm
  <2> QED BY <1>5, <1>17, <2>1 DEF SetAlarm
<1> QED
  BY <1>1, <1>8, <1>9, <1>10, <1>11, <1>12, <1>13, <1>14, <1>15, <1>16, <1>17

\* Every step accounts for its batches.
LEMMA StepAccounts ==
    ASSUME TypeInv, [Next]_vars
    PROVE  BatchesAccounted
<1> USE DEF TypeInv
<1>1. now \in Nat /\ now >= now
  BY DEF RestOK
<1>2. ASSUME UNCHANGED d1Vars, now' >= now, Outstanding' \subseteq Outstanding
      PROVE  BatchesAccounted
  BY <1>2 DEF BatchesAccounted
<1>3. ASSUME UNCHANGED <<running, late>> PROVE Outstanding' \subseteq Outstanding
  BY <1>3 DEF Outstanding, SentBy
<1>4. ASSUME NEW job \in Jobs, running' = running \cup {NewTask(job)}, late' = late
      PROVE  Outstanding' \subseteq Outstanding
  <2>1. NewTask(job).stage = "settle"
    BY NewTaskFacts
  <2> QED BY <1>4, <2>1 DEF Outstanding, SentBy
<1>5. (\E job \in Jobs : Submit(job)) => BatchesAccounted
  BY <1>1, <1>2, <1>4 DEF Submit
<1>6. AlarmFires => BatchesAccounted
  <2>1. Trigger("ALARM") \in Jobs
    BY DEF Jobs
  <2> QED BY <1>1, <1>2, <1>4, <2>1 DEF AlarmFires
<1>7. AlarmEnds \/ SnapshotReads \/ SnapshotArms \/ SnapshotSetsAlarm => BatchesAccounted
  BY <1>1, <1>2, <1>3 DEF AlarmEnds, SnapshotReads, SnapshotArms, SnapshotSetsAlarm
<1>8. CASE Tick
  <2>1. now' >= now
    BY <1>1, <1>8 DEF Tick
  <2> QED BY <1>2, <1>3, <1>8, <2>1 DEF Tick
<1>9. ASSUME NEW t \in running, StepFails(t) PROVE BatchesAccounted
  <2>1. Abandon({t}) /\ {t} \in SUBSET running
    BY <1>9 DEF StepFails
  <2>2. late' \subseteq late \cup SentBy({t}) /\ SentBy({t}) \subseteq SentBy(running)
    <3>1. late' \subseteq late \cup SentBy({t})
      BY <2>1, AbandonKeeps DEF RestOK
    <3> QED BY <3>1 DEF SentBy
  <2>3. SentBy(running)' = {}
    <3>1. SettlementThrows(t) \/ Ends(t)
      BY <1>9 DEF StepFails
    <3>2. Ends(t) => running' = {}
      BY EndsKeeps
    <3> QED BY <3>1, <3>2, SentAfterSettlement DEF SentBy, RestOK
  <2>4. UNCHANGED d1Vars /\ now' = now
    BY <1>9 DEF StepFails
  <2> QED BY <1>1, <1>2, <2>2, <2>3, <2>4 DEF Outstanding
<1>10. CASE Crash
  <2>1. late' \subseteq late \cup SentBy(running)
    BY <1>10, AbandonKeeps DEF Crash, RestOK
  <2>2. SentBy(running)' = {}
    BY <1>10 DEF Crash, SentBy
  <2> QED BY <1>1, <1>2, <1>10, <2>1, <2>2 DEF Crash, Outstanding
<1>11. ASSUME NEW w \in late, LateWriteArrives(w) PROVE BatchesAccounted
  <2>1. Outstanding' \subseteq Outstanding /\ w \in Outstanding
    BY <1>11 DEF LateWriteArrives, Outstanding, SentBy
  <2>2. \/ UNCHANGED d1Vars
        \/ Lands(w) /\ Write(w)
    BY <1>11 DEF LateWriteArrives
  <2>3. now' = now
    BY <1>11 DEF LateWriteArrives
  <2> QED BY <1>1, <2>1, <2>2, <2>3 DEF BatchesAccounted
<1>12. CASE UNCHANGED vars
  BY <1>1, <1>2, <1>3, <1>12 DEF vars
<1> QED
  BY <1>5, <1>6, <1>7, <1>8, <1>9, <1>10, <1>11, <1>12, TaskAccounts DEF Next

-----------------------------------------------------------------------------
(* A settlement closes what it was planned on, or nothing *)

Closed(a) == auction[a].state \in {"SOLD", "NO_SALE"}

\* A settlement knows a version of its lot that was due; while that is the version
\* in D1, it knows its leader and its bid.
StillDue(w) ==
    /\ auction[w.lot].state # "ABSENT"
    /\ w.version <= auction[w.lot].version
    /\ auction[w.lot].version = w.version /\ auction[w.lot].state = "ACTIVE"
          => /\ now >= auction[w.lot].endsAt
             /\ w.type = "SALE" => /\ w.player = auction[w.lot].leader
                                   /\ w.amount = auction[w.lot].bid

Paid(a) ==
    payments[a] = IF auction[a].state = "SOLD"
                  THEN << [player |-> auction[a].leader, amount |-> auction[a].bid] >>
                  ELSE <<>>

\* The inductive invariant of the settlements.
DueInv ==
    /\ TypeInv
    /\ \A w \in Outstanding : w.type \in {"SALE", "NO_SALE"} => StillDue(w)
    /\ \A a \in Auctions : Paid(a)

\* What a batch that lands does to the row of an auction.
LEMMA LandingFacts ==
    ASSUME TypeInv, NEW w \in Outstanding, Lands(w), Write(w), NEW a \in Auctions
    PROVE  LET old == auction[a]
               new == auction'[a]
           IN /\ old \in AuctionRow /\ new \in AuctionRow
              /\ \/ new = old
                 \/ old.state = "ABSENT" /\ new.state = "ACTIVE" /\ w.type = "START"
                 \/ old.state = "ACTIVE" /\ new.version = old.version + 1
              /\ old.state # "ABSENT" => new.state # "ABSENT" /\ new.endsAt >= old.endsAt
              /\ old.state = "ACTIVE" =>
                   /\ new.bid >= old.bid
                   /\ new.leader \notin {None, old.leader} => new.bid > old.bid
                   /\ new.state # "ACTIVE" =>
                        /\ w.type \in {"SALE", "NO_SALE"} /\ w.lot = a
                        /\ w.version = old.version
                        /\ new.state = IF w.type = "SALE" THEN "SOLD" ELSE "NO_SALE"
                        /\ new.leader = old.leader /\ new.bid = old.bid
              /\ w.type = "SALE" /\ w.lot = a =>
                   old.state = "ACTIVE" /\ new.state = "SOLD"
<1> DEFINE old == auction[a]
           new == auction'[a]
<1>1. /\ old \in AuctionRow /\ w \in Batch /\ BatchShape(w) /\ new = RowAfter(w, a)
      /\ old.bid \in Nat /\ old.endsAt \in Nat /\ old.version \in Nat
  BY OutstandingShape DEF TypeInv, RowsOK, Write, AuctionRow
<1>2. new \in AuctionRow
  BY <1>1, RowFields
<1>3. CASE ~Touches(w, a)
  <2>1. new = old /\ old.bid >= old.bid /\ old.endsAt >= old.endsAt
    BY <1>1, <1>3, RowFields
  <2>2. ~(w.type = "SALE" /\ w.lot = a)
    BY <1>3 DEF Touches
  <2> HIDE DEF old, new
  <2> QED BY <1>1, <2>1, <2>2 DEF old, new
<1>4. CASE Touches(w, a) /\ w.type = "START"
  <2>1. old.state = "ABSENT"
    BY <1>4 DEF Touches, Lands
  <2>2. new.state = "ACTIVE"
    BY <1>1, <1>4, RowFields
  <2> HIDE DEF old, new
  <2>3. w.type # "SALE" /\ old.state # "ACTIVE"
    BY <1>4, <2>1
  <2> QED BY <1>1, <1>2, <1>4, <2>1, <2>2, <2>3 DEF old, new
<1>5. CASE Touches(w, a) /\ w.type = "BID"
  <2>1. w.lot = a /\ old.state = "ACTIVE" /\ old.bid < w.amount
    BY <1>5 DEF Touches, Lands, BidLands, AtVersion
  <2>2. /\ new.state = old.state /\ new.bid = w.amount /\ new.version = old.version + 1
        /\ new.endsAt >= old.endsAt
    BY <1>1, <1>5, RowFields
  <2>3. w.amount \in Nat
    BY <1>1 DEF Batch
  <2> HIDE DEF old, new
  <2>4. new.bid > old.bid /\ new.bid >= old.bid
    BY <1>1, <2>1, <2>2, <2>3
  <2> QED BY <1>1, <1>2, <1>5, <2>1, <2>2, <2>4 DEF old, new
<1>6. CASE Touches(w, a) /\ w.type \in {"SALE", "NO_SALE"}
  <2>1. w.lot = a /\ old.state = "ACTIVE" /\ old.version = w.version
    BY <1>6 DEF Touches, Lands, SaleLands, NoSaleLands, AtVersion
  <2>2. /\ new.state = IF w.type = "SALE" THEN "SOLD" ELSE "NO_SALE"
        /\ new.bid = old.bid /\ new.leader = old.leader /\ new.endsAt = old.endsAt
        /\ new.version = old.version + 1
    BY <1>1, <1>6, RowFields
  <2> HIDE DEF old, new
  <2>3. new.bid >= old.bid /\ new.endsAt >= old.endsAt
    BY <1>1, <2>2
  <2> QED BY <1>1, <1>2, <1>6, <2>1, <2>2, <2>3 DEF old, new
<1>7. CASE Touches(w, a) /\ w.type = "BANKRUPT"
  <2>1. old.state = "ACTIVE"
    BY <1>7 DEF Touches
  <2>2. /\ new.state = old.state /\ new.bid = old.bid /\ new.leader = None
        /\ new.endsAt = old.endsAt /\ new.version = old.version + 1
    BY <1>1, <1>7, RowFields
  <2> HIDE DEF old, new
  <2>3. new.bid >= old.bid /\ new.endsAt >= old.endsAt
    BY <1>1, <2>2
  <2> QED BY <1>1, <1>2, <1>7, <2>1, <2>2, <2>3 DEF old, new
<1>8. Touches(w, a) => w.type \in {"START", "BID", "SALE", "NO_SALE", "BANKRUPT"}
  BY DEF Touches
<1> QED BY <1>3, <1>4, <1>5, <1>6, <1>7, <1>8

\* What an outstanding settlement knows stays true or is outdated.
LEMMA StillDueStays ==
    ASSUME TypeInv, now' >= now, now' \in Nat, NEW w \in Outstanding, Lands(w), Write(w),
           NEW v \in Outstanding, v.type \in {"SALE", "NO_SALE"}, StillDue(v)
    PROVE  StillDue(v)'
<1>1. v \in Batch /\ v.lot \in Auctions /\ v.version \in Nat
  BY OutstandingShape DEF BatchShape, Batch
<1> DEFINE a == v.lot
           old == auction[a]
           new == auction'[a]
<1>2. /\ old \in AuctionRow /\ new \in AuctionRow
      /\ \/ new = old
         \/ old.state = "ABSENT"
         \/ new.version = old.version + 1
      /\ old.state # "ABSENT" => new.state # "ABSENT"
  BY <1>1, LandingFacts
<1>3. old.version \in Nat /\ old.endsAt \in Nat /\ now \in Nat
  BY <1>2 DEF AuctionRow, TypeInv, RestOK
<1>4. old.state # "ABSENT" /\ v.version <= old.version
  BY DEF StillDue
<1>5. CASE new = old
  <2>1. now >= old.endsAt => now' >= old.endsAt
    BY <1>3
  <2> QED BY <1>5, <2>1 DEF StillDue
<1>6. CASE new.version = old.version + 1
  <2>1. v.version <= new.version /\ new.version # v.version
    BY <1>1, <1>3, <1>4, <1>6
  <2> QED BY <1>2, <1>4, <2>1 DEF StillDue
<1> QED BY <1>2, <1>4, <1>5, <1>6

\* An auction is paid for by the batch that sells it.
LEMMA PaidStays ==
    ASSUME DueInv, NEW w \in Outstanding, Lands(w), Write(w), NEW a \in Auctions
    PROVE  Paid(a)'
<1> DEFINE old == auction[a]
           new == auction'[a]
<1>1. /\ \/ new = old
         \/ old.state = "ABSENT" /\ new.state = "ACTIVE" /\ w.type = "START"
         \/ old.state = "ACTIVE"
      /\ old.state = "ACTIVE" /\ new.state # "ACTIVE" =>
            /\ w.type \in {"SALE", "NO_SALE"} /\ w.lot = a /\ w.version = old.version
            /\ new.state = IF w.type = "SALE" THEN "SOLD" ELSE "NO_SALE"
            /\ new.leader = old.leader /\ new.bid = old.bid
      /\ w.type = "SALE" /\ w.lot = a => old.state = "ACTIVE" /\ new.state = "SOLD"
  BY LandingFacts DEF DueInv
<1>2. payments[a] = IF old.state = "SOLD"
                    THEN << [player |-> old.leader, amount |-> old.bid] >> ELSE <<>>
  BY DEF DueInv, Paid
<1>3. CASE w.type = "SALE" /\ w.lot = a
  <2>1. /\ old.state = "ACTIVE" /\ new.state = "SOLD" /\ w.version = old.version
        /\ new.leader = old.leader /\ new.bid = old.bid
    BY <1>1, <1>3
  <2>2. w.player = old.leader /\ w.amount = old.bid
    BY <1>3, <2>1 DEF DueInv, StillDue
  <2>3. payments[a] = <<>> /\ payments \in [Auctions -> Seq(Payment)]
    BY <1>2, <2>1 DEF DueInv, TypeInv, RowsOK
  <2>4. payments' = [payments EXCEPT ![w.lot] =
                       Append(@, [player |-> w.player, amount |-> w.amount])]
    BY <1>3 DEF Write
  <2>5. payments'[a] = Append(<<>>, [player |-> w.player, amount |-> w.amount])
    BY <1>3, <2>3, <2>4
  <2>6. payments'[a] = << [player |-> new.leader, amount |-> new.bid] >>
    BY <2>1, <2>2, <2>5
  <2> QED BY <2>1, <2>6 DEF Paid
<1>4. CASE ~(w.type = "SALE" /\ w.lot = a)
  <2>1. payments'[a] = payments[a]
    <3>1. CASE w.type = "SALE"
      <4>1. payments' = [payments EXCEPT ![w.lot] =
                           Append(@, [player |-> w.player, amount |-> w.amount])]
        BY <3>1 DEF Write
      <4> QED BY <1>4, <3>1, <4>1 DEF DueInv, TypeInv, RowsOK
    <3>2. CASE w.type # "SALE"
      BY <3>2 DEF Write
    <3> QED BY <3>1, <3>2
  <2>2. CASE new = old
    BY <1>2, <2>1, <2>2 DEF Paid
  <2>3. CASE new # old
    <3>1. old.state # "SOLD" /\ new.state # "SOLD"
      BY <1>1, <1>4, <2>3
    <3> QED BY <1>2, <2>1, <3>1 DEF Paid
  <2> QED BY <2>2, <2>3
<1> QED BY <1>3, <1>4

\* Every step keeps what is said of the settlements.
LEMMA DueStep ==
    ASSUME DueInv, [Next]_vars
    PROVE  DueInv'
<1>1. TypeInv /\ TypeInv' /\ BatchesAccounted
  BY TypeStep, StepAccounts DEF DueInv
<1>2. now' \in Nat /\ now \in Nat /\ now' >= now
  BY <1>1 DEF TypeInv, RestOK, BatchesAccounted
<1>3. ASSUME NEW w \in Outstanding, w.type \in {"SALE", "NO_SALE"} PROVE StillDue(w)'
  <2>1. StillDue(w) /\ w.lot \in Auctions
    BY <1>1, <1>3, OutstandingShape DEF DueInv, BatchShape
  <2>2. CASE UNCHANGED d1Vars
    <3>1. auction' = auction /\ auction[w.lot].endsAt \in Nat
      BY <1>1, <2>1, <2>2 DEF d1Vars, TypeInv, RowsOK, AuctionRow
    <3>2. now >= auction[w.lot].endsAt => now' >= auction[w.lot].endsAt
      BY <1>2, <3>1
    <3> QED BY <2>1, <3>1, <3>2 DEF StillDue
  <2>3. CASE \E v \in Outstanding : Lands(v) /\ Write(v)
    BY <1>1, <1>2, <1>3, <2>1, <2>3, StillDueStays
  <2> QED BY <1>1, <2>2, <2>3 DEF BatchesAccounted
<1>4. ASSUME NEW w, UNCHANGED <<d1Vars, now>>, Planned(w), w.type \in {"SALE", "NO_SALE"}
      PROVE  StillDue(w)'
  <2>1. \A job \in Commands : Allowed(job) => BatchOf(job).type = job.kind
                                              /\ job.kind \notin {"SALE", "NO_SALE"}
    BY <1>1, BatchOfFacts, CommandFacts DEF TypeInv, RestOK
  <2>2. PICK a \in Auctions : isAuctionDue(auction[a], now) /\ w = Settlement(a)
    BY <1>4, <2>1 DEF Planned
  <2>3. /\ w.lot = a /\ w.version = auction[a].version /\ auction[a].version \in Nat
        /\ w.type = "SALE" => w.player = auction[a].leader /\ w.amount = auction[a].bid
    BY <1>1, <2>2, SettlementFacts DEF TypeInv, RowsOK, AuctionRow
  <2>4. auction[a].state = "ACTIVE" /\ now >= auction[a].endsAt
    BY <2>2 DEF isAuctionDue
  <2>5. w.version <= auction[a].version
    BY <2>3
  <2> QED BY <1>4, <2>3, <2>4, <2>5 DEF StillDue, d1Vars
<1>5. \A w \in Outstanding' : w.type \in {"SALE", "NO_SALE"} => StillDue(w)'
  BY <1>1, <1>3, <1>4 DEF BatchesAccounted
<1>6. ASSUME NEW a \in Auctions PROVE Paid(a)'
  <2>1. CASE UNCHANGED d1Vars
    BY <2>1 DEF DueInv, Paid, d1Vars
  <2>2. CASE \E w \in Outstanding : Lands(w) /\ Write(w)
    BY <2>2, PaidStays
  <2> QED BY <1>1, <2>1, <2>2 DEF BatchesAccounted
<1> QED BY <1>1, <1>5, <1>6 DEF DueInv

\* The settlements are so in every reachable state.
LEMMA DueInvHolds == Spec => []DueInv
<1>1. Init /\ TypeInv => DueInv
  <2> SUFFICES ASSUME Init, TypeInv PROVE DueInv
    OBVIOUS
  <2>1. Outstanding = {}
    BY DEF Init, Outstanding, SentBy
  <2>2. \A a \in Auctions : Paid(a)
    BY DEF Init, Paid, NoRow
  <2> QED BY <2>1, <2>2 DEF DueInv
<1>2. DueInv /\ [Next]_vars => DueInv'
  BY DueStep
<1> QED BY <1>1, <1>2, TypeInvHolds, PTL DEF Spec

\* A closed auction stays as it was closed; a running one never moves its end
\* forward, lowers its bid or changes hands for less (placeBid's compare-and-set).
THEOREM BidsRise == Spec => BidsOnlyRise
<1> DEFINE Rises ==
      \A a \in Auctions :
          LET row == auction[a]
          IN /\ row.state \in {"SOLD", "NO_SALE"} => auction'[a] = row
             /\ row.state = "ACTIVE" =>
                   /\ auction'[a].bid >= row.bid
                   /\ auction'[a].endsAt >= row.endsAt
                   /\ auction'[a].leader \notin {None, row.leader}
                         => auction'[a].bid > row.bid
<1>1. TypeInv /\ [Next]_vars => Rises
  <2> SUFFICES ASSUME TypeInv, [Next]_vars, NEW a \in Auctions
               PROVE  LET row == auction[a]
                      IN /\ row.state \in {"SOLD", "NO_SALE"} => auction'[a] = row
                         /\ row.state = "ACTIVE" =>
                               /\ auction'[a].bid >= row.bid
                               /\ auction'[a].endsAt >= row.endsAt
                               /\ auction'[a].leader \notin {None, row.leader}
                                     => auction'[a].bid > row.bid
    OBVIOUS
  <2>1. BatchesAccounted
    BY StepAccounts
  <2>2. CASE UNCHANGED d1Vars
    <3>1. auction' = auction /\ auction[a].bid \in Nat /\ auction[a].endsAt \in Nat
      BY <2>2 DEF d1Vars, TypeInv, RowsOK, AuctionRow
    <3>2. auction[a].bid >= auction[a].bid /\ auction[a].endsAt >= auction[a].endsAt
      BY <3>1
    <3> QED BY <3>1, <3>2
  <2>3. ASSUME NEW w \in Outstanding, Lands(w), Write(w)
        PROVE  LET row == auction[a]
               IN /\ row.state \in {"SOLD", "NO_SALE"} => auction'[a] = row
                  /\ row.state = "ACTIVE" =>
                        /\ auction'[a].bid >= row.bid
                        /\ auction'[a].endsAt >= row.endsAt
                        /\ auction'[a].leader \notin {None, row.leader}
                              => auction'[a].bid > row.bid
    <3> DEFINE old == auction[a]
               new == auction'[a]
    <3>1. /\ \/ new = old
             \/ old.state = "ABSENT"
             \/ old.state = "ACTIVE"
          /\ old.state = "ACTIVE" => /\ new.bid >= old.bid /\ new.endsAt >= old.endsAt
                                     /\ new.leader \notin {None, old.leader}
                                          => new.bid > old.bid
      BY <2>3, LandingFacts
    <3> HIDE DEF old, new
    <3> QED BY <3>1 DEF old, new
  <2> QED BY <2>1, <2>2, <2>3 DEF BatchesAccounted
<1> QED BY <1>1, TypeInvHolds, PTL DEF Spec, BidsOnlyRise

\* No auction is closed before its end, even if a bid moved the end after the
\* settlement had found it due (the version guard of closeWithoutSale).
THEOREM NoneClosesEarly == Spec => NoEarlyClose
<1> DEFINE NotEarly == \A a \in Active : auction'[a].state # "ACTIVE" => now >= auction[a].endsAt
<1>1. DueInv /\ [Next]_vars => NotEarly
  <2> SUFFICES ASSUME DueInv, [Next]_vars, NEW a \in Active, auction'[a].state # "ACTIVE"
               PROVE  now >= auction[a].endsAt
    OBVIOUS
  <2>1. TypeInv /\ BatchesAccounted /\ a \in Auctions /\ auction[a].state = "ACTIVE"
    BY StepAccounts DEF DueInv, Active
  <2>2. PICK w \in Outstanding : Lands(w) /\ Write(w)
    BY <2>1 DEF BatchesAccounted, d1Vars
  <2>3. w.type \in {"SALE", "NO_SALE"} /\ w.lot = a /\ w.version = auction[a].version
    BY <2>1, <2>2, LandingFacts
  <2> QED BY <2>1, <2>3 DEF DueInv, StillDue
<1> QED BY <1>1, DueInvHolds, PTL DEF Spec, NoEarlyClose


-----------------------------------------------------------------------------
(* What a step carries with it *)

\* An end of the auction that was read once.
Exists(a) == auction[a].state # "ABSENT"
Read(a, at) == Exists(a) /\ at <= auction[a].endsAt

\* What the stage of a task says of its lot.
Carries(t) ==
    /\ t.stage \in LotStages => Exists(t.lot)
    /\ t.stage \in {"close", "closing", "record"} => t.lot \notin settled
    /\ t.stage = "record" => Closed(t.lot)
    /\ t.stage = "announce" => t.lot \in settled /\ announced[t.lot] = 0
    /\ t.stage \in {"rearm", "realarm", "arm", "alarm"} => Read(t.lot, t.ends)

\* The closings told are of settled auctions, and those are closed.
ToldOK ==
    \A a \in Auctions :
        /\ a \in settled => Closed(a)
        /\ announced[a] # 0 => announced[a] = 1 /\ a \in settled

\* The deadline stored, or about to be.
ReadOK ==
    /\ deadline # None => Read(deadline.lot, deadline.endsAt)
    /\ snapshot.stage # "idle" => Read(snapshot.lot, snapshot.ends)

\* The inductive invariant of the announcements and of the deadline.
CarryInv ==
    /\ TypeInv
    /\ \A t \in running : Carries(t)
    /\ ToldOK
    /\ ReadOK

\* A closed auction stays closed, and an end that was read is not undercut.
LEMMA RowsStay ==
    ASSUME TypeInv, [Next]_vars, NEW a \in Auctions
    PROVE  /\ Closed(a) => Closed(a)'
           /\ Exists(a) => Exists(a)'
           /\ \A at \in Nat : Read(a, at) => auction'[a].state # "ABSENT"
                                             /\ at <= auction'[a].endsAt
<1>1. BatchesAccounted /\ auction[a].endsAt \in Nat
  BY StepAccounts DEF TypeInv, RowsOK, AuctionRow
<1>2. CASE UNCHANGED d1Vars
  BY <1>2 DEF d1Vars, Closed, Exists, Read
<1>3. CASE \E w \in Outstanding : Lands(w) /\ Write(w)
  <2> DEFINE old == auction[a]
             new == auction'[a]
  <2>1. /\ new = old \/ old.state \in {"ABSENT", "ACTIVE"}
        /\ old.state # "ABSENT" => new.state # "ABSENT" /\ new.endsAt >= old.endsAt
        /\ old \in AuctionRow /\ new \in AuctionRow
    BY <1>3, LandingFacts
  <2>2. old.endsAt \in Nat /\ new.endsAt \in Nat
    BY <2>1 DEF AuctionRow
  <2>3. Closed(a) => Closed(a)'
    BY <2>1 DEF Closed
  <2>5. Exists(a) => Exists(a)'
    BY <2>1 DEF Exists
  <2>4. ASSUME NEW at \in Nat, Read(a, at)
        PROVE  new.state # "ABSENT" /\ at <= new.endsAt
    BY <2>1, <2>2, <2>4 DEF Exists, Read
  <2> QED BY <2>3, <2>4, <2>5
<1> QED BY <1>1, <1>2, <1>3 DEF BatchesAccounted

\* Where nothing is settled or told, what was carried still holds.
LEMMA CarriesStays ==
    ASSUME TypeInv, [Next]_vars, NEW t \in running, Carries(t),
           UNCHANGED <<settled, announced>>
    PROVE  Carries(t)'
<1>1. t \in Task /\ TaskShape(t) /\ t.ends \in Nat
  BY DEF TypeInv, SlotOK, Task
<1>2. t.stage \in LotStages => t.lot \in Auctions
  BY <1>1 DEF TaskShape
<1>3. t.stage = "record" => Closed(t.lot)'
  BY <1>2, RowsStay DEF Carries, LotStages
<1>5. t.stage \in LotStages => Exists(t.lot)'
  BY <1>2, RowsStay DEF Carries
<1>4. ASSUME t.stage \in {"rearm", "realarm", "arm", "alarm"} PROVE Read(t.lot, t.ends)'
  BY <1>1, <1>2, <1>4, RowsStay DEF Carries, LotStages, Exists, Read
<1> QED BY <1>3, <1>4, <1>5 DEF Carries

\* Where no deadline is stored and no snapshot is taken, the ends that were read
\* stay good.
LEMMA ReadStays ==
    ASSUME TypeInv, ReadOK, [Next]_vars
    PROVE  /\ deadline # None => auction'[deadline.lot].state # "ABSENT"
                                 /\ deadline.endsAt <= auction'[deadline.lot].endsAt
           /\ snapshot.stage # "idle" => auction'[snapshot.lot].state # "ABSENT"
                                         /\ snapshot.ends <= auction'[snapshot.lot].endsAt
<1>1. deadline # None => deadline.lot \in Auctions /\ deadline.endsAt \in Nat
  BY DEF TypeInv, RestOK
<1>2. snapshot.stage # "idle" => snapshot.lot \in Auctions
  BY DEF TypeInv, RestOK
<1>3. snapshot.ends \in Nat
  BY DEF TypeInv, RestOK, Snapshot
<1> QED BY <1>1, <1>2, <1>3, RowsStay DEF ReadOK

\* Where nothing is settled or told, what was told still holds.
LEMMA ToldStays ==
    ASSUME TypeInv, ToldOK, [Next]_vars, UNCHANGED <<settled, announced>>
    PROVE  ToldOK'
<1>1. ASSUME NEW a \in Auctions
      PROVE  /\ a \in settled => Closed(a)'
             /\ announced[a] # 0 => announced[a] = 1 /\ a \in settled
  BY RowsStay DEF ToldOK
<1> QED BY <1>1 DEF ToldOK

\* Every step of a task carries on.
LEMMA TaskCarries ==
    ASSUME CarryInv, [Next]_vars, TaskStep
    PROVE  (\A t \in running : Carries(t))' /\ ToldOK' /\ ReadOK'
<1> USE DEF CarryInv
<1>1. PICK t \in running :
        \/ ReadDeadline(t) \/ PlanSettlement(t) \/ Settle(t) \/ RecordSettlement(t)
        \/ AnnounceSettlement(t) \/ ClearDeadline(t) \/ Execute(t) \/ Commit(t)
        \/ StoreDeadline(t) \/ SetAlarm(t)
  BY DEF TaskStep
<1>2. t \in Task /\ TaskShape(t) /\ t.job \in Jobs /\ t.ends \in Nat /\ Carries(t)
      /\ SlotOK /\ alarmTail \in BOOLEAN
  BY DEF TypeInv, SlotOK, Task, RestOK
<1>3. ASSUME NEW u, Becomes(t, u), Carries(u)' PROVE (\A v \in running : Carries(v))'
  <2>1. running' = {u}
    BY <1>2, <1>3 DEF SlotOK, Becomes
  <2> QED BY <1>3, <2>1
<1>4. ASSUME Ends(t) PROVE (\A v \in running : Carries(v))'
  BY <1>2, <1>4, EndsKeeps
<1>5. ASSUME SettlementOver(t) PROVE (\A v \in running : Carries(v))'
  <2>1. \A v \in running' : v.stage = "run"
    BY <1>2, <1>5, SettlementOverKeeps
  <2> QED BY <2>1 DEF Carries, LotStages
<1>6. ASSUME UNCHANGED <<settled, announced>> PROVE ToldOK' /\ Carries(t)'
  BY <1>2, <1>6, ToldStays, CarriesStays
<1>7. ASSUME UNCHANGED <<deadline, snapshot>> PROVE ReadOK'
  BY <1>7, ReadStays DEF ReadOK, Exists, Read
<1>8. CASE ReadDeadline(t)
  <2>1. UNCHANGED <<settled, announced, deadline, snapshot, d1Vars>>
    BY <1>8 DEF ReadDeadline, storageVars
  <2>2. \/ SettlementOver(t)
        \/ \E a \in Active :
             Becomes(t, [t EXCEPT !.stage = "rearm", !.lot = a, !.ends = auction[a].endsAt])
        \/ \E stage \in {"clear", "close"} :
             /\ deadline # None /\ (stage = "close" => deadline.lot \notin settled)
             /\ Becomes(t, [t EXCEPT !.lot = deadline.lot, !.tries = 0, !.stage = stage])
    BY <1>8 DEF ReadDeadline, AlreadySettled
  <2>3. ASSUME NEW a \in Active,
               Becomes(t, [t EXCEPT !.stage = "rearm", !.lot = a, !.ends = auction[a].endsAt])
        PROVE  (\A v \in running : Carries(v))'
    <3>0. PICK u : u = [t EXCEPT !.stage = "rearm", !.lot = a, !.ends = auction[a].endsAt]
      OBVIOUS
    <3>1. a \in Auctions /\ auction[a].state = "ACTIVE" /\ auction[a].endsAt \in Nat
      BY DEF Active, TypeInv, RowsOK, AuctionRow
    <3>2. u.stage = "rearm" /\ u.lot = a /\ u.ends = auction[a].endsAt /\ Becomes(t, u)
      BY <1>2, <2>3, <3>0 DEF Task
    <3>3. auction[a].endsAt <= auction[a].endsAt
      BY <3>1
    <3>4. Read(u.lot, u.ends)'
      BY <2>1, <3>1, <3>2, <3>3 DEF Exists, Read, d1Vars
    <3>5. Carries(u)'
      BY <3>2, <3>4 DEF Carries, Read
    <3> QED BY <1>3, <3>2, <3>5
  <2>4. ASSUME NEW stage \in {"clear", "close"}, deadline # None, stage = "close" => deadline.lot \notin settled,
               Becomes(t, [t EXCEPT !.lot = deadline.lot, !.tries = 0, !.stage = stage])
        PROVE  (\A v \in running : Carries(v))'
    <3>0. PICK u : u = [t EXCEPT !.lot = deadline.lot, !.tries = 0, !.stage = stage]
      OBVIOUS
    <3>1. u.stage = stage /\ u.lot = deadline.lot /\ Becomes(t, u)
      BY <1>2, <2>4, <3>0 DEF Task
    <3>2. Exists(deadline.lot)' /\ UNCHANGED <<deadline, settled>>
      BY <2>1, <2>4 DEF ReadOK, Exists, Read, d1Vars
    <3>3. Carries(u)'
      BY <2>4, <3>1, <3>2 DEF Carries, Exists
    <3> QED BY <1>3, <3>1, <3>3
  <2> QED BY <1>5, <1>6, <1>7, <2>1, <2>2, <2>3, <2>4
<1>9. CASE PlanSettlement(t)
  <2>1. UNCHANGED <<settled, announced, deadline, snapshot, auction>>
        /\ t.stage = "close" /\ t.lot \in Auctions
    BY <1>2, <1>9 DEF PlanSettlement, storageVars, d1Vars, TaskShape, LotStages
  <2>2. \/ SettlementOver(t)
        \/ \E w, tries : Becomes(t, [t EXCEPT !.stage = "closing", !.tries = tries, !.batch = w])
        \/ /\ auction[t.lot].state # "ACTIVE"
           /\ Becomes(t, [t EXCEPT !.stage = "record"])
    BY <1>9 DEF PlanSettlement
  <2>3. t.lot \notin settled /\ Exists(t.lot) /\ Exists(t.lot)'
    BY <1>2, <2>1 DEF Carries, LotStages, Exists
  <2>4. ASSUME NEW w, NEW tries,
               Becomes(t, [t EXCEPT !.stage = "closing", !.tries = tries, !.batch = w])
        PROVE  (\A v \in running : Carries(v))'
    <3>0. PICK u : u = [t EXCEPT !.stage = "closing", !.tries = tries, !.batch = w]
      OBVIOUS
    <3>1. u.stage = "closing" /\ u.lot = t.lot /\ Becomes(t, u)
      BY <1>2, <2>4, <3>0 DEF Task
    <3>2. Carries(u)'
      BY <2>1, <2>3, <3>1 DEF Carries
    <3> QED BY <1>3, <3>1, <3>2
  <2>5. ASSUME /\ auction[t.lot].state # "ACTIVE"
               /\ Becomes(t, [t EXCEPT !.stage = "record"])
        PROVE  (\A v \in running : Carries(v))'
    <3>0. PICK u : u = [t EXCEPT !.stage = "record"]
      OBVIOUS
    <3>1. u.stage = "record" /\ u.lot = t.lot /\ Becomes(t, u)
      BY <1>2, <2>5, <3>0 DEF Task
    <3>2. Closed(t.lot)
      BY <2>1, <2>3, <2>5 DEF Closed, Exists, TypeInv, RowsOK, AuctionRow, AuctionStates
    <3>3. Carries(u)'
      BY <2>1, <2>3, <3>1, <3>2 DEF Carries, Closed
    <3> QED BY <1>3, <3>1, <3>3
  <2> QED BY <1>5, <1>6, <1>7, <2>1, <2>2, <2>4, <2>5
<1>10. CASE Settle(t)
  <2>1. UNCHANGED <<settled, announced, deadline, snapshot>> /\ t.stage = "closing"
        /\ t.lot \in Auctions
    BY <1>2, <1>10 DEF Settle, TaskShape, LotStages
  <2>2. \/ Becomes(t, [t EXCEPT !.stage = "close", !.batch = None])
        \/ SettlementOver(t) \/ Ends(t)
    BY <1>10 DEF Settle, SettlementThrows
  <2>3. ASSUME Becomes(t, [t EXCEPT !.stage = "close", !.batch = None])
        PROVE  (\A v \in running : Carries(v))'
    <3>0. PICK u : u = [t EXCEPT !.stage = "close", !.batch = None]
      OBVIOUS
    <3>1. u.stage = "close" /\ u.lot = t.lot /\ Becomes(t, u)
      BY <1>2, <2>3, <3>0 DEF Task
    <3>2. t.lot \notin settled /\ Exists(t.lot)
      BY <1>2, <2>1 DEF Carries, LotStages
    <3>3. Exists(t.lot)'
      BY <2>1, <3>2, RowsStay
    <3>4. Carries(u)'
      BY <2>1, <3>1, <3>2, <3>3 DEF Carries
    <3> QED BY <1>3, <3>1, <3>4
  <2> QED BY <1>4, <1>5, <1>6, <1>7, <2>1, <2>2, <2>3
<1>11. CASE RecordSettlement(t)
  <2>1. UNCHANGED <<announced, deadline, snapshot, auction>> /\ t.stage = "record"
        /\ t.lot \in Auctions /\ settled' = settled \cup {t.lot}
    BY <1>2, <1>11 DEF RecordSettlement, storageVars, d1Vars, TaskShape, LotStages
  <2>2. t.lot \notin settled /\ Closed(t.lot) /\ Exists(t.lot) /\ announced[t.lot] = 0
    BY <1>2, <2>1 DEF Carries, LotStages, ToldOK
  <2>0. PICK u : u = [t EXCEPT !.stage = "announce"]
    OBVIOUS
  <2>3. u.stage = "announce" /\ u.lot = t.lot /\ Becomes(t, u)
    BY <1>2, <1>11, <2>0 DEF RecordSettlement, Task
  <2>4. Carries(u)'
    BY <2>1, <2>2, <2>3 DEF Carries, Exists
  <2>5. ToldOK'
    BY <2>1, <2>2 DEF ToldOK, Closed
  <2> QED BY <1>3, <1>7, <2>1, <2>3, <2>4, <2>5
<1>12. CASE AnnounceSettlement(t)
  <2>1. UNCHANGED <<settled, deadline, snapshot, auction>> /\ t.stage = "announce"
        /\ t.lot \in Auctions /\ announced' = [announced EXCEPT ![t.lot] = announced[t.lot] + 1]
    BY <1>2, <1>12 DEF AnnounceSettlement, storageVars, d1Vars, TaskShape, LotStages
  <2>2. t.lot \in settled /\ Exists(t.lot) /\ announced[t.lot] = 0
    BY <1>2, <2>1 DEF Carries, LotStages
  <2>0. PICK u : u = [t EXCEPT !.stage = "clear"]
    OBVIOUS
  <2>3. u.stage = "clear" /\ u.lot = t.lot /\ Becomes(t, u)
    BY <1>2, <1>12, <2>0 DEF AnnounceSettlement, Task
  <2>4. Carries(u)'
    BY <2>1, <2>2, <2>3 DEF Carries, Exists
  <2>5. announced \in [Auctions -> Nat]
    BY DEF TypeInv, RestOK
  <2>6. ToldOK'
    BY <2>1, <2>2, <2>5 DEF ToldOK, Closed
  <2> QED BY <1>3, <1>7, <2>1, <2>3, <2>4, <2>6
<1>13. CASE ClearDeadline(t)
  <2>1. UNCHANGED <<settled, announced, snapshot>> /\ SettlementOver(t)
        /\ (deadline' = deadline \/ deadline' = None)
    BY <1>13 DEF ClearDeadline, storageVars
  <2>2. ReadOK'
    BY <2>1, ReadStays DEF ReadOK, Exists, Read
  <2> QED BY <1>5, <1>6, <2>1, <2>2
<1>14. CASE Execute(t)
  <2>1. UNCHANGED <<settled, announced, deadline, snapshot, d1Vars>> /\ t.stage = "run"
        /\ t.job \in Commands
    BY <1>2, <1>14 DEF Execute, storageVars, TaskShape
  <2>2. \/ Ends(t)
        \/ Becomes(t, [t EXCEPT !.stage = "writing", !.batch = BatchOf(t.job)])
        \/ /\ t.job.kind = "START" /\ Exists(t.job.lot)
           /\ Becomes(t, [t EXCEPT !.stage = "arm", !.lot = t.job.lot,
                                   !.ends = auction[t.job.lot].endsAt])
    BY <1>14 DEF Execute, Exists
  <2>3. ASSUME Becomes(t, [t EXCEPT !.stage = "writing", !.batch = BatchOf(t.job)])
        PROVE  (\A v \in running : Carries(v))'
    <3>0. PICK u : u = [t EXCEPT !.stage = "writing", !.batch = BatchOf(t.job)]
      OBVIOUS
    <3>1. u.stage = "writing" /\ Becomes(t, u)
      BY <1>2, <2>3, <3>0 DEF Task
    <3>2. Carries(u)'
      BY <3>1 DEF Carries, LotStages
    <3> QED BY <1>3, <3>1, <3>2
  <2>4. ASSUME /\ t.job.kind = "START" /\ Exists(t.job.lot)
               /\ Becomes(t, [t EXCEPT !.stage = "arm", !.lot = t.job.lot,
                                       !.ends = auction[t.job.lot].endsAt])
        PROVE  (\A v \in running : Carries(v))'
    <3>0. PICK u : u = [t EXCEPT !.stage = "arm", !.lot = t.job.lot,
                              !.ends = auction[t.job.lot].endsAt]
      OBVIOUS
    <3>1. t.job.lot \in Auctions /\ auction[t.job.lot].endsAt \in Nat
      BY <2>1, <2>4, CommandFacts DEF TypeInv, RowsOK, AuctionRow
    <3>2. u.stage = "arm" /\ u.lot = t.job.lot /\ u.ends = auction[t.job.lot].endsAt
          /\ Becomes(t, u)
      BY <1>2, <2>4, <3>0 DEF Task
    <3>3. auction[u.lot].endsAt <= auction[u.lot].endsAt /\ auction' = auction
      BY <2>1, <3>1, <3>2 DEF d1Vars
    <3>4. Exists(u.lot)' /\ Read(u.lot, u.ends)'
      BY <2>4, <3>2, <3>3 DEF Exists, Read
    <3>5. Carries(u)'
      BY <3>2, <3>4 DEF Carries
    <3> QED BY <1>3, <3>2, <3>5
  <2> QED BY <1>4, <1>6, <1>7, <2>1, <2>2, <2>3, <2>4
<1>15. CASE Commit(t)
  <2>1. UNCHANGED <<settled, announced, deadline, snapshot>> /\ t.stage = "writing"
        /\ t.batch \in Batch /\ BatchShape(t.batch)
    BY <1>2, <1>15 DEF Commit, storageVars, TaskShape
  <2>2. \/ Ends(t)
        \/ /\ Lands(t.batch) /\ Write(t.batch) /\ t.batch.type \in {"START", "BID"}
           /\ Becomes(t, [t EXCEPT !.stage = "arm", !.batch = None, !.lot = t.batch.lot,
                                   !.ends = RowAfter(t.batch, t.batch.lot).endsAt])
    BY <1>15 DEF Commit
  <2>3. ASSUME /\ Lands(t.batch) /\ Write(t.batch) /\ t.batch.type \in {"START", "BID"}
               /\ Becomes(t, [t EXCEPT !.stage = "arm", !.batch = None, !.lot = t.batch.lot,
                                       !.ends = RowAfter(t.batch, t.batch.lot).endsAt])
        PROVE  (\A v \in running : Carries(v))'
    <3>0. PICK ends, u : /\ ends = RowAfter(t.batch, t.batch.lot).endsAt
                         /\ u = [t EXCEPT !.stage = "arm", !.batch = None,
                                          !.lot = t.batch.lot, !.ends = ends]
      OBVIOUS
    <3>1. t.batch.lot \in Auctions /\ t.batch \in Outstanding
      BY <2>1, <2>3 DEF BatchShape, Outstanding, SentBy
    <3>2. auction'[t.batch.lot] = RowAfter(t.batch, t.batch.lot)
          /\ auction[t.batch.lot] \in AuctionRow
      BY <2>3, <3>1 DEF Write, TypeInv, RowsOK
    <3>3. Becomes(t, u)
      BY <2>3, <3>0
    <3>4. ends = auction'[t.batch.lot].endsAt
      BY <3>0, <3>2
    <3>5. u.stage = "arm" /\ u.lot = t.batch.lot /\ u.ends = ends
      BY <1>2, <3>0 DEF Task
    <3>6. Touches(t.batch, t.batch.lot)
      BY <2>3 DEF Touches
    <3>7. auction'[t.batch.lot] \in AuctionRow
      BY <2>1, <3>2, RowFields
    <3>8. ends <= auction'[t.batch.lot].endsAt
      BY <3>4, <3>7 DEF AuctionRow
    <3>9. auction'[t.batch.lot].state = "ACTIVE"
      <4>1. CASE t.batch.type = "START"
        BY <2>1, <3>2, <3>6, <4>1, RowFields
      <4>2. CASE t.batch.type = "BID"
        <5>1. auction[t.batch.lot].state = "ACTIVE"
          BY <2>3, <4>2 DEF Lands, BidLands, AtVersion
        <5> QED BY <2>1, <3>2, <3>6, <4>2, <5>1, RowFields
      <4> QED BY <2>3, <4>1, <4>2
    <3>10. Carries(u)'
      <4>1. auction'[u.lot].state # "ABSENT" /\ u.ends <= auction'[u.lot].endsAt
        BY <3>5, <3>8, <3>9
      <4> QED BY <3>5, <4>1 DEF Carries, Exists, Read
    <3> QED BY <1>3, <3>3, <3>10
  <2> QED BY <1>4, <1>6, <1>7, <2>1, <2>2, <2>3
<1>16. CASE StoreDeadline(t)
  <2>1. UNCHANGED <<settled, announced, snapshot, d1Vars>> /\ t.lot \in Auctions
        /\ t.stage \in {"rearm", "arm"}
        /\ deadline' = [lot |-> t.lot, endsAt |-> t.ends]
    BY <1>2, <1>16 DEF StoreDeadline, Arm, TaskShape, LotStages
  <2> DEFINE stage == IF t.stage = "rearm" THEN "realarm" ELSE "alarm"
  <2>0. PICK u : u = [t EXCEPT !.stage = stage]
    OBVIOUS
  <2>2. u.stage = stage /\ u.lot = t.lot /\ u.ends = t.ends /\ Becomes(t, u)
        /\ stage \in {"realarm", "alarm"}
    BY <1>2, <1>16, <2>0 DEF StoreDeadline, Task
  <2> HIDE DEF stage
  <2>3. Read(t.lot, t.ends) /\ Read(t.lot, t.ends)'
    BY <1>2, <2>1 DEF Carries, Exists, Read, d1Vars
  <2>4. Carries(u)'
    BY <2>2, <2>3 DEF Carries, LotStages, Read
  <2>5. ReadOK'
    <3>1. auction'[deadline'.lot].state # "ABSENT" /\ deadline'.endsAt <= auction'[deadline'.lot].endsAt
      BY <2>1, <2>3 DEF Exists, Read, d1Vars
    <3> QED BY <2>1, <3>1, ReadStays DEF ReadOK, Exists, Read
  <2> QED BY <1>3, <1>6, <2>1, <2>2, <2>4, <2>5
<1>17. CASE SetAlarm(t)
  <2>1. UNCHANGED <<settled, announced, deadline, snapshot>>
        /\ (Ends(t) \/ Becomes(t, NewTask(t.job)))
    BY <1>17 DEF SetAlarm
  <2>2. NewTask(t.job).stage = "settle"
    BY <1>2, NewTaskFacts
  <2>3. Carries(NewTask(t.job))'
    BY <2>2 DEF Carries, LotStages
  <2> QED BY <1>3, <1>4, <1>6, <1>7, <2>1, <2>3
<1> QED
  BY <1>1, <1>8, <1>9, <1>10, <1>11, <1>12, <1>13, <1>14, <1>15, <1>16, <1>17


\* Every step carries on.
LEMMA CarryStep ==
    ASSUME CarryInv, [Next]_vars
    PROVE  CarryInv'
<1> USE DEF CarryInv
<1>1. TypeInv'
  BY TypeStep
<1>2. ASSUME UNCHANGED <<settled, announced>> PROVE ToldOK' /\ (\A t \in running : Carries(t)')
  BY <1>2, ToldStays, CarriesStays
<1>3. ASSUME UNCHANGED <<deadline, snapshot>> PROVE ReadOK'
  BY <1>3, ReadStays DEF ReadOK, Exists, Read
<1>4. ASSUME UNCHANGED <<settled, announced>>, \A t \in running' : t \in running \/ t.stage = "run"
      PROVE  ToldOK' /\ (\A t \in running : Carries(t))'
  <2>1. ASSUME NEW t, t.stage = "run" PROVE Carries(t)'
    BY <2>1 DEF Carries, LotStages
  <2> QED BY <1>2, <1>4, <2>1
<1>5. ASSUME NEW job \in Jobs, running' = running \cup {NewTask(job)},
             UNCHANGED <<settled, announced, deadline, snapshot>>
      PROVE  CarryInv'
  <2>1. NewTask(job).stage = "settle"
    BY NewTaskFacts
  <2>2. PICK u : u = NewTask(job)
    OBVIOUS
  <2>3. Carries(u)'
    BY <2>1, <2>2 DEF Carries, LotStages
  <2>4. running' = running \cup {u}
    BY <1>5, <2>2
  <2> QED BY <1>1, <1>2, <1>3, <1>5, <2>3, <2>4
<1>6. ASSUME NEW job \in Jobs, Submit(job) PROVE CarryInv'
  BY <1>5, <1>6 DEF Submit, storageVars
<1>7. CASE AlarmFires
  <2>1. Trigger("ALARM") \in Jobs
    BY DEF Jobs
  <2> QED BY <1>5, <1>7, <2>1 DEF AlarmFires
<1>8. CASE AlarmEnds \/ Tick \/ UNCHANGED vars \/ \E w \in late : LateWriteArrives(w)
  <2>1. UNCHANGED <<settled, announced, deadline, snapshot, running>>
    BY <1>8 DEF AlarmEnds, Tick, LateWriteArrives, vars, storageVars
  <2> QED BY <1>1, <1>3, <1>4, <2>1
<1>9. CASE TaskStep
  BY <1>1, <1>9, TaskCarries
<1>10. CASE SnapshotReads
  <2>1. UNCHANGED <<settled, announced, deadline, running, auction>>
    BY <1>10 DEF SnapshotReads, storageVars, d1Vars
  <2>2. PICK a \in Active :
          snapshot' = [stage |-> "loaded", lot |-> a, ends |-> auction[a].endsAt]
    BY <1>10 DEF SnapshotReads
  <2>3. auction[a].state # "ABSENT" /\ auction[a].endsAt <= auction[a].endsAt
    BY DEF Active, TypeInv, RowsOK, AuctionRow
  <2>4. auction'[snapshot'.lot].state # "ABSENT"
        /\ snapshot'.ends <= auction'[snapshot'.lot].endsAt
    BY <2>1, <2>2, <2>3
  <2>5. ReadOK'
    BY <2>1, <2>4, ReadStays DEF ReadOK, Exists, Read
  <2> QED BY <1>1, <1>4, <2>1, <2>5
<1>11. CASE SnapshotArms
  <2>1. UNCHANGED <<settled, announced, running, auction>> /\ snapshot.stage = "loaded"
    BY <1>11 DEF SnapshotArms, d1Vars
  <2>2. \/ /\ deadline' = [lot |-> snapshot.lot, endsAt |-> snapshot.ends]
           /\ snapshot' = [snapshot EXCEPT !.stage = "armed"]
        \/ deadline' = deadline /\ snapshot' = NoSnapshot
    BY <1>11 DEF SnapshotArms, Arm
  <2>3. auction'[snapshot.lot].state # "ABSENT" /\ snapshot.ends <= auction'[snapshot.lot].endsAt
    BY <2>1, ReadStays
  <2>4. ReadOK'
    <3>1. CASE /\ deadline' = [lot |-> snapshot.lot, endsAt |-> snapshot.ends]
               /\ snapshot' = [snapshot EXCEPT !.stage = "armed"]
      <4>1. snapshot'.lot = snapshot.lot /\ snapshot'.ends = snapshot.ends
        BY <3>1 DEF TypeInv, RestOK, Snapshot
      <4> QED BY <2>3, <3>1, <4>1 DEF ReadOK, Exists, Read
    <3>2. CASE deadline' = deadline /\ snapshot' = NoSnapshot
      <4>1. snapshot'.stage = "idle"
        BY <3>2 DEF NoSnapshot
      <4> QED BY <3>2, <4>1, ReadStays DEF ReadOK, Exists, Read
    <3> QED BY <2>2, <3>1, <3>2
  <2> QED BY <1>1, <1>4, <2>1, <2>4
<1>12. CASE SnapshotSetsAlarm
  <2>1. UNCHANGED <<settled, announced, running, deadline>> /\ snapshot'.stage = "idle"
    BY <1>12 DEF SnapshotSetsAlarm, NoSnapshot
  <2>2. ReadOK'
    BY <2>1, ReadStays DEF ReadOK, Exists, Read
  <2> QED BY <1>1, <1>4, <2>1, <2>2
<1>13. ASSUME NEW t \in running, StepFails(t) PROVE CarryInv'
  <2>1. UNCHANGED <<settled, announced, deadline, snapshot>> /\ (SettlementThrows(t) \/ Ends(t))
    BY <1>13 DEF StepFails
  <2>2. SlotOK /\ alarmTail \in BOOLEAN
    BY DEF TypeInv, RestOK
  <2>3. ASSUME SettlementOver(t) PROVE \A u \in running' : u.stage = "run"
    BY <2>2, <2>3, SettlementOverKeeps
  <2>4. ASSUME Ends(t) PROVE running' = {}
    BY <2>2, <2>4, EndsKeeps
  <2>5. \A u \in running' : u.stage = "run"
    BY <2>1, <2>3, <2>4 DEF SettlementThrows
  <2> QED BY <1>1, <1>3, <1>4, <2>1, <2>5
<1>14. CASE Crash
  <2>1. UNCHANGED <<settled, announced, deadline>> /\ snapshot'.stage = "idle" /\ running' = {}
    BY <1>14 DEF Crash, NoSnapshot
  <2>2. ReadOK'
    BY <2>1, ReadStays DEF ReadOK, Exists, Read
  <2> QED BY <1>1, <1>4, <2>1, <2>2
<1> QED
  BY <1>6, <1>7, <1>8, <1>9, <1>10, <1>11, <1>12, <1>13, <1>14 DEF Next

\* So it is in every reachable state.
LEMMA CarryInvHolds == Spec => []CarryInv
<1>1. Init /\ TypeInv => CarryInv
  <2> SUFFICES ASSUME Init, TypeInv PROVE CarryInv
    OBVIOUS
  <2>1. ToldOK /\ ReadOK
    BY DEF Init, ToldOK, ReadOK, NoSnapshot
  <2> QED BY <2>1 DEF Init, CarryInv
<1>2. CarryInv /\ [Next]_vars => CarryInv'
  BY CarryStep
<1> QED BY <1>1, <1>2, TypeInvHolds, PTL DEF Spec

\* An auction is paid for exactly once, exactly when it is sold, by its last leader
\* and with the last bid, and its closing is told at most once (auctionStatements,
\* the auction-settle: ledger entry).
THEOREM AuctionsPaidAndTold == Spec => []PaidAndToldOnce
<1>1. DueInv /\ CarryInv => PaidAndToldOnce
  <2> SUFFICES ASSUME DueInv, CarryInv, NEW a \in Auctions
               PROVE  /\ payments[a] = IF auction[a].state = "SOLD"
                                       THEN << [player |-> auction[a].leader,
                                                amount |-> auction[a].bid] >>
                                       ELSE <<>>
                      /\ announced[a] > 0 =>
                           /\ announced[a] = 1 /\ a \in settled
                           /\ auction[a].state \in {"SOLD", "NO_SALE"}
    BY DEF PaidAndToldOnce
  <2>1. Paid(a)
    BY DEF DueInv
  <2>2. announced[a] \in Nat
    BY DEF CarryInv, TypeInv, RestOK
  <2>3. announced[a] # 0 => announced[a] = 1 /\ a \in settled /\ Closed(a)
    BY DEF CarryInv, ToldOK
  <2> QED BY <2>1, <2>2, <2>3 DEF Paid, Closed
<1> QED BY <1>1, DueInvHolds, CarryInvHolds, PTL

\* The stored deadline is never after the end of the auction it stands for, running
\* or not (armAuction, runSettlement, state).
THEOREM DeadlinesAreGood == Spec => []DeadlineNotAfterEnd
<1>1. CarryInv => DeadlineNotAfterEnd
  BY DEF CarryInv, ReadOK, Read, DeadlineNotAfterEnd
<1> QED BY <1>1, CarryInvHolds, PTL


-----------------------------------------------------------------------------
(* What is reserved is not spent *)

Covered(a) ==
    auction[a].leader # None =>
        /\ status[auction[a].leader] = "ACTIVE"
        /\ balance[auction[a].leader] >= auction[a].bid

\* A debit that was allowed leaves the reserve, as long as its guard would let it in.
SparesReserve(w) ==
    /\ w.amount > 0
    /\ balance[w.player] = w.before =>
          \A a \in Active : auction[a].leader = w.player => w.before - w.amount >= auction[a].bid

\* The inductive invariant of the reserve, for writes that die with their step.
CoverInv ==
    /\ TypeInv
    /\ late = {}
    /\ \A a, b \in Active : a = b
    /\ \A a \in Active : Covered(a)
    /\ \A w \in Outstanding : w.type = "DEBIT" => SparesReserve(w)

\* At most one batch is outstanding then.
LEMMA OneOutstanding ==
    ASSUME CoverInv
    PROVE  \A v, w \in Outstanding : v = w
BY DEF CoverInv, TypeInv, SlotOK, Outstanding, SentBy

\* A debit that its rules allow leaves the reserve.
LEMMA DebitsSpare ==
    ASSUME CoverInv, NEW job \in Commands, Allowed(job), job.kind = "DEBIT"
    PROVE  SparesReserve(BatchOf(job))
<1>1. job.player \in Players /\ job.player # None /\ job.lot = None
  BY CommandFacts, NoneAssumption
<1>2. job.value \in Nat /\ job.value > 0
  <2>1. job \in [kind : {"DEBIT"}, player : Players, lot : {None}, value : Amounts]
    BY DEF Commands
  <2>2. job.value \in Nat \ {0}
    BY <2>1, AmountsAssumption, Zenon
  <2> QED BY <2>2
<1>3. MayDebit(job.player, job.value)
  BY <1>1 DEF Allowed
<1>4. BatchOf(job).amount = job.value /\ BatchOf(job).before = balance[job.player]
      /\ BatchOf(job).player = job.player
  BY <1>1 DEF BatchOf, NewBatch
<1>5. balance[job.player] \in Nat
  BY <1>1 DEF CoverInv, TypeInv, RowsOK
<1>6. ASSUME NEW a \in Active, auction[a].leader = job.player
      PROVE  balance[job.player] - job.value >= auction[a].bid
  <2>1. auction[a].bid \in Nat
    BY DEF Active, CoverInv, TypeInv, RowsOK, AuctionRow
  <2>2. auctionReserve(job.player) = auction[a].bid
    <3> DEFINE led == {b \in Active : auction[b].leader = job.player}
    <3>1. led = {a}
      BY <1>6 DEF CoverInv
    <3>2. (CHOOSE b \in led : TRUE) = a
      BY <3>1
    <3> QED BY <3>1, <3>2 DEF auctionReserve
  <2>3. /\ balance[job.player] >= job.value
        /\ auction[a].bid > 0 => balance[job.player] - job.value >= auction[a].bid
    BY <1>3, <2>2 DEF MayDebit
  <2> QED BY <1>2, <1>5, <2>1, <2>3
<1> QED BY <1>2, <1>4, <1>6 DEF SparesReserve

\* What is reserved stays covered by the batch that lands.
LEMMA LandingCovers ==
    ASSUME CoverInv, NEW w \in Outstanding, Lands(w), Write(w)
    PROVE  /\ \A a, b \in Active' : a = b
           /\ \A a \in Active' : Covered(a)'
           /\ w.type = "DEBIT" => SparesReserve(w)'
<1> USE DEF CoverInv
<1>1. w \in Batch /\ BatchShape(w)
      /\ w.type \in {"START", "BID", "DEBIT", "BANKRUPT", "FINISH", "SALE", "NO_SALE"}
      /\ w.amount \in Nat /\ w.before \in Nat
  <2>1. w \in Batch /\ BatchShape(w)
    BY OutstandingShape
  <2> QED BY <2>1 DEF Batch
<1>2. ASSUME NEW a \in Auctions
      PROVE  /\ auction'[a] = RowAfter(w, a) /\ auction[a] \in AuctionRow
             /\ ~Touches(w, a) => auction'[a] = auction[a]
  BY <1>1, <1>2, RowFields DEF Write, TypeInv, RowsOK
<1>3. balance \in [Players -> Nat] /\ status \in [Players -> {"ACTIVE", "BANKRUPT"}]
  BY DEF TypeInv, RowsOK
<1>4. \A a \in Auctions : auction[a].leader \in Players \cup {None} /\ auction[a].bid \in Nat
  BY <1>2 DEF AuctionRow
<1>5. CASE w.type = "START"
  <2>1. Active = {} /\ w.lot \in Auctions
    BY <1>1, <1>5 DEF Lands, BatchShape
  <2>2. \A a \in Auctions : a # w.lot => auction'[a] = auction[a]
    BY <1>2, <1>5 DEF Touches
  <2>3. auction'[w.lot].leader = None
    <3>1. Touches(w, w.lot)
      BY <1>5 DEF Touches
    <3> QED BY <1>1, <1>2, <1>5, <2>1, <3>1, RowFields
  <2>4. Active' \subseteq {w.lot}
    BY <2>1, <2>2 DEF Active
  <2> QED BY <1>5, <2>3, <2>4 DEF Covered
<1>6. CASE w.type = "BID"
  <2>1. /\ w.lot \in Active /\ w.player \in Players /\ status[w.player] = "ACTIVE"
        /\ balance[w.player] >= w.amount
    BY <1>1, <1>6 DEF Lands, BidLands, AtVersion, BatchShape, Active
  <2>2. \A a \in Auctions : a # w.lot => auction'[a] = auction[a]
    BY <1>2, <1>6 DEF Touches
  <2>3. /\ w.lot \in Auctions
        /\ auction'[w.lot].leader = w.player /\ auction'[w.lot].bid = w.amount
    <3>1. Touches(w, w.lot) /\ w.lot \in Auctions
      BY <1>6, <2>1 DEF Touches, Active
    <3> QED BY <1>1, <1>2, <1>6, <3>1, RowFields
  <2>4. Active' \subseteq {w.lot}
    <3>1. \A a \in Active : a = w.lot
      BY <2>1
    <3> QED BY <2>2, <3>1 DEF Active
  <2>5. UNCHANGED <<status, balance>>
    BY <1>6 DEF Write
  <2> QED BY <1>6, <2>1, <2>3, <2>4, <2>5 DEF Covered
<1>7. CASE w.type = "DEBIT"
  <2>1. auction' = auction
    <3>1. \A a \in Auctions : auction'[a] = auction[a]
      BY <1>2, <1>7 DEF Touches
    <3> QED BY <3>1 DEF Write, TypeInv, RowsOK
  <2>2. /\ w.player \in Players /\ balance[w.player] = w.before /\ UNCHANGED status
        /\ balance' = [balance EXCEPT ![w.player] = w.before - w.amount]
    BY <1>1, <1>7 DEF Lands, Write, BatchShape
  <2>3. SparesReserve(w) /\ Active' = Active
    BY <1>7, <2>1 DEF Active
  <2>4. w.amount > 0 /\ w.before - w.amount # w.before
    BY <1>1, <2>3 DEF SparesReserve
  <2>5. SparesReserve(w)'
    BY <1>3, <2>2, <2>4 DEF SparesReserve
  <2>6. ASSUME NEW a \in Active PROVE Covered(a)'
    <3>1. CASE auction[a].leader = w.player
      BY <1>3, <2>1, <2>2, <2>3, <3>1 DEF Covered, SparesReserve
    <3>2. CASE auction[a].leader # w.player
      BY <1>3, <2>1, <2>2, <3>2 DEF Covered
    <3> QED BY <3>1, <3>2
  <2> QED BY <2>3, <2>5, <2>6
<1>8. CASE w.type = "BANKRUPT"
  <2>1. \A a \in Auctions : auction'[a].state = auction[a].state
    BY <1>1, <1>2, <1>8, RowFields
  <2>2. Active' = Active
    BY <2>1 DEF Active
  <2>3. /\ w.player \in Players
        /\ balance' = [balance EXCEPT ![w.player] = 0]
        /\ status' = [status EXCEPT ![w.player] = "BANKRUPT"]
    BY <1>1, <1>8 DEF Write, BatchShape
  <2>4. ASSUME NEW a \in Active PROVE Covered(a)'
    <3>1. a \in Auctions /\ auction[a].state = "ACTIVE"
      BY DEF Active
    <3>2. CASE auction[a].leader = w.player
      <4>1. auction'[a].leader = None
        <5>1. Touches(w, a)
          BY <1>8, <3>1, <3>2 DEF Touches
        <5> QED BY <1>1, <1>2, <1>8, <3>1, <5>1, RowFields
      <4> QED BY <4>1 DEF Covered
    <3>3. CASE auction[a].leader # w.player
      <4>1. auction'[a] = auction[a]
        BY <1>2, <1>8, <3>1, <3>3 DEF Touches
      <4>2. Covered(a)
        OBVIOUS
      <4> QED BY <1>3, <1>4, <2>3, <3>1, <3>3, <4>1, <4>2 DEF Covered
    <3> QED BY <3>2, <3>3
  <2> QED BY <1>8, <2>2, <2>4
<1>9. CASE w.type = "FINISH"
  <2>1. auction' = auction
    <3>1. \A a \in Auctions : auction'[a] = auction[a]
      BY <1>2, <1>9 DEF Touches
    <3> QED BY <3>1 DEF Write, TypeInv, RowsOK
  <2>2. UNCHANGED <<balance, status>>
    BY <1>9 DEF Write
  <2> QED BY <1>9, <2>1, <2>2 DEF Active, Covered
<1>10. CASE w.type \in {"SALE", "NO_SALE"}
  <2>1. w.lot \in Active
    BY <1>1, <1>10 DEF Lands, SaleLands, NoSaleLands, AtVersion, BatchShape, Active
  <2>2. \A a \in Auctions : a # w.lot => auction'[a] = auction[a]
    BY <1>2, <1>10 DEF Touches
  <2>3. auction'[w.lot].state # "ACTIVE"
    <3>1. Touches(w, w.lot) /\ w.lot \in Auctions
      BY <1>10, <2>1 DEF Touches, Active
    <3> QED BY <1>1, <1>2, <1>10, <3>1, RowFields
  <2>4. \A a \in Active : a = w.lot
    BY <2>1
  <2>5. Active' = {}
    BY <2>2, <2>3, <2>4 DEF Active
  <2> QED BY <1>10, <2>5
<1> QED BY <1>1, <1>5, <1>6, <1>7, <1>8, <1>9, <1>10

\* Without late writes nothing outlives a step.
LEMMA NothingLate == ASSUME ~LateWrites, late = {}, [Next]_vars PROVE late' = {}
<1>1. ASSUME NEW tasks, Abandon(tasks) PROVE late' = {}
  BY <1>1 DEF Abandon
<1>2. \/ late' = late
      \/ \E tasks : Abandon(tasks)
      \/ late' \subseteq late
  BY DEF Next, Submit, AlarmFires, AlarmEnds, TaskStep, ReadDeadline, PlanSettlement,
         Settle, RecordSettlement, AnnounceSettlement, ClearDeadline, Execute, Commit,
         StoreDeadline, SetAlarm, SnapshotReads, SnapshotArms, SnapshotSetsAlarm, Tick,
         StepFails, Crash, LateWriteArrives, vars
<1> QED BY <1>1, <1>2

\* Every step that leaves no write behind keeps the reserve covered.
LEMMA CoverStep ==
    ASSUME late' = {}, CoverInv, [Next]_vars
    PROVE  CoverInv'
<1> USE DEF CoverInv
<1>1. TypeInv' /\ BatchesAccounted
  BY TypeStep, StepAccounts
<1>2. late' = {}
  OBVIOUS
<1>3. CASE UNCHANGED d1Vars
  <2>1. Active' = Active /\ UNCHANGED <<auction, balance, status>>
    BY <1>3 DEF Active, d1Vars
  <2>2. \A a \in Active' : Covered(a)'
    BY <2>1 DEF Covered
  <2>3. ASSUME NEW w, w.type = "DEBIT", SparesReserve(w) PROVE SparesReserve(w)'
    BY <2>1, <2>3 DEF SparesReserve
  <2>4. ASSUME NEW w, w.type = "DEBIT", Planned(w) PROVE SparesReserve(w)
    <3>1. \A a \in Auctions : Settlement(a).type # "DEBIT"
      BY SettlementFacts DEF TypeInv
    <3>2. PICK job \in Commands : Allowed(job) /\ w = BatchOf(job)
      BY <2>4, <3>1 DEF Planned
    <3>3. job.kind = "DEBIT"
      BY <2>4, <3>2 DEF BatchOf, NewBatch
    <3> QED BY <3>2, <3>3, DebitsSpare
  <2>5. \A w \in Outstanding' : w.type = "DEBIT" => SparesReserve(w)'
    BY <1>1, <2>3, <2>4 DEF BatchesAccounted
  <2> QED BY <1>1, <1>2, <2>1, <2>2, <2>5
<1>4. CASE ~UNCHANGED d1Vars
  <2>1. PICK w \in Outstanding : Lands(w) /\ Write(w)
    BY <1>1, <1>4 DEF BatchesAccounted
  <2>2. \A v \in Outstanding' : v = w
    BY <1>1, <1>4, <2>1, OneOutstanding DEF BatchesAccounted
  <2>3. /\ \A a, b \in Active' : a = b
        /\ \A a \in Active' : Covered(a)'
        /\ w.type = "DEBIT" => SparesReserve(w)'
    BY <2>1, LandingCovers
  <2>4. ASSUME NEW v \in Outstanding', v.type = "DEBIT" PROVE SparesReserve(v)'
    BY <2>2, <2>3, <2>4
  <2> QED BY <1>1, <1>2, <2>3, <2>4
<1> QED BY <1>3, <1>4

\* Nothing is reserved at first.
LEMMA CoverAtFirst == ASSUME Init, TypeInv PROVE CoverInv
<1>1. Outstanding = {} /\ Active = {} /\ late = {}
  BY DEF Init, Outstanding, SentBy, Active, NoRow
<1> QED BY <1>1 DEF CoverInv

\* The leader of a running auction is in the game and can pay the bid, if no write
\* outlives the step that sent it (auctionReserve, assertReserveRespected).
THEOREM ReservesAreCovered == ASSUME ~LateWrites PROVE Spec => []ReserveCovered
<1>1. Init /\ TypeInv => CoverInv
  BY CoverAtFirst
<1>2. CoverInv /\ [Next]_vars => CoverInv'
  BY CoverStep, NothingLate DEF CoverInv
<1>3. CoverInv => ReserveCovered
  BY DEF CoverInv, Covered, ReserveCovered
<1> QED BY <1>1, <1>2, <1>3, TypeInvHolds, PTL DEF Spec

\* The same of the scene the runs check it in, where writes may outlive a step but
\* none does (ReservesHold): the reserve holds as long as none has.
THEOREM CommandsKeepReserves == SafeSpec => []ReservesHold
<1> DEFINE SceneInv == scene = "commands" => CoverInv
<1>1. [SafeNext]_<<vars, scene>> => [Next]_vars
  BY DEF SafeNext
<1>2. SafeSpec => []TypeInv
  <2>1. SafeInit => Init
    BY DEF SafeInit
  <2>2. SafeSpec => Spec
    BY <1>1, <2>1, PTL DEF SafeSpec, Spec
  <2> QED BY <2>2, TypeInvHolds, PTL
<1>3. SafeInit /\ TypeInv => SceneInv
  BY CoverAtFirst DEF SafeInit
<1>4. SceneInv /\ [SafeNext]_<<vars, scene>> => SceneInv'
  <2> SUFFICES ASSUME CoverInv, [SafeNext]_<<vars, scene>>, scene = "commands" PROVE CoverInv'
    BY DEF SafeNext
  <2>1. late' = {}
    BY DEF SafeNext, vars, CoverInv
  <2> QED BY <1>1, <2>1, CoverStep
<1>5. SceneInv => ReservesHold
  BY DEF ReservesHold, CoverInv, Covered, ReserveCovered
<1> HIDE DEF SceneInv
<1> QED BY <1>2, <1>3, <1>4, <1>5, PTL DEF SafeSpec
=============================================================================
