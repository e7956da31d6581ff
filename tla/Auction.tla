------------------------------ MODULE Auction ------------------------------
(***************************************************************************)
(* Auctions (worker/services/auction-service.ts and the settlement half of *)
(* worker/game-session.ts): a lot is opened, bid up and closed by a timer  *)
(* that lives in three places: ends_at in D1, a deadline in object storage *)
(* and the platform's alarm.  Whoever comes first after the end settles    *)
(* it: the alarm, a command or a read.  All of them run one at a time in   *)
(* the object's queue; a snapshot arms a forgotten auction outside it.     *)
(*                                                                         *)
(* The game is one in direct payment mode without a board: no payment      *)
(* request reserves money and a lot is a free text.                        *)
(***************************************************************************)
EXTENDS Integers, Sequences, FiniteSets

CONSTANTS
    Kinds,          \* what callers send: some of AllKinds
    Players,
    Auctions,       \* command identifiers of START_AUCTION; they name the auction
    Steps,          \* settings.auctionBidSteps
    MinBid,         \* settings.auctionMinBid
    Amounts,        \* what an ordinary debit may take
    StartBalance,
    Duration,       \* AUCTION_DURATION_MS
    Extension,      \* AUCTION_BID_EXTENSION_MS
    MaxTime,        \* bound on the clock; nothing is armed beyond it
    MaxCrashes,     \* bound on evictions of the object
    MaxErrors,      \* bound on failed steps
    LateWrites,     \* may a D1 write outlive the step that issued it?
    None            \* no leader, no deadline, no alarm, no write

ASSUME TimesAssumption ==
    /\ Duration \in Nat \ {0} /\ Extension \in Nat \ {0} /\ MaxTime \in Nat
    /\ MaxCrashes \in Nat /\ MaxErrors \in Nat /\ LateWrites \in BOOLEAN
AllKinds == {"START", "BID", "DEBIT", "BANKRUPT", "FINISH", "READ", "SNAPSHOT"}

ASSUME KindsAssumption == Kinds \subseteq AllKinds
ASSUME AmountsAssumption ==
    /\ Steps \subseteq Nat \ {0} /\ Amounts \subseteq Nat \ {0}
    /\ MinBid \in Nat \ {0} /\ StartBalance \in Nat

\* None is nobody, no lot, no time and no deadline.
ASSUME NoneAssumption ==
    /\ None \notin Players /\ None \notin Auctions /\ None \notin Nat
    /\ None \notin [lot : Auctions, endsAt : Nat]

VARIABLES
    \* D1
    balance, status,    \* players rows
    game,               \* games.status
    auction,            \* auctions row by identifier
    payments,           \* AUCTION_PAYMENT transactions recorded for each auction
    settled,            \* auctions whose auction-settle: ledger row is COMPLETED
    \* Durable Object storage and its alarm
    deadline, alarm,
    \* the live instance
    checked,            \* deadlineChecked
    running,            \* the task in the queue's slot, as a set of at most one
    alarmTail,          \* alarm() has settled and has yet to look at the deadline
    snapshot,           \* a snapshot being built, beside the queue
    \* sockets
    announced,          \* AUCTION_UPDATED broadcasts made by settlements
    \* D1 writes whose issuer is gone
    late,
    now, crashes, errors

d1Vars == <<balance, status, game, auction, payments>>
storageVars == <<deadline, alarm>>
bounds == <<crashes, errors>>
vars == <<d1Vars, settled, storageVars, checked, running, alarmTail, snapshot,
          announced, late, now, bounds>>

-----------------------------------------------------------------------------
(* Rows, writes and tasks *)

AuctionStates == {"ABSENT", "ACTIVE", "SOLD", "NO_SALE"}
NoRow == [state |-> "ABSENT", bid |-> 0, leader |-> None, version |-> 0,
          endsAt |-> 0]
AuctionRow == [state : AuctionStates, bid : Nat, leader : Players \cup {None},
               version : Nat, endsAt : Nat]
Payment == [player : Players, amount : Nat]

Commands ==
    [kind : {"START"}, player : Players, lot : Auctions, value : {0}]
    \cup [kind : {"BID"}, player : Players, lot : Auctions, value : Steps]
    \cup [kind : {"DEBIT"}, player : Players, lot : {None}, value : Amounts]
    \cup [kind : {"BANKRUPT"}, player : Players, lot : {None}, value : {0}]
    \cup [kind : {"FINISH"}, player : {None}, lot : {None}, value : {0}]
Trigger(kind) == [kind |-> kind, player |-> None, lot |-> None, value |-> 0]
Jobs == Commands \cup {Trigger("READ"), Trigger("ALARM")}

Batch == [type : {"START", "BID", "DEBIT", "BANKRUPT", "FINISH", "SALE",
                  "NO_SALE"},
          lot : Auctions \cup {None}, player : Players \cup {None},
          amount : Nat, version : Nat, before : Nat, at : Nat]

Stages == {"settle", "rearm", "realarm", "close", "closing", "record",
           "announce", "clear", "run", "writing", "arm", "alarm"}
Task == [job : Jobs, stage : Stages, lot : Auctions \cup {None}, ends : Nat,
         tries : Nat, batch : Batch \cup {None}]
Snapshot == [stage : {"idle", "loaded", "armed"}, lot : Auctions \cup {None},
             ends : Nat]
NoSnapshot == [stage |-> "idle", lot |-> None, ends |-> 0]

\* Columns, storage keys and fields keep their shape.
TypeOK ==
    /\ balance \in [Players -> Nat]
    /\ status \in [Players -> {"ACTIVE", "BANKRUPT"}]
    /\ game \in {"ACTIVE", "FINISHED"}
    /\ auction \in [Auctions -> AuctionRow]
    /\ payments \in [Auctions -> Seq(Payment)]
    /\ settled \subseteq Auctions
    /\ deadline \in [lot : Auctions, endsAt : Nat] \cup {None}
    /\ alarm \in Nat \cup {None}
    /\ checked \in BOOLEAN
    /\ running \subseteq Task
    /\ alarmTail \in BOOLEAN
    /\ snapshot \in Snapshot
    /\ announced \in [Auctions -> Nat]
    /\ late \subseteq Batch
    /\ now \in Nat
    /\ crashes \in Nat /\ errors \in Nat

Init ==
    /\ balance = [p \in Players |-> StartBalance]
    /\ status = [p \in Players |-> "ACTIVE"]
    /\ game = "ACTIVE"
    /\ auction = [a \in Auctions |-> NoRow]
    /\ payments = [a \in Auctions |-> <<>>]
    /\ settled = {}
    /\ deadline = None
    /\ alarm = None
    /\ checked = FALSE
    /\ running = {}
    /\ alarmTail = FALSE
    /\ snapshot = NoSnapshot
    /\ announced = [a \in Auctions |-> 0]
    /\ late = {}
    /\ now = 0
    /\ crashes = 0
    /\ errors = 0

-----------------------------------------------------------------------------
(* Rules of shared/domain/auction.ts *)

Active == {a \in Auctions : auction[a].state = "ACTIVE"}
Later(s, t) == IF s < t THEN t ELSE s

isAuctionOpen(row, at) == row.state = "ACTIVE" /\ at < row.endsAt
isAuctionDue(row, at) == row.state = "ACTIVE" /\ at >= row.endsAt

nextBid(row, step) == Later(row.bid + step, MinBid)

\* What the running auction reserves on a wallet.
auctionReserve(p) ==
    LET led == {a \in Active : auction[a].leader = p}
    IN IF led = {} THEN 0 ELSE auction[CHOOSE a \in led : TRUE].bid

\* planAuctionSettlement: a sale when the leader is still in the game and holds
\* the bid.
Saleable(row) ==
    /\ game = "ACTIVE"
    /\ row.leader # None
    /\ status[row.leader] = "ACTIVE"
    /\ row.bid > 0
    /\ balance[row.leader] >= row.bid

-----------------------------------------------------------------------------
(* D1 batches *)

NewBatch(type, a, p, amount) ==
    [type |-> type, lot |-> a, player |-> p, amount |-> amount,
     version |-> IF a = None THEN 0 ELSE auction[a].version,
     before |-> IF p = None THEN 0 ELSE balance[p],
     at |-> IF type \in {"START", "BID"} THEN now ELSE 0]

AtVersion(w) == auction[w.lot].state = "ACTIVE"
                /\ auction[w.lot].version = w.version

\* Mutated: the sale does not ask whether the auction moved on.
SaleLandsUnguarded(w) == balance[w.player] >= w.amount

\* Mutated: a sale may close any version of the auction.
SaleLandsOnAnyVersion(w) ==
    auction[w.lot].state = "ACTIVE" /\ balance[w.player] = w.before

\* auctionStatements with guardedBalanceUpdate, in one batch.
SaleLands(w) == AtVersion(w) /\ balance[w.player] = w.before

\* Mutated: an auction is closed without a sale whatever became of it.
NoSaleLandsUnguarded(w) == TRUE

NoSaleLands(w) == AtVersion(w)

\* Mutated: a bid asks only whether the auction is still open.
BidLandsOnOpenAuction(w) == isAuctionOpen(auction[w.lot], w.at)

\* placeBid: the compare-and-set and everything it checks again.
BidLands(w) ==
    /\ AtVersion(w)
    /\ isAuctionOpen(auction[w.lot], w.at)
    /\ auction[w.lot].bid < w.amount
    /\ auction[w.lot].leader # w.player
    /\ status[w.player] = "ACTIVE"
    /\ balance[w.player] >= w.amount

\* Does the batch commit, or does one of its guards roll it back?
Lands(w) ==
    \/ w.type = "START" /\ auction[w.lot].state = "ABSENT" /\ Active = {}
    \/ w.type = "BID" /\ BidLands(w)
    \/ w.type = "DEBIT" /\ balance[w.player] = w.before
    \/ w.type = "BANKRUPT" /\ (w.before # 0 => balance[w.player] = w.before)
    \/ w.type = "FINISH" /\ game = "ACTIVE"
    \/ w.type = "SALE" /\ SaleLands(w)
    \/ w.type = "NO_SALE" /\ NoSaleLands(w)

\* The auctions row after the batch.
RowAfter(w, a) ==
    LET row == auction[a]
    IN CASE w.type = "START" /\ w.lot = a ->
              [state |-> "ACTIVE", bid |-> 0, leader |-> None, version |-> 1,
               endsAt |-> w.at + Duration]
         [] w.type = "BID" /\ w.lot = a ->
              [row EXCEPT !.bid = w.amount, !.leader = w.player,
                          !.version = @ + 1,
                          !.endsAt = Later(@, w.at + Extension)]
         [] w.type = "SALE" /\ w.lot = a ->
              [row EXCEPT !.state = "SOLD", !.version = @ + 1]
         [] w.type = "NO_SALE" /\ w.lot = a ->
              [row EXCEPT !.state = "NO_SALE", !.version = @ + 1]
         [] w.type = "BANKRUPT" /\ row.state = "ACTIVE"
                                /\ row.leader = w.player ->
              [row EXCEPT !.leader = None, !.version = @ + 1]
         [] OTHER -> row

Write(w) ==
    /\ auction' = [a \in Auctions |-> RowAfter(w, a)]
    /\ balance' = CASE w.type \in {"DEBIT", "SALE"} ->
                         [balance EXCEPT ![w.player] = w.before - w.amount]
                    [] w.type = "BANKRUPT" -> [balance EXCEPT ![w.player] = 0]
                    [] OTHER -> balance
    /\ status' = IF w.type = "BANKRUPT"
                 THEN [status EXCEPT ![w.player] = "BANKRUPT"] ELSE status
    /\ game' = IF w.type = "FINISH" THEN "FINISHED" ELSE game
    /\ payments' = IF w.type = "SALE"
                   THEN [payments EXCEPT ![w.lot] =
                           Append(@, [player |-> w.player, amount |-> w.amount])]
                   ELSE payments

-----------------------------------------------------------------------------
(* The queue: one task at a time *)

\* Mutated: tasks overlap.
AlwaysFree == Cardinality(running) < 2

Free == running = {}

NewTask(job) == [job |-> job, stage |-> "settle", lot |-> None, ends |-> 0,
                 tries |-> 0, batch |-> None]

Becomes(t, u) == running' = (running \ {t}) \cup {u}
Ends(t) == running' = running \ {t}

InSettlement(t) == t.stage \notin {"run", "writing", "arm", "alarm"}

\* The settlement is over: a command goes on to its own work, a read is done,
\* the alarm still looks at the deadline.
SettlementOver(t) ==
    IF t.job \in Commands
    THEN /\ Becomes(t, [NewTask(t.job) EXCEPT !.stage = "run"])
         /\ UNCHANGED alarmTail
    ELSE /\ Ends(t)
         /\ alarmTail' = (alarmTail \/ t.job.kind = "ALARM")

\* A command, or the settlement a read, a snapshot or a command asks for first.
Submit(job) ==
    /\ Free
    /\ job.kind \in Kinds
    /\ running' = running \cup {NewTask(job)}
    /\ UNCHANGED <<d1Vars, settled, storageVars, checked, alarmTail, snapshot,
                   announced, late, now, bounds>>

\* The platform runs alarm() at the time set and forgets it.
AlarmFires ==
    /\ Free
    /\ ~alarmTail
    /\ alarm # None
    /\ now >= alarm
    /\ alarm' = None
    /\ running' = running \cup {NewTask(Trigger("ALARM"))}
    /\ UNCHANGED <<d1Vars, settled, deadline, checked, alarmTail, snapshot,
                   announced, late, now, bounds>>

\* Mutated: an alarm that settled nothing is not set again.
AlarmEndsForGood ==
    /\ alarmTail
    /\ alarmTail' = FALSE
    /\ UNCHANGED <<d1Vars, settled, storageVars, checked, running, snapshot,
                   announced, late, now, bounds>>

\* The tail of alarm(): still pending, look again shortly.
AlarmEnds ==
    /\ alarmTail
    /\ alarmTail' = FALSE
    /\ alarm' = IF deadline = None THEN alarm
                ELSE LET t == Later(deadline.endsAt, now + 1)
                     IN IF t < MaxTime THEN t ELSE MaxTime
    /\ UNCHANGED <<d1Vars, settled, deadline, checked, running, snapshot,
                   announced, late, now, bounds>>

-----------------------------------------------------------------------------
(* runSettlement *)

\* ledger.claim answers COMPLETED.
AlreadySettled(a) == a \in settled

\* The deadline is read.  Once per wake a trigger that knows the game looks in
\* D1 for a running auction nobody armed.
ReadDeadline(t) ==
    /\ t.stage = "settle"
    /\ \/ /\ deadline = None
          /\ t.job.kind # "ALARM"
          /\ ~checked
          /\ checked' = TRUE
          /\ IF Active = {}
             THEN SettlementOver(t)
             ELSE \E a \in Active :
                    /\ Becomes(t, [t EXCEPT !.stage = "rearm", !.lot = a,
                                            !.ends = auction[a].endsAt])
                    /\ UNCHANGED alarmTail
       \/ /\ deadline = None
          /\ t.job.kind = "ALARM" \/ checked
          /\ SettlementOver(t)
          /\ UNCHANGED checked
       \/ /\ deadline # None
          /\ now < deadline.endsAt
          /\ SettlementOver(t)
          /\ UNCHANGED checked
       \/ /\ deadline # None
          /\ now >= deadline.endsAt
          /\ Becomes(t, [t EXCEPT !.lot = deadline.lot, !.tries = 0,
                                  !.stage = IF AlreadySettled(deadline.lot)
                                            THEN "clear" ELSE "close"])
          /\ UNCHANGED <<checked, alarmTail>>
    /\ UNCHANGED <<d1Vars, settled, storageVars, snapshot, announced, late, now,
                   bounds>>

\* settleDue reads the auction: closed by now, not due yet, or due and to be
\* closed by the batch planAuctionSettlement asks for (three attempts).
PlanSettlement(t) ==
    /\ t.stage = "close"
    /\ LET row == auction[t.lot]
           due == isAuctionDue(row, now) /\ t.tries < 3
       IN \/ /\ due
             /\ Becomes(t, [t EXCEPT !.stage = "closing", !.tries = @ + 1,
                   !.batch = IF Saleable(row)
                             THEN NewBatch("SALE", t.lot, row.leader, row.bid)
                             ELSE NewBatch("NO_SALE", t.lot, None, 0)])
             /\ UNCHANGED alarmTail
          \/ /\ ~due
             /\ row.state = "ACTIVE"
             /\ SettlementOver(t)
          \/ /\ ~due
             /\ row.state # "ACTIVE"
             /\ Becomes(t, [t EXCEPT !.stage = "record"])
             /\ UNCHANGED alarmTail
    /\ UNCHANGED <<d1Vars, settled, storageVars, checked, snapshot, announced,
                   late, now, bounds>>

\* Errors inside a command's settlement are swallowed, a read forgets them and
\* a failing alarm is run again by the platform.
SettlementThrows(t) ==
    IF t.job.kind = "ALARM"
    THEN /\ Ends(t)
         /\ alarm' = IF alarm = None THEN now ELSE alarm
         /\ UNCHANGED alarmTail
    ELSE /\ SettlementOver(t)
         /\ UNCHANGED alarm

\* settleOnce writes.  Rolled back, it reads the auction again if that moved
\* on; anything else is an error.
Settle(t) ==
    /\ t.stage = "closing"
    /\ LET w == t.batch
           again == Becomes(t, [t EXCEPT !.stage = "close", !.batch = None])
       IN \/ /\ Lands(w)
             /\ Write(w)
             /\ again
             /\ UNCHANGED <<alarm, alarmTail>>
          \/ /\ ~Lands(w)
             /\ w.type = "NO_SALE" \/ ~AtVersion(w)
             /\ again
             /\ UNCHANGED <<d1Vars, alarm, alarmTail>>
          \/ /\ ~Lands(w)
             /\ w.type = "SALE" /\ AtVersion(w)
             /\ SettlementThrows(t)
             /\ UNCHANGED d1Vars
    /\ UNCHANGED <<settled, deadline, checked, snapshot, announced, late, now,
                   bounds>>

\* incrementStateVersion and ledger.complete.
RecordSettlement(t) ==
    /\ t.stage = "record"
    /\ settled' = settled \cup {t.lot}
    /\ Becomes(t, [t EXCEPT !.stage = "announce"])
    /\ UNCHANGED <<d1Vars, storageVars, checked, alarmTail, snapshot, announced,
                   late, now, bounds>>

AnnounceSettlement(t) ==
    /\ t.stage = "announce"
    /\ announced' = [announced EXCEPT ![t.lot] = @ + 1]
    /\ Becomes(t, [t EXCEPT !.stage = "clear"])
    /\ UNCHANGED <<d1Vars, settled, storageVars, checked, alarmTail, snapshot,
                   late, now, bounds>>

\* clearAuctionDeadline: only if it still belongs to this auction.
ClearDeadline(t) ==
    /\ t.stage = "clear"
    /\ IF deadline # None /\ deadline.lot # t.lot
       THEN UNCHANGED storageVars
       ELSE deadline' = None /\ alarm' = None
    /\ SettlementOver(t)
    /\ UNCHANGED <<d1Vars, settled, checked, snapshot, announced, late, now,
                   bounds>>

-----------------------------------------------------------------------------
(* Commands *)

\* Mutated: a debit looks at no balance at all.
MayDebitAnyway(p, amount) == TRUE

\* Mutated: a debit looks at the whole balance.
MayDebitAll(p, amount) == balance[p] >= amount

\* The wallet covers the debit and keeps the reserve (assertReserveRespected).
MayDebit(p, amount) ==
    /\ balance[p] >= amount
    /\ auctionReserve(p) > 0 => balance[p] - amount >= auctionReserve(p)

\* Bound of the model: no auction ends after MaxTime.
EndsInTime(kind) ==
    /\ kind = "START" => now + Duration <= MaxTime
    /\ kind = "BID" => now + Extension <= MaxTime

\* The rules each executor checks on what it read.
Allowed(job) ==
    /\ EndsInTime(job.kind)
    /\ game = "ACTIVE"
    /\ job.player # None => status[job.player] = "ACTIVE"
    /\ \/ job.kind = "START" /\ Active = {}
       \/ /\ job.kind = "BID"
          /\ LET row == auction[job.lot]
             IN /\ isAuctionOpen(row, now)
                /\ row.leader # job.player
                /\ balance[job.player] >= nextBid(row, job.value)
       \/ job.kind = "DEBIT" /\ MayDebit(job.player, job.value)
       \/ job.kind \in {"BANKRUPT", "FINISH"}

BatchOf(job) ==
    NewBatch(job.kind, job.lot, job.player,
             IF job.kind = "BID" THEN nextBid(auction[job.lot], job.value)
             ELSE job.value)

\* The executor reads D1.  START_AUCTION finds its own auction again on a
\* retry and only arms it.
Execute(t) ==
    /\ t.stage = "run"
    /\ LET known == t.job.kind = "START" /\ game = "ACTIVE"
                    /\ auction[t.job.lot].state # "ABSENT"
       IN \/ /\ known
             /\ IF auction[t.job.lot].state = "ACTIVE"
                THEN Becomes(t, [t EXCEPT !.stage = "arm", !.lot = t.job.lot,
                                          !.ends = auction[t.job.lot].endsAt])
                ELSE Ends(t)
          \/ /\ ~known
             /\ Allowed(t.job)
             /\ Becomes(t, [t EXCEPT !.stage = "writing",
                                     !.batch = BatchOf(t.job)])
          \/ /\ ~known
             /\ ~Allowed(t.job)
             /\ Ends(t)
    /\ UNCHANGED <<d1Vars, settled, storageVars, checked, alarmTail, snapshot,
                   announced, late, now, bounds>>

\* The batch commits or rolls back; after a start or a bid the auction is read
\* back to be armed.
Commit(t) ==
    /\ t.stage = "writing"
    /\ LET w == t.batch
       IN \/ /\ Lands(w)
             /\ Write(w)
             /\ IF w.type \in {"START", "BID"}
                THEN Becomes(t, [t EXCEPT !.stage = "arm", !.batch = None,
                                   !.lot = w.lot,
                                   !.ends = RowAfter(w, w.lot).endsAt])
                ELSE Ends(t)
          \/ /\ ~Lands(w)
             /\ Ends(t)
             /\ UNCHANGED d1Vars
    /\ UNCHANGED <<settled, storageVars, checked, alarmTail, snapshot,
                   announced, late, now, bounds>>

\* Mutated: the deadline counts from the moment of arming.
ArmFromNow(a, ends) ==
    /\ checked' = TRUE
    /\ deadline' = [lot |-> a, endsAt |-> Later(ends, now + Extension)]

\* armAuction, first half: the deadline is stored.
Arm(a, ends) ==
    /\ checked' = TRUE
    /\ deadline' = [lot |-> a, endsAt |-> ends]

StoreDeadline(t) ==
    /\ t.stage \in {"rearm", "arm"}
    /\ Arm(t.lot, t.ends)
    /\ Becomes(t, [t EXCEPT !.stage = IF t.stage = "rearm" THEN "realarm"
                                      ELSE "alarm"])
    /\ UNCHANGED <<d1Vars, settled, alarm, alarmTail, snapshot, announced, late,
                   now, bounds>>

\* Second half: the alarm.  A settlement that armed reads the deadline again.
SetAlarm(t) ==
    /\ t.stage \in {"realarm", "alarm"}
    /\ alarm' = t.ends
    /\ IF t.stage = "realarm" THEN Becomes(t, NewTask(t.job)) ELSE Ends(t)
    /\ UNCHANGED <<d1Vars, settled, deadline, checked, alarmTail, snapshot,
                   announced, late, now, bounds>>

-----------------------------------------------------------------------------
(* Snapshots: beside the queue *)

\* readGameShared finds an auction running.
SnapshotReads ==
    /\ "SNAPSHOT" \in Kinds
    /\ snapshot = NoSnapshot
    /\ \E a \in Active :
          snapshot' = [stage |-> "loaded", lot |-> a, ends |-> auction[a].endsAt]
    /\ UNCHANGED <<d1Vars, settled, storageVars, checked, running, alarmTail,
                   announced, late, now, bounds>>

\* Mutated: a snapshot only looks.
SnapshotOnlyLooks ==
    /\ snapshot.stage = "loaded"
    /\ snapshot' = NoSnapshot
    /\ UNCHANGED <<d1Vars, settled, storageVars, checked, running, alarmTail,
                   announced, late, now, bounds>>

\* Later it looks at the storage, and arms what it read if nothing is armed.
SnapshotArms ==
    /\ snapshot.stage = "loaded"
    /\ IF deadline = None
       THEN /\ Arm(snapshot.lot, snapshot.ends)
            /\ snapshot' = [snapshot EXCEPT !.stage = "armed"]
       ELSE /\ snapshot' = NoSnapshot
            /\ UNCHANGED <<checked, deadline>>
    /\ UNCHANGED <<d1Vars, settled, alarm, running, alarmTail, announced, late,
                   now, bounds>>

SnapshotSetsAlarm ==
    /\ snapshot.stage = "armed"
    /\ alarm' = snapshot.ends
    /\ snapshot' = NoSnapshot
    /\ UNCHANGED <<d1Vars, settled, deadline, checked, running, alarmTail,
                   announced, late, now, bounds>>

-----------------------------------------------------------------------------
(* Time and failures *)

Tick ==
    /\ now < MaxTime
    /\ now' = now + 1
    /\ UNCHANGED <<d1Vars, settled, storageVars, checked, running, alarmTail,
                   snapshot, announced, late, bounds>>

\* A write already sent to D1 is not recalled when its issuer goes away.
Abandon(tasks) ==
    LET sent == {t.batch : t \in {u \in tasks :
                                    u.stage \in {"closing", "writing"}}}
    IN \/ late' = late
       \/ LateWrites /\ late' = late \cup sent

\* One awaited call of a task throws.
StepFails(t) ==
    /\ errors < MaxErrors
    /\ errors' = errors + 1
    /\ Abandon({t})
    /\ IF InSettlement(t)
       THEN SettlementThrows(t)
       ELSE Ends(t) /\ UNCHANGED <<alarm, alarmTail>>
    /\ UNCHANGED <<d1Vars, settled, deadline, checked, snapshot, announced, now,
                   crashes>>

\* The object is evicted: only D1, the storage and the alarm survive, and an
\* alarm that was being handled comes back.
Crash ==
    /\ crashes < MaxCrashes
    /\ crashes' = crashes + 1
    /\ Abandon(running)
    /\ running' = {}
    /\ snapshot' = NoSnapshot
    /\ checked' = FALSE
    /\ alarmTail' = FALSE
    /\ alarm' = IF /\ alarm = None
                   /\ alarmTail \/ \E t \in running : t.job.kind = "ALARM"
                THEN now ELSE alarm
    /\ UNCHANGED <<d1Vars, settled, deadline, announced, now, errors>>

LateWriteArrives(w) ==
    /\ w \in late
    /\ late' = late \ {w}
    /\ IF Lands(w) THEN Write(w) ELSE UNCHANGED d1Vars
    /\ UNCHANGED <<settled, storageVars, checked, running, alarmTail, snapshot,
                   announced, now, bounds>>

-----------------------------------------------------------------------------

TaskStep ==
    \E t \in running :
        \/ ReadDeadline(t)
        \/ PlanSettlement(t)
        \/ Settle(t)
        \/ RecordSettlement(t)
        \/ AnnounceSettlement(t)
        \/ ClearDeadline(t)
        \/ Execute(t)
        \/ Commit(t)
        \/ StoreDeadline(t)
        \/ SetAlarm(t)

Next ==
    \/ \E job \in Jobs : Submit(job)
    \/ AlarmFires
    \/ AlarmEnds
    \/ TaskStep
    \/ SnapshotReads
    \/ SnapshotArms
    \/ SnapshotSetsAlarm
    \/ Tick
    \/ \E t \in running : StepFails(t)
    \/ Crash
    \/ \E w \in late : LateWriteArrives(w)

Spec == Init /\ [][Next]_vars

\* The object's promises keep resolving, the platform fires the alarm at its
\* time (and again after an error) and time passes.  Nobody need send anything.
Fairness ==
    /\ WF_vars(TaskStep)
    /\ WF_vars(AlarmEnds)
    /\ SF_vars(AlarmFires)
    /\ WF_vars(Tick)

FairSpec == Spec /\ Fairness

-----------------------------------------------------------------------------
(* Properties *)

\* The leader of a running auction is in the game and can pay the bid: what is
\* reserved is spent on nothing else, however debits, bids and bankruptcies
\* follow each other (auctionReserve, assertReserveRespected, serialize).
ReserveCovered ==
    \A a \in Active : auction[a].leader # None =>
        /\ status[auction[a].leader] = "ACTIVE"
        /\ balance[auction[a].leader] >= auction[a].bid

\* An auction is paid for exactly once and exactly when it is SOLD, by its last
\* leader and with the last bid, whichever of the alarm, the reads, the
\* commands and the writes that outlived a crash got there first
\* (auctionStatements); and its closing is broadcast at most once, when it is
\* closed and recorded (the auction-settle: ledger entry).
PaidAndToldOnce ==
    \A a \in Auctions :
        /\ payments[a] = IF auction[a].state = "SOLD"
                         THEN << [player |-> auction[a].leader,
                                  amount |-> auction[a].bid] >>
                         ELSE <<>>
        /\ announced[a] > 0 =>
              announced[a] = 1 /\ a \in settled /\ auction[a].state \in {"SOLD", "NO_SALE"}

\* A closed auction stays as it was closed.
\* A running one never moves its end forward, lowers its bid or changes hands
\* for less (placeBid's compare-and-set, closeWithoutSale's version guard).
BidsOnlyRise ==
    [][ \A a \in Auctions :
          LET row == auction[a]
          IN /\ row.state \in {"SOLD", "NO_SALE"} => auction'[a] = row
             /\ row.state = "ACTIVE" =>
                   /\ auction'[a].bid >= row.bid
                   /\ auction'[a].endsAt >= row.endsAt
                   /\ auction'[a].leader \notin {None, row.leader}
                         => auction'[a].bid > row.bid ]_vars

\* No auction is closed before its end, even if a bid moved the end after the
\* settlement had found it due.
NoEarlyClose ==
    [][ \A a \in Active :
          auction'[a].state # "ACTIVE" => now >= auction[a].endsAt ]_vars

\* The stored deadline of a running auction is never after its end: a bid may
\* move the end before it moves the deadline, and a forgotten auction may be
\* armed from an old reading, but neither makes the settlement late
\* (armAuction, runSettlement, state).
DeadlineNotAfterEnd ==
    deadline # None /\ auction[deadline.lot].state = "ACTIVE"
        => deadline.endsAt <= auction[deadline.lot].endsAt

Armed(a) == alarm # None /\ deadline # None /\ deadline.lot = a

\* A running auction whose deadline and alarm are set is closed without anybody
\* looking, whatever bids, evictions and failing alarms come between.
ArmedAuctionsClose ==
    \A a \in Auctions : a \in Active /\ Armed(a) ~> a \notin Active

EveryAuctionCloses == \A a \in Auctions : a \in Active ~> a \notin Active

Reads == Submit(Trigger("READ"))

\* As long as somebody takes snapshots and reads, every auction closes, even if
\* the step that should have armed it failed or died
\* (worker/game-session.ts:742: "so it can never be stuck").
WatchedAuctionsClose ==
    /\ SF_vars(Reads)
    /\ SF_vars(SnapshotReads)
    /\ WF_vars(SnapshotArms)
    /\ WF_vars(SnapshotSetsAlarm)
    => EveryAuctionCloses

\* As long as somebody polls, every auction closes
\* (worker/game-session.ts:176: "A due auction is settled first, so a missed
\* alarm cannot leave it stuck").
PolledAuctionsClose == SF_vars(Reads) => EveryAuctionCloses
=============================================================================
