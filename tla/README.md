# Verification of the game coordinator

TLA+ modules, TLC configurations and TLAPS proofs for the core of Monopoly Bank:
the per-game Durable Object that turns concurrent requests of several phones into
one sequence of bank operations, the bank those operations keep (wallets, tiles,
mortgages, trades, loans), the table from its lobby to its purge, the accounts at
it, and the way a phone keeps its view of the game up to date. Paths are those of
the repository.

## The system

| Component | State it keeps | Operations | Correct when |
|---|---|---|---|
| Command pipeline (`worker/game-session.ts`, `command-ledger-repository.ts`) | promise-chain queue, in-flight map (memory); `stateVersion` (object storage); `command_ledger` (D1) | `mutate`, `startCommand`, `publish` | a command takes effect once, its copies and retries hear the same outcome, an answer is never ahead of what is stored, versions are never reused |
| Auctions (`auction-service.ts`, `auction-rules.ts`, `auction.ts`, `auction-repository.ts`) | `auctions` row (D1), deadline and alarm (object storage), `deadlineChecked`, `settling` (memory) | start, bid, `runSettlement`, `armAuction`, `alarm`, re-arming by reads and snapshots | the lot is paid for once by its last leader, the leading bid stays covered, every auction closes, not before its end |
| Banking and wallets (`banking-service.ts`, `shared/domain/banking.ts`, `operation-statements/*`) | `players`, `transactions`, `transaction_participants` (D1) | payments, salary, collective operations, bankruptcy, reversals | a wallet is its opening balance plus its recorded deltas; nobody goes below zero |
| Payment requests (`payment-request-repository.ts`) | `payment_requests` (D1) | create, accept, decline, cancel, expire | a request moves money at most once; if it is ACCEPTED it has, and if it was declined or cancelled it has not |
| Live synchronisation (`src/hooks/useGameSync.ts`) | last applied version, resync loop (browser) | snapshot, event, heartbeat, resync, poll | a client that is idle and connected shows the state of the version it believes in |
| Property registry, mortgages, trades (`shared/domain/property.ts`, `mortgage.ts`, `trade-*`) | `game_properties`, `mortgages`, `trade_requests` (D1) | buy, build, sell, mortgage, redeem, trade | one owner per tile, no building on a mortgaged group, trades all or nothing |
| Loans, bank loan rounds, jackpot (`round-tracking.ts`, `bank-loan.ts`) | `loans`, pot, round marks (D1) | issue, repay, tick rounds, collect | one active bank loan per player, the pot is paid out once |
| Game lifecycle (`game-service.ts`, `game-statistics-repository.ts`) | `games.status`, final snapshot, completions (D1) | start, finish | a finished game has its snapshot and its completion record |
| Lobby and access (`game-access-*.ts`) | members, controllers, invitations (D1) | join, remove, invite | at most six players, nobody joins a started game |
| Accounts (`auth-service.ts`, `session-*`, `auth-token-*`, rate limits) | sessions, tokens, counters (D1) | sign in, confirm, reset | a token works once |
| Dice rolls (`durable-dice-roll-repository.ts`) | last rolls per player (object storage) | record, list, clear | a repeated identifier is one roll |
| Gateway, validation, privacy cron, pure summaries, browser UI | none of their own, or tables they only read or purge | - | - |

How they interact: the Worker authenticates a request and calls the game's
`GameSession` object. `mutate` first settles a due auction, then puts the command
into the object's queue; inside its slot the command settles again, looks in the
ledger, runs an executor (the services above, which read D1, apply the rules of
`shared/domain` and write one guarded batch), counts the version, completes the
ledger row and broadcasts. Reads, snapshots and the alarm share the queue through
`settleDueAuction`; building a snapshot does not. Browsers apply broadcasts by
version and fall back to polling.

What is hard: every durable write is an `await` of its own, in three stores (D1,
object storage, memory) that no transaction spans. The object can be evicted, or
one call can throw, between any two of them; a D1 statement already sent is not
taken back when its issuer dies; clients retry and copy commands; the end of an
auction races bids, bankruptcies and several triggers. `PROJECT.json` lists these
hazards at their lines.

## Modules

| Module | Models |
|---|---|
| `CommandPromise` | what the coordinator promises: effects at most once, truthful and equal answers, an identifier good for one command, refusals only without effect or after one that cannot be recognised (`forgotten`) (no queue, no ledger, no crash) |
| `GameSession` | the pipeline, one action per await of `startCommand`, with five executors on one wallet and one payment request; refines `CommandPromise` |
| `GameSessionProofs` | theorems about `GameSession`: answers, the request, versions, money and the refinement of `CommandPromise` |
| `MCGameSession` | its instances |
| `Auction` | start, bid, settlement, deadline, alarm, snapshot re-arming, with debits, bankruptcy and game finish around them |
| `MCAuction`, `MCAuctionSafe` | its instances; the second checks two scenes of it side by side |
| `LiveSync` | versions, broadcasts, the connection handshake with its shared read, the client's events, answers and resync loop |
| `MCLiveSync` | its instances |
| `MCLive` | `MCAuction` and `GameSession` side by side, for what must happen in the end |
| `Property` | the rules of the board: groups, buildings, mortgages, rent, the changes kept beside a transaction |
| `Ledger` | the state of the bank (wallets, transactions, registry, mortgages, loans, requests, trades, clock) and what every operation shares |
| `Money`, `Credit`, `Estate` | payments, pot and payment requests; loans and rounds; tiles, buildings, mortgages and trades |
| `Bank` | reversal and bankruptcy, which cut across all of these; the next-state relation and the properties |
| `Dialog` | what the client shows before the server decides: the actions of a tile, forms and their validity, trades, previewed balances, the check of funds |
| `Statistics` | what a game's summary makes of its log: totals per player and the balance chart |
| `MCBank` | instances of `Bank`, `Dialog` and `Statistics`, with a menu of commands per game |
| `Lobby` | a game's life: join, remove, start, finish write by write, dice, deletion, restoration, purge |
| `Accounts` | an account, its sessions and its mailed links |
| `MCLobby`, `MCPeople` | instances of `Lobby`, and of `Lobby` and `Accounts` side by side |
| `AuctionProofs`, `BankProofs`, `LobbyProofs`, `AccountsProofs`, `LiveSyncProofs` | theorems about these modules (`AuctionProofs` extends `MCAuctionSafe` and `LobbyProofs` extends `MCPeople`, to reach the specifications those runs check) |
| `PlayProofs` | more theorems, on top of `BankProofs`: about the buildings and the turns of `Bank`, and about `Statistics` and `Dialog` |
| `SumFacts` | lemmas about the sums of the models, for any finite set |

### GameSession and the code

`call` is an HTTP mutation as its sender sees it; `queue` and `inFlight` are the
promise chain and `inFlightCommands`; `work` is the local state of the async
function that holds the slot (stage, the batch it planned on what it read, its
reply, its version). `wallet`, `status`, `request`, `transactions` and `ledger`
are rows of D1, `overdue` whether the request's `expires_at` has passed on D1's clock, `stateVersion` the key in object storage, `announced` the last
version on the sockets. `commitVersion` is a history variable: the version under
which a transaction was written.

`Deliver` is `mutate` after its `await`s (new slot, shared promise, or
`COMMAND_ID_REUSED`). `Claim`, `Execute`, `Commit`, `IncrementStateVersion`,
`CompleteLedger`, `Publish` and `Return` are the segments of `startCommand`
between awaits; `EndTask` is what settling the promise does (every attached call
hears the outcome, the map entry goes, the next task starts). `StepFails` is any
of those awaits throwing, `Crash` the loss of the instance.

The executors are chosen for how they find a repeated command: by the transaction
whose primary key is the command identifier (`createTransaction`), by the state of
the request (`accept`, `decline`), and, for bankruptcy, after the domain rules.
`Lands` is the conjunction of the guards inside the batch, `Write` its effect. The
request may fall due at any time (`RequestFallsDue`), also between the statements of
`settle`, each of which reads the clock: then the money has moved and the row stays
PENDING, until `ExpirePending` (run by the executors of the request and by whoever
lists it, `RequestExpires`) closes it. Only `settle` of a loan checks the row again
at the end of the batch; the payment modelled here has no such check. Amounts are 1: the
properties tell apart whether money moved, not how much. The payload hash is the
pair of actor and kind.

`LateWrites` says whether a statement already sent to D1 may still be applied
after the object that issued it is gone (`Abandon`, `LateBatchArrives`,
`LateCompletionArrives`). The platform does not exclude it, and the guards in the
batches exist for it, so the guards are checked with it. D1 itself applies a batch
as one transaction.

### Auction and the code

The queue holds at most one task (`running`); its stages are the awaits of
`runSettlement`, of the executors and of `armAuction`. `deadline` and `alarm` are
object storage and the platform's alarm, `checked` is `deadlineChecked`,
`settled` the `auction-settle:` rows of the ledger. `alarmTail` is the part of
`alarm()` after the queue let it go, and `snapshot` the part of `state()` that
runs beside the queue. `NewBatch` remembers what a batch was planned on; `Lands`
repeats the guards of its SQL. The pipeline stages of `GameSession` around a
command are left out: nothing in them touches an auction. The game is in direct
payment mode and has no board, so no payment request reserves money and a lot is
a text.

### LiveSync and the code

A view has two slices because events do: `GAME_COMMITTED` replaces the ledger
slice, `AUCTION_UPDATED` the auction. The value of a slice is the number of
changes D1 holds for it, so "at least as new" is `>=`. A kind of command stands
for the slices it writes and the events it sends: `PAY` (one wallet operation),
`AUCTION` (start or bid), `SETTLE` (a sale: two events with one version).
`Covered(v)`, from the history variable `history`, is what the commands counted
up to version v have changed.

Server: `task` is the command in the slot with the stages at which its effect can
be seen. `Commit` (batch written), `CountVersion` (the version is stored) and
`Publish` are separated by awaits; the completion of the ledger row needs no
stage, since the first broadcast follows it without an await, and the answer
follows the last one. `StepFails` and `Crash` leave the kind in `interrupted`
until a retry (`Recover`), unless the ledger row was complete, when a retry is
answered from it and tells no socket. `conn` walks through `acceptConnection`:
`settleQuietly` (`waits`: it returns after the task that holds the slot),
`readGameShared` (version, then game, joined to a read of the same version),
`acceptWebSocket`, `settleQuietly` again inside `state()`, snapshot, presence.
Between `Accept` and `Greet` broadcasts already reach the socket.

Client: `Deliver` is `handleEvent`, `HearAnswer` the completion handlers that
write an HTTP answer to the screen, and `Requested`, `TellVersion`,
`HearVersion`, `ReadGame`, `ApplyGame`, `RoundOver` are the loop of `resync` cut
at its awaits. `Trigger` merges visibility, `online`, `pageshow`, the manual
refresh and the poll, which all call `resync` and differ only in when. A
settlement inside a command's own slot is a task of its own, which only adds
interleavings.

### The bank and the code

`Property`, `Ledger`, `Money`, `Credit`, `Estate` and `Bank` are one specification
in the layers of `shared/domain` and `operation-statements`: a function of
`banking.ts` and the statements of its batch are one action. That is what the
object's queue and D1's batches provide; their interleavings are the subject of
`GameSession` and `Auction`. What a layer adds is guards that look at other tables
(a reversal at the log, a bankruptcy at everything), and properties that relate
tables written by different statements.

`log` is `transactions` with its participants; a row's position is its identifier,
and `mortgages` and `loans` are keyed by it as the tables refer to it.
`registry = <<>>` is a game without a board (free-text mortgages, no tiles). `via`
in a transaction is history: the payment request it settled. `requests` and
`trades` share the clock and the expiry of both tables. In `settle` the clock may
move between the statements of one batch, since each evaluates it: a payment may
move money while its request ends as EXPIRED (a loan may not), and
`RequestsSettleOnce` allows it. `createConfirmationRequests` inserts its rows with
concurrent calls, so any non-empty subset in any order may be what was written.

Left out here: the house rules that enable an operation, the auction reserve, who
may reverse and for how long, and a finished game.

`Dialog` and `Statistics` add no state and no step: they compute from the bank's
books what the code computes from them elsewhere, and their properties compare the
two. A form of `Dialog` is what `deriveBanking` makes of the fields for the wallet
of a player still in the game; `Submit` is the operation its request leads to, so
that `FormsShowTheTruth` asks, for each recorded transaction, what every form that
can have led to it had shown. The client's books are taken as they are, since how
old they may be is the subject of `LiveSync`. Purchases, rent, building and
redemption in board games have the tile's amount on the form, which `OfferedIsAccepted`
compares where the client computes it: the rent, the groups the building form lists,
and the trade dialog, whose reckoning of fees and balances must let through exactly
the proposals the server takes. A trade form is compared as just filled in; one left
open while its tiles change hands is refused by the server, not by the dialog.
`SeriesPoints` is the code's 61, at 3 in the runs so that the chart is thinned.

### Lobby and the code

`call` is a request from the route on, with the checks the route makes of itself
(`RouteAccepts`); `work` is the local state of the executor that holds the queue's
slot and `work.write` the D1 write it is about to send. `Take` merges the reads of
authoriser and executor, which nothing separates but reads. `Lands` is the guard
inside each write, `Apply` its effect. `DeleteGame`, `RestoreGame` and `Purge` run
in the Worker beside the queue. The queue serves any waiting call, not the oldest:
more orders than the code has. The command ledger is left out because the browser
gives each of these commands a fresh identifier (`monopoly-bank-api.ts`,
`commandInit`), so that a retry is a new command. Slots for calls are reused; a
JOIN's player id is its call, since the route draws a fresh one. `dice` is the set
of `dice:` keys.

### Accounts and the code

`req` is what is under way of each request; every statement or batch is an action
and `GiveUp` may end a request between any two. `Login` needs an account whose
password somebody can still know. Whether the account has a seat
(`hasActiveMembership`) is left open. `used` counts how often a link changed the
account, `drawn` the session tokens ever handed out; both are history.

## Runs

| Run | Question | Bounds |
|---|---|---|
| `session_retry` | exactly-once and truthful answers, refinement of `CommandPromise` | 3 calls (a command, its copy or retry, a competitor), 2 identifiers, one of them used by two actors, a request that may fall due, 2 failures |
| `session_late` | money and request under racing commands and late writes; the inductive invariant | 3 calls, 4 commands on one wallet and one request that may fall due, 2 failures (so that one late write can meet another) |
| `live` | does every call end, a bankruptcy included, and every auction close, late writes included? | 2 calls, 4 commands, 2 failures; 1 auction, a bidder who can bid once, clock 0..3, 1 eviction and 1 failed step |
| `auction` | reserve and deadline with 2 auctions and everything around them; exactly one payment and one announcement, monotone bids and no early close with late writes | 2 players, 1 eviction; debits, bankruptcy and finish before the eviction and the second auction; late writes only in the scene of one auction |
| `sync` | does a client ever show less than its version says, or stay behind? | 1 followed client, 2 commands (an auction command of its own, a payment of another phone), 1 failure of any kind |
| `sync_answer` (violated) | can an answer overwrite newer events? | 1 client, its payment and another's, no failure |
| `bank_money` | do wallets, pot, requests, loans, rounds and statistics agree with the log, and previews with what happens? | 3 players, no board, logs of 3 to 5 transactions by menu, of which the last 3 are read for a cooldown, 2 requests, clock 0..1 |
| `bank_board` | do registry, mortgages, trades and bankrupts agree, are buildings legal, and is what the client offers on tiles, groups and trades accepted? | 2 players, a street group of 2, a railway and a utility, logs of 5 (tiles) and 3 (trades) |
| `bank_reversal` (violated) | does a built group always have one owner? | the trades of `bank_board` |
| `people` | table and results under races, failures and late writes; sessions and links | owner, 2 users, 2 calls, 2 places, 1 failure; 2 requests, 2 session tokens, 2 links, clock 0..2 |
| `bank_dialog` (violated) | are payments to and from everybody previewed rightly? | 3 players, the menu with such payments and a bankruptcy |
| `lobby_retry` (violated) | can a finish be retried safely? | the table of `people` |

Why these bounds are enough for the cases that matter: a wallet of 1 (or 2, in
`Auction`) makes two commands compete for it; three calls give one command a copy
beside a competitor; the clock of `Auction` (duration 2, extension 2, horizon 4,
3 where closing is checked) lets a bid move the end, the old deadline pass before the new end, and a
settlement come late; a bid step of 1 from a minimum of 1 lets each player lead
once. `EndsInTime` is the clock's bound: nothing is started that would end after
the horizon. Two commands give `LiveSync` a version gap, a snapshot older than an
event and a round that reads past the version it was told; one failure is a lost
object, a failed step, a dropped socket or a failed request. One followed client
suffices because clients meet only in the shared read, and other phones are
commands without a followed sender.

`MCBank` gives each game one menu of commands, with a reversal and a bankruptcy in
every one: a bank loan, its repayment, another player's turn and a bankruptcy
(`bankloans`, 5 transactions, of which a cooldown reads the last 3, so that a
repayment falls out of them) show the rounds; a sale of buildings, a trade, and
either of the two that undo (`trades`, on a board that starts with a house) show
the groups. `Amounts` (300 and 600 of an opening 1000) make a payment possible
once, a loan repayable in two parts, and a wallet too short for its debts.
Free-text mortgages are in the menu `cash`, rents of stations in `estate`.
`Simple` fixes who proposes a trade and for what; it is part of the instance, not
of `Bank`. Two places in `people` make the second one contested by two joins;
`LateWrites` lets a write of the failed command meet its retry. The clock of
`Accounts` lets a lease be renewed, a link's cooldown end before the link does,
and both expire.

`people`, `auction` and `live` check two scenes in one run: the scene is chosen at the
start and each keeps the other's variables still, so the states add up. Symmetry
is used on calls, players, users, tokens and auctions in runs without liveness,
whose formulas name none of them. `GameSession` may stop (all calls answered,
nobody obliged to send more), so may a bank whose log is full and a game that is
purged, hence `CHECK_DEADLOCK FALSE` there; `Auction` never deadlocks and is
checked for it.

What the passing runs of the bank leave to the reader: `BuildingsAreSound` excludes
the groups that `bank_reversal` breaks (`SaleReversedAfterTrade`) and nothing else, and
those only from being whole, not from being even;
`BankruptHoldNothing` speaks of trades and not of payment requests, which the code
leaves pending on a bankrupt and refuses on acceptance.

### The violated runs

1. `sync_answer`: the answer to a client's own payment travels by another
   connection than the events. Another phone's later payment is shown first, then
   the answer puts the older balances back; `lastVersion` has moved on, so no
   later check notices.
2. `bank_reversal`: p1 holds a whole group with one house, sells the house, trades
   the other street away, and the sale is reversed. `groupBlockers` has no
   PROPERTY_TRANSFER for a sale of buildings, and the transfer concerns another
   tile, so the house returns to a group of two owners.
3. `bank_dialog`: after a bankruptcy the dialog still counts the bankrupt among
   the others (`previewDeltas`, `preflightFundsError`). Their empty wallet makes a
   collection from everybody look unaffordable, which the dialog then does not
   confirm; a payment to everybody is previewed with one share too many.
   `FormsShowTheTruth` is the same property without this case, and passes.
4. `lobby_retry`: FINISH_GAME closes the game and then fails before all
   completions are recorded. The retry is refused because the game is finished.
   `FinishIsRecorded` asks for less: of a FINISH_GAME that succeeded, its completions
   and that a final snapshot exists. It may be an earlier attempt's, since the first
   one stored stays (`game-statistics-repository.ts:240`).

### Further counterexamples

Seven more configurations are kept in this directory for the reader to replay
(`tlc -config X.cfg M`); each violates the property it names, and the runs above
hold what is true without the case.

1. `MCGameSession_bankrupt_retry.cfg` (`RefusalMeansNoEffect`): the object dies, or
   the version counter throws, after a bankruptcy's batch. The retry with the same
   identifier meets `declareBankruptcy`'s rules (`banking-service.ts:1104`) before
   the stored transaction is looked up and is refused: the caller is told no, the
   effect stands and no version covers it.
2. `MCGameSession_bankrupt_late.cfg` (`WalletMatchesLedger`): a bankruptcy planned
   on an empty wallet has no balance change and therefore no guard
   (`balance-statements.ts:14`); applied late, it wipes what was paid in meanwhile,
   with no ledger entry. It takes a D1 write that outlives its object.
3. `MCGameSession_expired_retry.cfg` (`RefusalMeansNoEffect`): a request falls due
   between the balance update and the update of its own row
   (`payment-request-repository.ts:142-175`), and the object dies before the ledger
   row. The request expires, and the retry of the accept is refused
   (`banking-service.ts:814`) although the money has moved.
4. `MCAuction_stuck.cfg` (`PolledAuctionsClose`): `START_AUCTION` inserts its row,
   then reading it back or storing the deadline throws. `deadlineChecked` is
   already set by the command's own settlement, so reads of `/auction` find no
   deadline and do not search D1. A snapshot (a reconnect) or an eviction repairs
   it: `live` shows that.
5. `MCLiveSync_split.cfg` (`ConnectedViewsCover`): a sale is announced by two
   events of one version, with a read of D1 between them. A client that is
   connecting gets the first event, then its snapshot, which was read before the
   sale and takes the event back, then the second event, which is contiguous and
   moves it to the new version: the auction on its screen is still running, and a
   resync finds the versions equal.
6. `MCBank_chart.cfg` (`LinesEndAtBankruptcy`): a line of the chart ends at the
   first BANKRUPTCY_TRANSFER that took money from its player
   (`game-awards.ts:122`). A player who goes bankrupt with an empty wallet has no
   such row, so the line runs on at zero to the end of the game.
7. `MCBank_creditor.cfg` (`OtherLinesRunOn`): the other direction of "absent for
   everyone else" (`contracts/api.ts:628`). A solvent creditor who inherits
   mortgaged tiles and less cash than the 10 % fee on them has a negative delta in
   the BANKRUPTCY_TRANSFER row (`banking.ts:1153`), which is read as a bankruptcy
   of their own: the chart ends the line of somebody who plays on
   (`BalanceChart.tsx:48`). `StatisticsAddUp` excepts who took over such tiles
   (`TookOver`) and holds for all others.

### Fairness

`live` assumes, in its scene of calls, weak fairness of delivery and of the running command: the
runtime delivers a request to the object and resolves pending promises. Failures
are never obliged, retries neither. In its scene of an auction it assumes weak fairness of the
running task, of the tail of `alarm()` and of the clock, and strong fairness of
the alarm, which the platform retries after an error; the queue is busy now and
then, so weak fairness would not oblige it. No command is fair. The assumption
that somebody looks is part of the properties that need it
(`WatchedAuctionsClose`, `PolledAuctionsClose`), not of the specification.

`sync` assumes weak fairness of the running task, of each client's socket
(delivery, handshake and the reconnect after the backoff) and of its resync loop:
promises resolve, the network delivers what it does not drop. No command, retry,
answer, refresh or poll is obliged. Two exceptions are part of the properties as
`NewsDelivered`, because the code has them: a resync request of the client failed
(the next trigger repairs it), or a command failed after its version was counted
and nobody has broadcast since (its retry or the next command repairs it).

## Proofs

A run shows a property for one small instance; the theorems below show it for every
value of the constants that satisfies the assumptions named in the model: any
number of players, calls, identifiers, auctions, tiles, transactions, crashes and
failures. Each module of proofs EXTENDS the model the runs check.

| Theorem | States | Of | Beyond the model's assumptions |
|---|---|---|---|
| `SessionInvariant`, `TypeCorrect`, `DurableAnswers`, `SingleFlight` | `SessionInv` and its parts | `GameSession` | |
| `StoredAnswersFinal` | `StoredAnswersAreFinal` (action property) | `GameSession` | |
| `SettledOnce` | `RequestSettledOnce` | `GameSession` | |
| `VersionsAreFresh` | `PublishedVersionsAreFresh` (action property) | `GameSession` | |
| `WalletIsLedger` | `WalletMatchesLedger` | `GameSession` | `NoLateBankruptcy` |
| `PipelineKeepsPromise` | `KeepsPromise` (refinement) | `GameSession` | |
| `AuctionTypes` | `TypeOK` | `Auction` | |
| `AuctionsPaidAndTold` | `PaidAndToldOnce` | `Auction` | |
| `DeadlinesAreGood` | `DeadlineNotAfterEnd` | `Auction` | |
| `BidsRise`, `NoneClosesEarly` | `BidsOnlyRise`, `NoEarlyClose` (action properties) | `Auction` | |
| `ReservesAreCovered` | `ReserveCovered` | `Auction` | `~LateWrites` |
| `CommandsKeepReserves` | `ReservesHold` | `MCAuctionSafe` | |
| `BankTypes` | `TypeOK` | `Bank` | |
| `BooksAlwaysBalance` | `BooksBalance` | `Bank` | |
| `RequestsSettleJustOnce` | `RequestsSettleOnce` | `Bank` | |
| `TheBankruptHoldNothing` | `BankruptHoldNothing` | `Bank` | |
| `LoansAlwaysMatch` | `LoansMatchRepayments` | `Bank` | |
| `MortgagesAlwaysMatch` | `MortgagesMatchTiles` | `Bank` | |
| `BuildingsStaySound` | `BuildingsAreSound` | `Bank` | |
| `TurnsNeverGoBack` | `TurnsOnlyAdvance` (action property) | `Bank` | |
| `StatisticsAlwaysAddUp` | `StatisticsAddUp` | `Statistics` | |
| `FormsAlwaysShowTheTruth` | `FormsShowTheTruth` (action property) | `Dialog` | |
| `OffersAreAccepted` | `OfferedIsAccepted` | `Dialog` | |
| `SyncTypesHold`, `IdleClientsHold` | `TypeOK`, `IdleClientsAreCurrent` | `LiveSync` | |
| `ViewsAlwaysCover` | `ViewsCover` | `LiveSync` | `OneBroadcastEach` |
| `ConnectedViewsAlwaysCover` | `ConnectedViewsCover` | `LiveSync` | `OneBroadcastEach`, `NobodyPays` |
| `LobbyTypes`, `SeatsAlwaysAgree` | `TypeOK`, `SeatsAgree` | `Lobby` | |
| `FinishesAreRecorded` | `FinishIsRecorded` | `Lobby` | |
| `GamesFinishForGood`, `RosterFrozen` | `FinishedForGood`, `RosterIsFrozen` (action properties) | `Lobby` | |
| `LinksWorkOnlyOnce` | `LinksWorkOnce` | `Accounts` | `Durations` |
| `LeasesGrow` | `LeasesOnlyGrow` (action property) | `Accounts` | `Durations` |
| `PeopleLinksWorkOnce`, `PeopleLeasesGrow` | the same two, beside a table | `MCPeople` | `Durations` |

### Assumptions

The named assumptions of the models say that amounts, times and bounds are
natural numbers, that sets of players and tiles are finite, that `None`, `Bank` and the
seats of owner and local player are apart from what they stand beside, and
that a board has prices and rents; `StartAssumption`, that no tile is marked as
mortgaged when the log is empty (a game is created with `mortgaged = 0` everywhere,
`game-repository.ts:154`); `BuiltStartAssumption`, that the buildings a board starts
with stand on whole groups and evenly. A game is created with none, for which it
is trivial; it lets `bank_board` begin later in a game. `PositiveAssumption` of `Dialog`
says that no sum is zero: the salary is a positive integer
(`api-validation.ts`, `passGoReward`), a mortgage has a CHECK (`mortgage_value > 0`,
`0022_mortgages.sql:94`), and so have the tiles of the boards. `PresetAssumption` says
of the boards what both presets (`shared/board/monopoly-ua-classic.ts`, `monopoly-ru-2012.ts`) have and the
schema of a board does not ask for: the tiles of a group are all streets that can be
built on, or none is, and the rules name the rent of as many railways and utilities
as there are. Without it the client would offer a rent that the server does not know.
TLC evaluates all of them in the runs. Some theorems say more:

- `NoLateBankruptcy` (no bankruptcy is sent, or no write outlives its issuer), for
  the reason of `MCGameSession_bankrupt_late.cfg`.
- `~LateWrites` for the reserve: a debit planned before a bid can land after it
  otherwise, and the balance it compares is that of the wallet, not of the reserve.
- `Durations` says that the lease and the life of a link are integers. `Accounts`
  states it in no ASSUME because the runs reach it through INSTANCE.
- `OneBroadcastEach` (no settlement, whose commit is told in two events) and
  `NobodyPays` (no followed client sends a payment) name what `MCLiveSync_split.cfg`
  and `MCLiveSync_answer.cfg` show to break `ConnectedViewsCover`. `ViewsCover` needs
  no `NobodyPays`: it leaves out the ledger of a client that pays and keeps
  everything else.

### Inductive invariants

None of the properties is inductive as it stands. What each needed, and why:

- `GameSession`. `AnswersAreDurable` speaks of answers given and stored, while the
  next answer comes from a reply still under way, from the request row or from a
  completion still travelling to D1. `SessionInv` adds that these are backed too
  (`PendingAnswersAreBacked`): after `Commit` the reply's transaction is stored at
  a version not above the current one, and only `IncrementStateVersion` takes the
  reply to the stages from which it can be told. A retry that finds the effect
  passes through the same step, which is why counting before completing matters.
- `VersionInv`: what was announced is below the version of the command in the slot.
- `MoneyInv` and `PlanInv`: an outstanding batch knows the balance it was planned
  on, so that the compare-and-set in `Lands` makes its delta true of the wallet.
- `RequestSettledOnce` is inductive by itself: a batch that moves the request's
  money lands only on an open request, and one that is not overdue has no payment
  (the property's last conjunct); the batch leaves it ACCEPTED or overdue, and
  nothing takes either back.
- The refinement: the abstract steps are taken where a batch lands and where a task
  ends. `Recorded` says that, where no write outlives its issuer, who was told OK has a
  ledger row for its command and a command that runs has none yet, so nobody else can
  be told OK under that identifier. `OneAnswer` says that the callers of one command hear one answer, because
  copies are recognised in the queue, in the ledger or by the stored transaction,
  whichever the failure left. Everything else maps to a stutter.
- `Auction`. `DueInv`: a settlement, under way or late, was planned on a version of
  its lot that was due, and while that is still the version in D1 it knows the
  leader and the bid. It is why the version in the guard is enough although the
  end may have moved. `CarryInv` says what each stage of a task may take for granted
  of its lot; in particular only a task whose lot is closed and has no
  `auction-settle:` row can write that row. `CoverInv`: there is one active auction,
  one outstanding batch, and a debit that was let through leaves the reserve.
- `Bank`. `TypeInv` types every table, and among the types is what the CHECKs of
  the schema say; that a mortgaged tile has no buildings and an owner makes the
  typing of reversals and transfers go through. `BooksInv` keeps each wallet and
  the pot as sums over the log. `RequestInv` and `TradeInv` link a request to
  its one transaction in both directions. `HoldInv` has, beside what the bankrupt
  hold, what a later reversal could give back to them: the tiles a recorded
  transaction moved were its participants' or the bank's, and a redeemed mortgage
  is under a participant, who must not be bankrupt for a reversal to pass. `LoanInv`
  keeps the repayments of a loan as a sum, names only loans there are, and says that
  a loan between players has its accepted request. `StoryInv` is what lets a
  reversal write the flag of a tile and the row of its mortgage apart. Of the
  transactions that stand on a tile (`Standing`) the last had its owner as a
  participant, and each earlier one whoever the next would give it back to; a row
  that is redeemed names the redemption that stands, a row that stands for a
  mortgage is not released unless a participant of a later one went bankrupt,
  whereupon neither can be reversed. So the only transaction that can be reversed is
  the last on the tile, and the row it brings back is the one its flag needs. With
  it, the creditor of a bankruptcy cannot already have a mortgage on a tile that
  passes to them: the clash `bankruptMortgages` resolves is one of typed-in names.
- `BuildInv` says what each reversal that the code would let through finds. Building
  cannot be undone while a later building, sale or mortgage stands in the group,
  but it can after a purchase, a trade or a redemption, and in an order
  unlike the one it was done in on other tiles. So for each group not excepted by
  `SaleReversedAfterTrade`, beside being sound now (`Sound`): a sale that can be reversed, with
  no trade since, finds the tiles with their seller, and anything mortgaged or redeemed
  since was mortgaged by a row that stands and blocks the reversal (`SalesHold`); without
  the building done since, a group one of whose tiles was bought, traded or redeemed is bare
  (`ClearHold`), because an earlier owner gets no buildings back; and what a
  building row would put back is within one level of what the other tiles stood as
  after it (`LevelHold`, `StoodAs`), which is why the even-building rule survives
  reversals that skip rows on other streets. The blocker that is missing, a
  transfer after a sale, is where `SalesHold` needs its exception.
  Evenness needs none (`EvenGroup`): whatever else a sale that was reversed behind a
  trade breaks, everything built in a group belongs to one player (`OneBuilder`), a
  tile that was bought or traded is bare without the building since (`PassedBare`),
  and `LevelHold` holds all the same.
- `TurnsOnlyAdvance` rests on `LoanInv`: a bank loan closes only when what is repaid
  is the principal, so it never leaves the list without a LOAN_REPAYMENT row from
  which the cooldown is read, and a row that is added to the log moves at most one
  turn forward whatever the window of rows read leaves out.
- `Statistics`. `CountedInv`: a reversal takes exactly the row it negates out of those
  counted, so what counts makes the same sums as the whole log that `BooksInv` speaks
  of. For the lines cut short, that nobody whose money a bankruptcy took is named by
  a later row that counts, and that a creditor pays only for tiles they were given. The
  chart's rounding is shown to keep its first and last step for any number of points.
- `Dialog`. A form shows what the server does with it because a running loan is not
  covered yet (`LoanInv`), nobody lends to themselves (`LoansApart`, from the requests
  a loan comes from), and a mortgage is worth something (`MortgagesCount`), through
  inheritance, trades and reversals. What it offers is accepted because owners are
  never bankrupt (`HoldInv`), flags and mortgage rows agree (`StoryInv`), and the levels
  of every group are even (`EvenGroup`): the client decides a building step against
  each other tile of the group, the server against the levels as they will stand, and
  only on an even group do the two come to the same. That is why evenness had to be
  proved without the exception of the groups a reversed sale broke.
- `LiveSync`. `NewsInv`: once the latest version is announced, the last message
  queued for an open socket carries it, or the client has it, or its round will
  find it or has one more asked for behind it. A socket just upgraded must have the
  message: its snapshot, still to come, may carry an older stamp than broadcasts
  queued before it, so a snapshot is always followed by what is newer. `CoverInv`
  says of each copy of the game, in a message, a handshake, a round or on a screen,
  that it is as new as the version it goes with, and of a live event that the slice
  it does not bring is as the version before left it.
- `Lobby`. `QueueInv`: the slot has one holder and its write is one of its command.
  `TableInv` adds that the seat a join brings is nobody's until the join lands and
  that one write at most is on its way for it; without it a late join could seat a
  player who was removed meanwhile. `FinishInv`: only the FINISH_GAME that closed
  the game records results, from an empty table, and an OK is said after all of them.
- `Accounts`. `LinkInv`: of a consumed link no request can still apply the effect
  except the one that consumed it (`OneUse`).

Sums (`SumFunction` and `MapThenSumSet` of the community modules) are not declared
RECURSIVE but chosen functions, so facts about them can be proved: `SumFacts` shows
that the chosen function exists, is unique and may sum in any order, by a first-order
induction on cardinality (a set of naturals that holds 0 and every successor),
since the induction theorems of the library take operators. What the proofs about
the models cite is the sum of one more value, of one changed value and of zeros.

The proofs have one lemma per group of actions and one step per conjunct an action
can disturb. What most actions leave alone is stated once (`QuietSteps`, `BookStep`,
`OneAnswerFrame`) and cited.

### Only model-checked

- Liveness (`EveryCallEnds`, the auction's closing, the temporal part of `sync`):
  the prover does not reach fairness and ENABLED.

## Not modelled

Authorisation (a refusal before any read, indistinguishable from `Refused`),
payload validation, the contents of replies, presence, and what the notes of
`PROJECT.json` leave out per component. In `GameSession`, executors other than the
five; in `Auction`, boards, payment-request reservations and the purge of a game.
In `LiveSync`, the lists of payment and trade requests, whose events carry no data
and are always fetched; lobby and finish events, which replace what a snapshot
would; the auction poll of the auction dialog; and a client that stays offline.
In `Lobby`, invitations, join codes and colours; two joins may pick one colour,
and a guest join makes its account before it has a seat, so a refused one leaves
an account behind until the daily cleanup. In `Accounts`, rate limits and the
cleanup of old guests.

More than half of the repository's lines are the browser interface: pages,
components, translations, styles, fixtures, and parsers of request bodies. They
keep no state that the properties above could be about beyond what `LiveSync`,
`Dialog` and the retry discipline of `GameSession` take from them, and are covered
by unit and end-to-end tests.

## Plan

1. Done: the pipeline, auctions, live synchronisation, the bank, the table and the
   accounts, with their runs, and the theorems above.
2. Models: invitations and colours in `Lobby`, replayed dice rolls, board lots and
   reservations in `Auction`, registry writes that outlive their object.
