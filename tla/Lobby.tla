------------------------------- MODULE Lobby -------------------------------
(***************************************************************************)
(* The life of one game from its lobby to its removal.                     *)
(*                                                                         *)
(* START_GAME, JOIN_LOBBY, REMOVE_PLAYER, FINISH_GAME and dice rolls run   *)
(* one at a time in the game object's queue (worker/game-session.ts);      *)
(* deleting, restoring and purging the game run in the Worker, beside the  *)
(* queue.  Every D1 write is a step apart from the reads before it: a      *)
(* crash or a failed step may come between, and a write already sent may   *)
(* land after its issuer is gone.  What a write checks by itself is Lands. *)
(*                                                                         *)
(* The client gives each of these commands a fresh identifier, so a retry  *)
(* is a new command and the command ledger answers none of them.           *)
(***************************************************************************)
EXTENDS Naturals, FiniteSets

CONSTANTS
    Users,              \* accounts; Owner is the one who made the game
    Owner,
    Calls,              \* requests under way; a call that joins brings a seat
    OwnerSeat,          \* the player row of the owner
    LocalSeat,          \* a player row without an account, named at creation
    MaxLobbyPlayers,
    MaxFailures,        \* bound on crashes and failed steps together
    LateWrites,         \* may a D1 write outlive the step that issued it?
    None

ASSUME LobbyAssumption ==
    /\ Owner \in Users
    /\ OwnerSeat # LocalSeat /\ {OwnerSeat, LocalSeat} \cap Calls = {}
    /\ MaxLobbyPlayers \in Nat \ {0, 1}
    /\ MaxFailures \in Nat /\ LateWrites \in BOOLEAN

\* The route draws a random player id for each join: the call's own seat.
Seats == {OwnerSeat, LocalSeat} \cup Calls

VARIABLES
    \* D1
    status,         \* games.status, or "GONE" once the row is purged
    removal,        \* games.deleted_at: not set, or set within or past 30 days
    players,        \* players rows
    members,        \* game_members: the seat of each user
    controllers,    \* player_controllers: the user who controls each seat
    snapshot,       \* game_final_snapshots: the winners stored
    completions,    \* game_completion_participants: did this user win?
    \* object storage
    dice,           \* seats with a dice: key
    \* the live instance
    work,           \* the command in the queue's slot
    rolling,        \* the seat whose dice roll is in the queue's slot
    \* callers
    call,
    \* D1 writes whose issuer is gone
    late,
    failures,
    \* history
    finish          \* was the game closed by a FINISH_GAME, and did that run
                    \* to its end?

gameVars == <<status, removal>>
seatVars == <<players, members, controllers>>
resultVars == <<snapshot, completions>>
d1Vars == <<gameVars, seatVars, resultVars>>
instanceVars == <<work, rolling>>
faultVars == <<late, failures>>
vars == <<d1Vars, dice, instanceVars, call, faultVars, finish>>

-----------------------------------------------------------------------------
(* Commands, writes and answers *)

Start     == [kind |-> "START"]
Join(u)   == [kind |-> "JOIN", user |-> u]
Remove(s) == [kind |-> "REMOVE", seat |-> s]
Finish(W) == [kind |-> "FINISH", winners |-> W]

Commands == {Start} \cup {Join(u) : u \in Users \ {Owner}}
                    \cup {Remove(s) : s \in Seats}
                    \cup {Finish({s}) : s \in {OwnerSeat, LocalSeat}}

Activate       == [kind |-> "activate"]
Seat(u, s)     == [kind |-> "seat", user |-> u, seat |-> s]
Unseat(s)      == [kind |-> "unseat", seat |-> s]
Snap(W)        == [kind |-> "snapshot", winners |-> W]
Close          == [kind |-> "close"]
Record(u, won) == [kind |-> "record", user |-> u, won |-> won]

Writes == {Activate, Close} \cup {Seat(u, s) : u \in Users, s \in Calls}
          \cup {Unseat(s) : s \in Seats}
          \cup {Snap({s}) : s \in {OwnerSeat, LocalSeat}}
          \cup {Record(u, won) : u \in Users, won \in BOOLEAN}

Idle == [call |-> None, stage |-> "idle", write |-> None]
Stages == {"idle", "writing", "snapped", "closed", "recorded"}

\* REFUSED is a typed refusal, FAILED a server error, LOST no answer at all.
Codes == {"OK", "REFUSED", "FAILED", "LOST"}
Free == [state |-> "free", cmd |-> None, code |-> None]
Sent(c) == [state |-> "sent", cmd |-> c, code |-> None]

\* None is no row, no write and no outcome.
ASSUME NoneAssumption ==
    /\ None \notin Users /\ None \notin Seats /\ None \notin Writes
    /\ None \notin Codes
    /\ None \notin BOOLEAN /\ None \notin {{OwnerSeat}, {LocalSeat}}

\* Every variable keeps the shape of the row, key or field it stands for, and
\* the queue's slot has one holder.
TypeOK ==
    /\ status \in {"LOBBY", "ACTIVE", "ARCHIVED", "GONE"}
    /\ removal \in {"NONE", "RECENT", "OLD"}
    /\ players \subseteq Seats
    /\ members \in [Users -> Seats \cup {None}]
    /\ controllers \in [Seats -> Users \cup {None}]
    /\ snapshot \in {None} \cup {{OwnerSeat}, {LocalSeat}}
    /\ completions \in [Users -> BOOLEAN \cup {None}]
    /\ dice \subseteq Seats
    /\ work \in [call : Calls \cup {None}, stage : Stages,
                 write : Writes \cup {None}]
    /\ rolling \in Seats \cup {None}
    /\ call \in [Calls -> [state : {"free", "sent", "taken", "answered"},
                           cmd : Commands \cup {None},
                           code : Codes \cup {None}]]
    /\ late \subseteq Writes
    /\ failures \in 0..MaxFailures
    /\ finish \in {"NONE", "CLOSED", "CLEARED"}
    /\ work = Idle \/ rolling = None

\* createWithPlayers: the owner holds the first player; other names given at
\* creation are players without an account.
Init ==
    /\ status = "LOBBY"
    /\ removal = "NONE"
    /\ players \in {{OwnerSeat}, {OwnerSeat, LocalSeat}}
    /\ members = [u \in Users |-> IF u = Owner THEN OwnerSeat ELSE None]
    /\ controllers = [s \in Seats |-> IF s = OwnerSeat THEN Owner ELSE None]
    /\ snapshot = None
    /\ completions = [u \in Users |-> None]
    /\ dice = {}
    /\ work = Idle
    /\ rolling = None
    /\ call = [k \in Calls |-> Free]
    /\ late = {}
    /\ failures = 0
    /\ finish = "NONE"

-----------------------------------------------------------------------------
(* D1 *)

\* getById finds no row once deleted_at is set.
Readable == status # "GONE" /\ removal = "NONE"

\* Mutated: the seat is taken whatever became of the lobby since it was read.
LandsOutsideTheLobby(w) ==
    \/ w.kind = "activate" /\ status = "LOBBY"
    \/ w.kind = "close" /\ status = "ACTIVE"
    \/ w.kind = "seat" /\ status # "GONE" /\ members[w.user] = None
                       /\ Cardinality(players) < MaxLobbyPlayers
    \/ w.kind = "unseat" /\ status = "LOBBY" /\ w.seat \in players
                         /\ w.seat # members[Owner]
    \/ w.kind = "snapshot" /\ status # "GONE" /\ snapshot = None
    \/ w.kind = "record" /\ status # "GONE" /\ completions[w.user] = None

\* Mutated: only the authorizer counts the players.
LandsInAFullLobby(w) ==
    \/ w.kind = "activate" /\ status = "LOBBY"
    \/ w.kind = "close" /\ status = "ACTIVE"
    \/ w.kind = "seat" /\ status = "LOBBY" /\ members[w.user] = None
    \/ w.kind = "unseat" /\ status = "LOBBY" /\ w.seat \in players
                         /\ w.seat # members[Owner]
    \/ w.kind = "snapshot" /\ status # "GONE" /\ snapshot = None
    \/ w.kind = "record" /\ status # "GONE" /\ completions[w.user] = None

\* Mutated: the status is set, not compared.
LandsOnAnyStatus(w) ==
    \/ w.kind \in {"activate", "close"} /\ status # "GONE"
    \/ w.kind = "seat" /\ status = "LOBBY" /\ members[w.user] = None
                       /\ Cardinality(players) < MaxLobbyPlayers
    \/ w.kind = "unseat" /\ status = "LOBBY" /\ w.seat \in players
                         /\ w.seat # members[Owner]
    \/ w.kind = "snapshot" /\ status # "GONE" /\ snapshot = None
    \/ w.kind = "record" /\ status # "GONE" /\ completions[w.user] = None

\* Does the write change its row?  transitionStatus compares the status,
\* joinLobby and removeLobbyPlayer look at the lobby again inside their
\* batches, and the two result tables keep their first row.
Lands(w) ==
    \/ w.kind = "activate" /\ status = "LOBBY"
    \/ w.kind = "close" /\ status = "ACTIVE"
    \/ w.kind = "seat" /\ status = "LOBBY" /\ members[w.user] = None
                       /\ Cardinality(players) < MaxLobbyPlayers
    \/ w.kind = "unseat" /\ status = "LOBBY" /\ w.seat \in players
                         /\ w.seat # members[Owner]
    \/ w.kind = "snapshot" /\ status # "GONE" /\ snapshot = None
    \/ w.kind = "record" /\ status # "GONE" /\ completions[w.user] = None

\* A result row of a purged game breaks its foreign key: the write throws.
Breaks(w) == w.kind \in {"snapshot", "record"} /\ status = "GONE"

\* The three statements of joinLobby.
TakeSeat(w) ==
    /\ players' = players \cup {w.seat}
    /\ members' = [members EXCEPT ![w.user] = w.seat]
    /\ controllers' = [controllers EXCEPT ![w.seat] = w.user]

\* The three statements of removeLobbyPlayer.
LeaveSeat(w) ==
    /\ players' = players \ {w.seat}
    /\ members' = [u \in Users |-> IF members[u] = w.seat THEN None
                                   ELSE members[u]]
    /\ controllers' = [controllers EXCEPT ![w.seat] = None]

\* One batch, all of it or nothing.
Apply(w) ==
    /\ finish' = IF w = Close /\ Lands(w) THEN "CLOSED" ELSE finish
    /\ IF ~Lands(w) THEN UNCHANGED d1Vars
       ELSE CASE w.kind = "activate" ->
                   status' = "ACTIVE" /\ UNCHANGED <<removal, seatVars, resultVars>>
              [] w.kind = "close" ->
                   status' = "ARCHIVED" /\ UNCHANGED <<removal, seatVars, resultVars>>
              [] w.kind = "seat" -> TakeSeat(w) /\ UNCHANGED <<gameVars, resultVars>>
              [] w.kind = "unseat" -> LeaveSeat(w) /\ UNCHANGED <<gameVars, resultVars>>
              [] w.kind = "snapshot" ->
                   /\ snapshot' = w.winners
                   /\ UNCHANGED <<gameVars, seatVars, completions>>
              [] w.kind = "record" ->
                   /\ completions' = [completions EXCEPT ![w.user] = w.won]
                   /\ UNCHANGED <<gameVars, seatVars, snapshot>>

-----------------------------------------------------------------------------
(* Callers and routes *)

\* What the route finds out before it forwards the command: the lobby is open
\* and has room (join), the game is the owner's and can be read, the winners
\* are players of it (finish).
RouteAccepts(c) ==
    /\ Readable
    /\ c.kind = "JOIN" => /\ status = "LOBBY"
                          /\ \/ Cardinality(players) < MaxLobbyPlayers
                             \/ members[c.user] # None
    /\ c.kind = "FINISH" => c.winners \subseteq players

\* A call that joins brings a player id nobody has seen.
FreshSeat(k) ==
    k \notin players /\ \A w \in late : w.kind \in {"seat", "unseat"} => w.seat # k

Send(k, c) ==
    /\ call[k] = Free
    /\ RouteAccepts(c)
    /\ c.kind = "JOIN" => FreshSeat(k)
    /\ call' = [call EXCEPT ![k] = Sent(c)]
    /\ UNCHANGED <<d1Vars, dice, instanceVars, faultVars, finish>>

\* The caller has read the answer, or has given up on it.
Hear(k) ==
    /\ call[k].state = "answered"
    /\ call' = [call EXCEPT ![k] = Free]
    /\ UNCHANGED <<d1Vars, dice, instanceVars, faultVars, finish>>

-----------------------------------------------------------------------------
(* The queue *)

SlotFree == work = Idle /\ rolling = None

\* The task of the running command ends with an answer for its caller.
Answer(k, code) ==
    /\ work' = Idle
    /\ call' = [call EXCEPT ![k].state = "answered", ![k].code = code]

Running == call[work.call].cmd

\* What the authorizer and the executor read before the first write; none of
\* it is looked at again, except by the write itself.
Admits(c) ==
    /\ Readable
    /\ CASE c.kind = "START" -> status = "LOBBY" /\ Cardinality(players) >= 2
         [] c.kind = "JOIN" -> /\ status = "LOBBY"
                               /\ \/ Cardinality(players) < MaxLobbyPlayers
                                  \/ members[c.user] # None
         [] c.kind = "REMOVE" -> TRUE
         [] c.kind = "FINISH" -> c.winners \subseteq players

FirstWrite(k, c) ==
    CASE c.kind = "START" -> Activate
      [] c.kind = "JOIN" -> Seat(c.user, k)
      [] c.kind = "REMOVE" -> Unseat(c.seat)
      [] c.kind = "FINISH" -> Snap(c.winners)

\* The command gets the slot: refused, answered at once (someone already
\* seated), or about to write.
Take(k) ==
    /\ SlotFree
    /\ call[k].state = "sent"
    /\ LET c == call[k].cmd
       IN \/ /\ ~Admits(c)
             /\ Answer(k, "REFUSED")
          \/ /\ Admits(c)
             /\ c.kind = "JOIN" /\ members[c.user] # None
             /\ Answer(k, "OK")
          \/ /\ Admits(c)
             /\ ~(c.kind = "JOIN" /\ members[c.user] # None)
             /\ work' = [call |-> k, stage |-> "writing",
                         write |-> FirstWrite(k, c)]
             /\ call' = [call EXCEPT ![k].state = "taken"]
    /\ UNCHANGED <<d1Vars, dice, rolling, faultVars, finish>>

\* START_GAME, JOIN_LOBBY and REMOVE_PLAYER write once and read the game for
\* their answer, which fails if the game was deleted meanwhile.
CommitCommand ==
    /\ work.stage = "writing"
    /\ Running.kind \in {"START", "JOIN", "REMOVE"}
    /\ Apply(work.write)
    /\ LET seated == Running.kind = "JOIN" /\ members[Running.user] # None
       IN Answer(work.call,
                 IF ~Lands(work.write) /\ ~seated THEN "REFUSED"
                 ELSE IF removal = "NONE" /\ status # "GONE" THEN "OK"
                 ELSE "FAILED")
    /\ UNCHANGED <<dice, rolling, faultVars>>

Then(stage, w) ==
    /\ work' = [work EXCEPT !.stage = stage, !.write = w]
    /\ UNCHANGED call

\* FINISH_GAME, first write: the final snapshot, whatever state the game is in.
CommitSnapshot ==
    /\ work.stage = "writing"
    /\ Running.kind = "FINISH"
    /\ Apply(work.write)
    /\ IF Breaks(work.write) THEN Answer(work.call, "FAILED")
       ELSE Then("snapped", None)
    /\ UNCHANGED <<dice, rolling, faultVars>>

\* finishGame of the game service reads the game and goes on only if it is
\* active.
ReadForClose ==
    /\ work.stage = "snapped" /\ work.write = None
    /\ IF Readable /\ status = "ACTIVE" THEN Then("snapped", Close)
       ELSE Answer(work.call, "REFUSED")
    /\ UNCHANGED <<d1Vars, dice, rolling, faultVars, finish>>

CommitClose ==
    /\ work.stage = "snapped" /\ work.write = Close
    /\ Apply(Close)
    /\ IF Lands(Close) THEN Then("closed", None)
       ELSE Answer(work.call, "REFUSED")
    /\ UNCHANGED <<dice, rolling, faultVars>>

\* Mutated: only the winners are recorded.
UnrecordedWinners ==
    {u \in Users : members[u] \in Running.winners /\ completions[u] = None}

\* recordCompletedGame: the linked members one after the other; reading the
\* closed game fails if it was deleted in between.
Unrecorded == {u \in Users : members[u] # None /\ completions[u] = None}

ReadForRecord ==
    /\ work.stage = "closed" /\ work.write = None
    /\ IF ~Readable THEN Answer(work.call, "FAILED")
       ELSE IF Unrecorded = {} THEN Then("recorded", None)
       ELSE \E u \in Unrecorded :
              Then("recorded", Record(u, members[u] \in Running.winners))
    /\ UNCHANGED <<d1Vars, dice, rolling, faultVars, finish>>

CommitRecord ==
    /\ work.stage = "recorded" /\ work.write # None
    /\ Apply(work.write)
    /\ LET left == Unrecorded \ {work.write.user}
       IN IF Breaks(work.write) THEN Answer(work.call, "FAILED")
          ELSE IF left = {} THEN Then("recorded", None)
          ELSE \E u \in left :
                 Then("recorded", Record(u, members[u] \in Running.winners))
    /\ UNCHANGED <<dice, rolling, faultVars>>

\* The last step deletes every dice: key of the object.
ClearDice ==
    /\ work.stage = "recorded" /\ work.write = None
    /\ dice' = {}
    /\ finish' = "CLEARED"
    /\ Answer(work.call, "OK")
    /\ UNCHANGED <<d1Vars, rolling, faultVars>>

\* Mutated: a roll does not wait for its turn in the queue.
RollBesideTheQueue(s) ==
    /\ rolling = None
    /\ s \in players /\ controllers[s] # None
    /\ Readable /\ status = "ACTIVE"
    /\ rolling' = s
    /\ UNCHANGED <<d1Vars, dice, work, call, faultVars, finish>>

\* A dice roll gets the slot and finds the game active.
Roll(s) ==
    /\ SlotFree
    /\ s \in players /\ controllers[s] # None
    /\ Readable /\ status = "ACTIVE"
    /\ rolling' = s
    /\ UNCHANGED <<d1Vars, dice, work, call, faultVars, finish>>

StoreRoll ==
    /\ rolling # None
    /\ dice' = dice \cup {rolling}
    /\ rolling' = None
    /\ UNCHANGED <<d1Vars, work, call, faultVars, finish>>

-----------------------------------------------------------------------------
(* Beside the queue *)

\* softDelete hides the game and stores it as finished, whatever it was.
DeleteGame ==
    /\ Readable
    /\ removal' = "RECENT"
    /\ status' = "ARCHIVED"
    /\ UNCHANGED <<seatVars, resultVars, dice, instanceVars, call, faultVars,
                   finish>>

\* restore leaves the game finished.
RestoreGame ==
    /\ removal = "RECENT"
    /\ removal' = "NONE"
    /\ UNCHANGED <<status, seatVars, resultVars, dice, instanceVars, call,
                   faultVars, finish>>

ThirtyDaysPass ==
    /\ removal = "RECENT"
    /\ removal' = "OLD"
    /\ UNCHANGED <<status, seatVars, resultVars, dice, instanceVars, call,
                   faultVars, finish>>

\* purgeExpiredDeleted: the row goes, and the rows that reference it with it.
Purge ==
    /\ removal = "OLD" /\ status # "GONE"
    /\ status' = "GONE"
    /\ players' = {}
    /\ members' = [u \in Users |-> None]
    /\ controllers' = [s \in Seats |-> None]
    /\ snapshot' = None
    /\ completions' = [u \in Users |-> None]
    /\ UNCHANGED <<removal, dice, instanceVars, call, faultVars, finish>>

-----------------------------------------------------------------------------
(* Failures *)

Abandon == \/ UNCHANGED late
           \/ LateWrites /\ work.write # None /\ late' = late \cup {work.write}

\* One awaited call of the running command throws.
StepFails ==
    /\ work # Idle
    /\ failures < MaxFailures
    /\ failures' = failures + 1
    /\ Answer(work.call, "FAILED")
    /\ Abandon
    /\ UNCHANGED <<d1Vars, dice, rolling, finish>>

\* The object's instance dies: the slot is empty again, and calls that had
\* reached it hear nothing.
Crash ==
    /\ ~SlotFree
    /\ failures < MaxFailures
    /\ failures' = failures + 1
    /\ work' = Idle
    /\ rolling' = None
    /\ call' = [k \in Calls |->
                  IF call[k].state = "taken"
                  THEN [call[k] EXCEPT !.state = "answered", !.code = "LOST"]
                  ELSE call[k]]
    /\ Abandon
    /\ UNCHANGED <<d1Vars, dice, finish>>

LateWriteArrives(w) ==
    /\ w \in late
    /\ late' = late \ {w}
    /\ Apply(w)
    /\ UNCHANGED <<dice, instanceVars, call, failures>>

-----------------------------------------------------------------------------

QueueStep ==
    \/ CommitCommand
    \/ CommitSnapshot
    \/ ReadForClose
    \/ CommitClose
    \/ ReadForRecord
    \/ CommitRecord
    \/ ClearDice
    \/ StoreRoll

Next ==
    \/ \E k \in Calls, c \in Commands : Send(k, c)
    \/ \E k \in Calls : Hear(k)
    \/ \E k \in Calls : Take(k)
    \/ \E s \in Seats : Roll(s)
    \/ QueueStep
    \/ DeleteGame
    \/ RestoreGame
    \/ ThirtyDaysPass
    \/ Purge
    \/ StepFails
    \/ Crash
    \/ \E w \in late : LateWriteArrives(w)

Spec == Init /\ [][Next]_vars

-----------------------------------------------------------------------------
(* Properties *)

\* players, game_members and player_controllers tell the same story, and the
\* table never grows past its limit, although three of their writers may land
\* after the reads that admitted them (joinLobby, removeLobbyPlayer): a member
\* has a player and controls it, nobody else does, and only the owner's purge
\* takes the owner's player away.
SeatsAgree ==
    /\ \A u \in Users : members[u] # None =>
          members[u] \in players /\ controllers[members[u]] = u
    /\ \A s \in Seats : controllers[s] # None => members[controllers[s]] = s
    /\ Cardinality(players) <= MaxLobbyPlayers
    /\ status # "GONE" => members[Owner] = OwnerSeat

\* Whoever is at the table when it leaves the lobby is at it until the game is
\* purged: a join or a removal that is late, or raced by START_GAME or by a
\* deletion, changes nothing (the guards inside both batches).
RosterIsFrozen ==
    [][ (status \in {"ACTIVE", "ARCHIVED"} /\ status' # "GONE")
        => UNCHANGED seatVars ]_vars

\* A finished or deleted game is never played again: a START_GAME that read the
\* lobby before the game was deleted does not revive it, and a restored game
\* stays finished (transitionStatus, softDelete).
FinishedForGood ==
    [][ /\ status \in {"ARCHIVED", "GONE"} => status' \in {"ARCHIVED", "GONE"}
        /\ status = "ACTIVE" => status' # "LOBBY" ]_vars

\* After a FINISH_GAME that was answered with success there is a final snapshot
\* (the first that was stored, perhaps by an earlier attempt), and the completion
\* of every linked member says whether that member's player was among the winners
\* of that very call, whatever earlier attempts left behind; and no roll that
\* saw the game active writes a dice: key after they were deleted
\* (docs/realtime-durable-objects.md:28).
FinishIsRecorded ==
    /\ \A k \in Calls :
         call[k].cmd \in {Finish({s}) : s \in Seats} /\ call[k].code = "OK"
         /\ status # "GONE"
         => /\ snapshot # None
            /\ \A u \in Users : members[u] # None =>
                  completions[u] = (members[u] \in call[k].cmd.winners)
    /\ finish = "CLEARED" => dice = {}

\* "A finish can be retried safely: one row per user/game is the idempotency
\* key" (migrations/0005_auth_sessions_game_access_and_profile_stats.sql:21):
\* when a FINISH_GAME is refused because an earlier one closed the game, every
\* linked member's completion is on record.
RetriedFinishIsComplete ==
    [][ \A k \in Calls :
          /\ call[k].state # "answered"
          /\ call'[k].state = "answered" /\ call'[k].code = "REFUSED"
          /\ call[k].cmd.kind = "FINISH"
          /\ Readable /\ status = "ARCHIVED" /\ finish # "NONE"
          => Unrecorded = {} ]_vars
=============================================================================
