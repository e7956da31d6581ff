------------------------------ MODULE LiveSync ------------------------------
(***************************************************************************)
(* How a browser follows a game: src/hooks/useGameSync.ts against the      *)
(* sockets, versions and snapshots of worker/game-session.ts.              *)
(*                                                                         *)
(* A view is two slices of GameDetails that travel in different events:    *)
(* the ledger (players and what comes with them, GAME_COMMITTED) and the   *)
(* auction (AUCTION_UPDATED).  The value of a slice is the number of       *)
(* changes D1 holds for it, so newer means greater.  A command is reduced  *)
(* to the stages at which its effect can be seen; GameSession has the rest.*)
(***************************************************************************)
EXTENDS Integers, Sequences

CONSTANTS
    Clients,            \* browsers that are followed; others only send commands
    Kinds,              \* commands: some of AllKinds
    Senders,            \* who sends each kind: followed clients, None for others
    MaxCommits,         \* bound on changes of D1
    MaxFailures,        \* bound on lost objects, failed steps, dropped sockets
                        \* and failed requests together
    None                \* no command, no read

AllKinds == {"PAY", "AUCTION", "SETTLE"}

ASSUME SyncKindsAssumption ==
    /\ Kinds \subseteq AllKinds
    /\ None \notin Clients
    /\ Senders \in [Kinds -> SUBSET (Clients \cup {None})]
    /\ "SETTLE" \in Kinds => Senders["SETTLE"] = {None}
ASSUME SyncBoundsAssumption == MaxCommits \in Nat /\ MaxFailures \in Nat

VARIABLES
    data,           \* D1
    version,        \* stateVersion in object storage
    task,           \* the command in the queue's slot
    interrupted,    \* kinds whose effect is stored and whose ledger row is not
    gameRead,       \* the object's shared read of the game
    conn,           \* a client's socket, from its upgrade request to onopen
    inbox,          \* messages on the way to a client
    answers,        \* HTTP answers to a client's own commands
    view, lastVersion,  \* GameDetails on the screen, SyncState.lastVersion
    sync,           \* SyncState.inFlight with the locals of its loop, pending
    unannounced,    \* history variable: a counted version's command failed since
                    \* the last broadcast
    history,        \* history variable: what the commands counted up to each
                    \* version have changed
    requestLost,    \* history variable: a request of a client has failed
    commits, failures

serverVars == <<data, version, task, interrupted, unannounced, history>>
clientVars == <<view, lastVersion, sync>>
bounds == <<requestLost, commits, failures>>
vars == <<serverVars, gameRead, conn, inbox, answers, clientVars, bounds>>

-----------------------------------------------------------------------------
(* Details, messages and the local state of the async functions *)

Details == [ledger : Nat, auction : Nat]
Nothing == [ledger |-> 0, auction |-> 0]
AtLeast(d, e) == d.ledger >= e.ledger /\ d.auction >= e.auction

\* The changes of every command counted up to version v.
Covered(v) == IF v = 0 THEN Nothing ELSE history[v]

Event == [type : {"GAME_SNAPSHOT", "PRESENCE_UPDATED", "GAME_COMMITTED",
                  "AUCTION_UPDATED"},
          version : Nat, details : Details]
Message(type, v, d) == [type |-> type, version |-> v, details |-> d]

\* publish, and the end of runSettlement, which has two broadcasts.
Broadcasts(kind) ==
    CASE kind = "PAY"     -> <<"GAME_COMMITTED">>
      [] kind = "AUCTION" -> <<"AUCTION_UPDATED">>
      [] kind = "SETTLE"  -> <<"AUCTION_UPDATED", "GAME_COMMITTED">>

Task == [kind : Kinds, sender : Clients \cup {None},
         stage : {"written", "counted", "publishing"},
         details : Details, left : Seq(Event)]

\* An empty slot holds no command.
ASSUME SyncSlotAssumption == None \notin Task

Handshakes == {"idle", "requested", "reading", "loaded", "accepted",
               "greeted", "upgraded", "open"}
\* waits: its settleQuietly stands in the queue behind the running command.
Conn == [stage : Handshakes, waits : BOOLEAN, version : Nat, details : Details]
NoConn == [stage |-> "idle", waits |-> FALSE, version |-> 0,
           details |-> Nothing]

Sync == [stage : {"idle", "asking", "told", "reading", "loaded"},
         pending : BOOLEAN, version : Nat, details : Details]
NoSync == [stage |-> "idle", pending |-> FALSE, version |-> 0,
           details |-> Nothing]

\* Types; and a request for another round waits only while a round is running.
TypeOK ==
    /\ data \in Details /\ version \in Nat
    /\ task \in Task \cup {None}
    /\ interrupted \subseteq Kinds /\ unannounced \in BOOLEAN
    /\ gameRead \in [version : Nat, details : Details] \cup {None}
    /\ conn \in [Clients -> Conn]
    /\ inbox \in [Clients -> Seq(Event)]
    /\ answers \in [Clients -> SUBSET [kind : Kinds, details : Details]]
    /\ view \in [Clients -> Details]
    /\ lastVersion \in [Clients -> Nat]
    /\ sync \in [Clients -> Sync]
    /\ history \in Seq(Details) /\ Len(history) = version
    /\ requestLost \in BOOLEAN /\ commits \in Nat /\ failures \in Nat
    /\ \A c \in Clients : sync[c].pending => sync[c].stage # "idle"

Init ==
    /\ data = Nothing /\ version = 0 /\ history = <<>>
    /\ task = None /\ interrupted = {} /\ gameRead = None
    /\ unannounced = FALSE
    /\ conn = [c \in Clients |-> NoConn]
    /\ inbox = [c \in Clients |-> <<>>]
    /\ answers = [c \in Clients |-> {}]
    /\ view = [c \in Clients |-> Nothing]
    /\ lastVersion = [c \in Clients |-> 0]
    /\ sync = [c \in Clients |-> NoSync]
    /\ requestLost = FALSE /\ commits = 0 /\ failures = 0

-----------------------------------------------------------------------------
(* Sockets of the object *)

\* Sockets the object would send to: accepted, and not known to be gone.
Attached == {c \in Clients : conn[c].stage \in
                                 {"accepted", "greeted", "upgraded", "open"}}

\* broadcast, to some of the sockets.
SendTo(receivers, m) ==
    inbox' = [c \in Clients |->
                 IF c \in receivers THEN Append(inbox[c], m) ELSE inbox[c]]

\* The slot is given up, and what stands behind it goes on.
EndTask ==
    /\ task' = None
    /\ conn' = [c \in Clients |-> [conn[c] EXCEPT !.waits = FALSE]]

Presence == Message("PRESENCE_UPDATED", version, Nothing)

-----------------------------------------------------------------------------
(* Commands and settlements *)

\* The slices a command writes; the others stay as they are in d.
Rewritten(kind, d, new) ==
    [ledger |-> IF kind = "AUCTION" THEN d.ledger ELSE new.ledger,
     auction |-> IF kind = "PAY" THEN d.auction ELSE new.auction]
Changed(kind) ==
    Rewritten(kind, data, [ledger |-> data.ledger + 1,
                           auction |-> data.auction + 1])

Started(kind, sender, d) ==
    task' = [kind |-> kind, sender |-> sender, stage |-> "written",
             details |-> d, left |-> <<>>]

\* A command, or a due settlement, has written its batch and read its result.
Commit(kind, sender) ==
    /\ task = None /\ commits < MaxCommits
    /\ data' = Changed(kind)
    /\ Started(kind, sender, Changed(kind))
    /\ commits' = commits + 1
    /\ UNCHANGED <<version, interrupted, unannounced, history, gameRead, conn,
                   inbox, answers, clientVars, requestLost, failures>>

\* A retry, or another settlement, finds the effect of the interrupted one
\* stored and goes on from there with what D1 holds now.
Recover(kind) ==
    /\ task = None /\ kind \in interrupted
    /\ interrupted' = interrupted \ {kind}
    /\ Started(kind, None, data)
    /\ UNCHANGED <<data, version, unannounced, history, gameRead, conn, inbox,
                   answers, clientVars, bounds>>

CountVersion ==
    /\ task # None /\ task.stage = "written"
    /\ version' = version + 1
    /\ history' = Append(history, Rewritten(task.kind, Covered(version), data))
    /\ LET b == Broadcasts(task.kind)
       IN task' = [task EXCEPT !.stage = "counted",
                               !.left = [i \in DOMAIN b |->
                                  Message(b[i], version + 1, task.details)]]
    /\ UNCHANGED <<data, interrupted, unannounced, gameRead, conn, inbox,
                   answers, clientVars, bounds>>

\* The ledger row is complete, and no await stands between that and the first
\* broadcast, nor between the last one and the end of the task: the slot is
\* given up and the answer is on its way.
Publish ==
    /\ task # None /\ task.stage \in {"counted", "publishing"}
    /\ SendTo(Attached, Head(task.left))
    /\ unannounced' = FALSE
    /\ IF Len(task.left) > 1
       THEN /\ task' = [task EXCEPT !.stage = "publishing", !.left = Tail(@)]
            /\ UNCHANGED <<conn, answers>>
       ELSE /\ EndTask
            /\ answers' = [c \in Clients |->
                             IF c = task.sender
                             THEN answers[c] \cup {[kind |-> task.kind,
                                                    details |-> task.details]}
                             ELSE answers[c]]
    /\ UNCHANGED <<data, version, interrupted, history, gameRead, clientVars,
                   bounds>>

\* The kind a retry still has to finish: with the ledger row complete there is
\* nothing left to do again, not even the second broadcast of a settlement.
Unfinished ==
    IF task # None /\ task.stage # "publishing" THEN {task.kind} ELSE {}

\* An await throws: nobody is told any more, not even of a version that is
\* already counted, until a retry or the next command.
StepFails ==
    /\ failures < MaxFailures
    /\ task # None
    /\ failures' = failures + 1
    /\ EndTask
    /\ interrupted' = interrupted \cup Unfinished
    /\ unannounced' = (unannounced \/ task.stage = "counted")
    /\ UNCHANGED <<data, version, history, gameRead, inbox, answers,
                   clientVars, requestLost, commits>>

\* The object is lost with its promises and its sockets.
Crash ==
    /\ failures < MaxFailures
    /\ failures' = failures + 1
    /\ task' = None
    /\ interrupted' = interrupted \cup Unfinished
    /\ unannounced' = FALSE
    /\ gameRead' = None
    /\ conn' = [c \in Clients |-> NoConn]
    /\ inbox' = [c \in Clients |-> <<>>]
    /\ UNCHANGED <<data, version, history, answers, clientVars,
                   requestLost, commits>>

-----------------------------------------------------------------------------
(* acceptConnection, which runs beside the queue *)

Step(c, stage) == conn' = [conn EXCEPT ![c].stage = stage]

\* settleQuietly returns after whatever holds the slot now.
StepBehindTask(c, stage) ==
    conn' = [conn EXCEPT ![c].stage = stage, ![c].waits = task # None]

\* connect: a first socket, or one more after the backoff.
Connect(c) ==
    /\ conn[c].stage = "idle"
    /\ StepBehindTask(c, "requested")
    /\ UNCHANGED <<serverVars, gameRead, inbox, answers, clientVars, bounds>>

\* readGameShared takes the version first, the game second.
ReadVersion(c) ==
    /\ conn[c].stage = "requested" /\ ~conn[c].waits
    /\ conn' = [conn EXCEPT ![c].stage = "reading", ![c].version = version]
    /\ UNCHANGED <<serverVars, gameRead, inbox, answers, clientVars, bounds>>

\* Mutated: a read under way is joined whatever version it started at.
JoinableAtAnyVersion(v) == gameRead # None

Joinable(v) == gameRead # None /\ gameRead.version = v

LoadGame(c) ==
    /\ conn[c].stage = "reading"
    /\ gameRead' = IF Joinable(conn[c].version) THEN gameRead
                   ELSE [version |-> conn[c].version, details |-> data]
    /\ conn' = [conn EXCEPT ![c].stage = "loaded",
                            ![c].details = gameRead'.details]
    /\ UNCHANGED <<serverVars, inbox, answers, clientVars, bounds>>

\* A read ends before its connection goes on, or after it is gone.
GameReadEnds ==
    /\ gameRead # None
    /\ gameRead' = None
    /\ UNCHANGED <<serverVars, conn, inbox, answers, clientVars, bounds>>

\* The read it awaited is over, and from here on broadcasts reach the socket.
\* state() settles once more, so the rest of a command's broadcasts comes before
\* the snapshot.
Accept(c) ==
    /\ conn[c].stage = "loaded"
    /\ StepBehindTask(c, "accepted")
    /\ gameRead' = IF Joinable(conn[c].version) THEN None ELSE gameRead
    /\ UNCHANGED <<serverVars, inbox, answers, clientVars, bounds>>

Greet(c) ==
    /\ conn[c].stage = "accepted" /\ ~conn[c].waits
    /\ SendTo({c}, Message("GAME_SNAPSHOT", conn[c].version, conn[c].details))
    /\ conn' = [conn EXCEPT ![c] = [NoConn EXCEPT !.stage = "greeted"]]
    /\ UNCHANGED <<serverVars, gameRead, answers, clientVars, bounds>>

\* Mutated: nobody is told of the newcomer.
UpgradeQuietly(c) ==
    /\ conn[c].stage = "greeted"
    /\ Step(c, "upgraded")
    /\ UNCHANGED <<serverVars, gameRead, inbox, answers, clientVars, bounds>>

\* broadcastPresence tells everybody, the newcomer included, the version now.
Upgrade(c) ==
    /\ conn[c].stage = "greeted"
    /\ SendTo(Attached, Presence)
    /\ Step(c, "upgraded")
    /\ UNCHANGED <<serverVars, gameRead, answers, clientVars, bounds>>

\* Either side ends a socket: what was on its way is lost, the other sockets
\* hear of it.
Disconnect(c) ==
    /\ conn' = [conn EXCEPT ![c] = NoConn]
    /\ inbox' = [d \in Clients |->
                    IF d = c THEN <<>>
                    ELSE IF {c, d} \subseteq Attached
                    THEN Append(inbox[d], Presence)
                    ELSE inbox[d]]

Break(c) ==
    /\ conn[c].stage # "idle" /\ failures < MaxFailures
    /\ failures' = failures + 1
    /\ Disconnect(c)
    /\ UNCHANGED <<serverVars, gameRead, answers, clientVars,
                   requestLost, commits>>

-----------------------------------------------------------------------------
(* The resync loop *)

\* Mutated: a request made while a round is running is dropped.
RequestedUnlessBusy(s) ==
    IF s.stage = "idle" THEN [s EXCEPT !.stage = "asking"] ELSE s

\* resync: starts a round, or asks the one that is running for another.
Requested(s) ==
    IF s.stage = "idle" THEN [s EXCEPT !.stage = "asking"]
    ELSE [s EXCEPT !.pending = TRUE]

\* A round is over: another one follows if it was asked for.
RoundOver(s) ==
    [NoSync EXCEPT !.stage = IF s.pending THEN "asking" ELSE "idle"]

\* The page becomes visible, the phone is online again, the user refreshes, or
\* the poll finds the socket unhealthy.
Trigger(c) ==
    /\ sync' = [sync EXCEPT ![c] = Requested(sync[c])]
    /\ UNCHANGED <<serverVars, gameRead, conn, inbox, answers, view,
                   lastVersion, bounds>>

TellVersion(c) ==
    /\ sync[c].stage = "asking"
    /\ sync' = [sync EXCEPT ![c].stage = "told", ![c].version = version]
    /\ UNCHANGED <<serverVars, gameRead, conn, inbox, answers, view,
                   lastVersion, bounds>>

\* Nothing new ends the round, an older version the socket as well.
HearVersion(c) ==
    /\ sync[c].stage = "told"
    /\ \/ /\ sync[c].version = lastVersion[c]
          /\ sync' = [sync EXCEPT ![c] = RoundOver(sync[c])]
          /\ UNCHANGED <<conn, inbox>>
       \/ /\ sync[c].version < lastVersion[c]
          /\ sync' = [sync EXCEPT ![c] = RoundOver(sync[c])]
          /\ Disconnect(c)
       \/ /\ sync[c].version > lastVersion[c]
          /\ sync' = [sync EXCEPT ![c].stage = "reading"]
          /\ UNCHANGED <<conn, inbox>>
    /\ UNCHANGED <<serverVars, gameRead, answers, view, lastVersion, bounds>>

\* The Worker reads D1 for a client; the object is not asked.
ReadGame(c) ==
    /\ sync[c].stage = "reading"
    /\ sync' = [sync EXCEPT ![c].stage = "loaded", ![c].details = data]
    /\ UNCHANGED <<serverVars, gameRead, conn, inbox, answers, view,
                   lastVersion, bounds>>

\* Live events that came in meanwhile may be newer than what was read.
ApplyGame(c) ==
    /\ sync[c].stage = "loaded"
    /\ \/ /\ lastVersion[c] > sync[c].version
          /\ UNCHANGED <<view, lastVersion>>
       \/ /\ lastVersion[c] <= sync[c].version
          /\ view' = [view EXCEPT ![c] = sync[c].details]
          /\ lastVersion' = [lastVersion EXCEPT ![c] = sync[c].version]
    /\ sync' = [sync EXCEPT ![c] = RoundOver(sync[c])]
    /\ UNCHANGED <<serverVars, gameRead, conn, inbox, answers, bounds>>

\* Mutated: the request for another round survives the failure.
FetchFailsPending(c) ==
    /\ sync[c].stage # "idle" /\ failures < MaxFailures
    /\ failures' = failures + 1
    /\ requestLost' = TRUE
    /\ sync' = [sync EXCEPT ![c] = [NoSync EXCEPT !.pending = sync[c].pending]]
    /\ UNCHANGED <<serverVars, gameRead, conn, inbox, answers, view,
                   lastVersion, commits>>

\* A request fails: the loop ends and forgets whoever asked for another round.
FetchFails(c) ==
    /\ sync[c].stage # "idle" /\ failures < MaxFailures
    /\ failures' = failures + 1
    /\ requestLost' = TRUE
    /\ sync' = [sync EXCEPT ![c] = NoSync]
    /\ UNCHANGED <<serverVars, gameRead, conn, inbox, answers, view,
                   lastVersion, commits>>

-----------------------------------------------------------------------------
(* What arrives at a client *)

\* onopen: the client asks at once, whatever the greeting will say.
Open(c) ==
    /\ conn[c].stage = "upgraded"
    /\ Step(c, "open")
    /\ sync' = [sync EXCEPT ![c] = Requested(sync[c])]
    /\ UNCHANGED <<serverVars, gameRead, inbox, answers, view, lastVersion,
                   bounds>>

acceptsLiveVersion(lastApplied, v) == v \in {lastApplied, lastApplied + 1}

\* applyLiveEvent: the ledger of an event replaces the one on the screen; of
\* two auctions newerAuction keeps the later.
Applied(current, type, d) ==
    CASE type \in {"GAME_COMMITTED", "PAY"} -> [current EXCEPT !.ledger = d.ledger]
      [] type \in {"AUCTION_UPDATED", "AUCTION"} ->
            IF d.auction >= current.auction
            THEN [current EXCEPT !.auction = d.auction] ELSE current

\* handleEvent
Deliver(c) ==
    /\ conn[c].stage = "open" /\ inbox[c] # <<>>
    /\ inbox' = [inbox EXCEPT ![c] = Tail(@)]
    /\ LET m == Head(inbox[c])
       IN \/ /\ m.type = "GAME_SNAPSHOT"
             /\ view' = [view EXCEPT ![c] = m.details]
             /\ lastVersion' = [lastVersion EXCEPT ![c] = m.version]
             /\ UNCHANGED sync
          \/ /\ m.type = "PRESENCE_UPDATED"
             /\ sync' = IF m.version > lastVersion[c]
                        THEN [sync EXCEPT ![c] = Requested(sync[c])] ELSE sync
             /\ UNCHANGED <<view, lastVersion>>
          \/ /\ m.type \in {"GAME_COMMITTED", "AUCTION_UPDATED"}
             /\ ~acceptsLiveVersion(lastVersion[c], m.version)
             /\ sync' = [sync EXCEPT ![c] = Requested(sync[c])]
             /\ UNCHANGED <<view, lastVersion>>
          \/ /\ m.type \in {"GAME_COMMITTED", "AUCTION_UPDATED"}
             /\ acceptsLiveVersion(lastVersion[c], m.version)
             /\ view' = [view EXCEPT ![c] = Applied(view[c], m.type, m.details)]
             /\ lastVersion' = [lastVersion EXCEPT ![c] = m.version]
             /\ UNCHANGED sync
    /\ UNCHANGED <<serverVars, gameRead, conn, answers, bounds>>

\* The answer to a command of the client's own goes straight to the screen, by
\* another connection than the events and without its version.
HearAnswer(c) ==
    /\ \E a \in answers[c] :
          /\ answers' = [answers EXCEPT ![c] = @ \ {a}]
          /\ view' = [view EXCEPT ![c] = Applied(view[c], a.kind, a.details)]
    /\ UNCHANGED <<serverVars, gameRead, conn, inbox, lastVersion, sync,
                   bounds>>

-----------------------------------------------------------------------------

TaskStep == CountVersion \/ Publish

SocketStep(c) ==
    Connect(c) \/ ReadVersion(c) \/ LoadGame(c) \/ Accept(c) \/ Greet(c)
        \/ Upgrade(c) \/ Open(c) \/ Deliver(c)

SyncStep(c) == TellVersion(c) \/ HearVersion(c) \/ ReadGame(c) \/ ApplyGame(c)

Next ==
    \/ \E kind \in Kinds : \E sender \in Senders[kind] : Commit(kind, sender)
    \/ \E kind \in Kinds : Recover(kind)
    \/ TaskStep
    \/ StepFails
    \/ Crash
    \/ GameReadEnds
    \/ \E c \in Clients : SocketStep(c)
    \/ \E c \in Clients : SyncStep(c)
    \/ \E c \in Clients : HearAnswer(c)
    \/ \E c \in Clients : Break(c)
    \/ \E c \in Clients : Trigger(c)
    \/ \E c \in Clients : FetchFails(c)

Spec == Init /\ [][Next]_vars

\* The runtime resolves promises, the network delivers and a socket that is
\* gone is opened again; no command, refresh or failure is ever obliged to
\* happen, and the answer to a command may be lost.
Fairness ==
    /\ WF_vars(TaskStep)
    /\ \A c \in Clients : WF_vars(SocketStep(c)) /\ WF_vars(SyncStep(c))

FairSpec == Spec /\ Fairness

-----------------------------------------------------------------------------
(* Properties *)

\* The socket is open and everything sent on it has been handled, while no
\* command is between its broadcasts.
Quiet(c) ==
    /\ conn[c].stage = "open" /\ inbox[c] = <<>>
    /\ (task # None => task.stage # "publishing")

\* A client that has handled its messages shows at least what the version it
\* believes in covers: snapshots, events, resyncs and its own answers may come
\* in any order (the stamp of game-session.ts 737-740, useGameSync.ts 218-237).
ConnectedViewsCover ==
    \A c \in Clients : Quiet(c) => AtLeast(view[c], Covered(lastVersion[c]))

\* Nobody owes a client the news: none of its requests failed, and the latest
\* version is not that of a failed command.
NewsDelivered == ~requestLost /\ ~unannounced

\* A client that has nothing to handle and no round under way is not behind:
\* no order of handshake, events, presence and rounds leaves it with an old
\* version that nothing on its way is going to correct.
IdleClientsAreCurrent ==
    \A c \in Clients :
        Quiet(c) /\ task = None /\ sync[c].stage = "idle" /\ NewsDelivered
            => lastVersion[c] = version

\* Once commands and failures stop, every client comes to show what the latest
\* version covers and stays there.
ClientsCatchUp ==
    \A c \in Clients :
        <>[](NewsDelivered => AtLeast(view[c], Covered(version)))
=============================================================================
