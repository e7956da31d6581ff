--------------------------- MODULE LiveSyncProofs ---------------------------
(***************************************************************************)
(* Theorems about LiveSync, for any clients, commands, numbers of commits  *)
(* and failures.  Three invariants carry them: the types, with the         *)
(* broadcasts a counted command still has and the kinds a client is        *)
(* answered; the news, that something on its way takes every open client   *)
(* to the latest announced version; and the cover, that every copy of the  *)
(* game, on a screen, in a queue or being read, is at least as new as the  *)
(* version it goes with.                                                   *)
(***************************************************************************)
EXTENDS LiveSync, TLAPS, SequenceTheorems

-----------------------------------------------------------------------------
(* The inductive invariants *)

\* Live events and presence: what is sent while the version it carries is the
\* latest one.  A snapshot carries the version its connection began with.
Stamped == {"PRESENCE_UPDATED", "GAME_COMMITTED", "AUCTION_UPDATED"}

\* What a counted command has left to broadcast carries its version, and there
\* is some of it until the task is over.
BroadcastsAreOfVersion ==
    task # None /\ task.stage \in {"counted", "publishing"}
        => /\ Len(task.left) > 0
           /\ \A i \in 1..Len(task.left) :
                 /\ task.left[i].version = version
                 /\ task.left[i].type \in Stamped

\* Followed clients that pay: their answers write the ledger on the screen.
Payers == {c \in Clients : "PAY" \in Kinds /\ c \in Senders["PAY"]}

\* Only a client's own commands are answered, and it never sends a settlement.
OwnAnswer(c, kind) == kind = "AUCTION" \/ (kind = "PAY" /\ c \in Payers)
AnswersAreOwn ==
    /\ task # None /\ task.sender \in Clients => OwnAnswer(task.sender, task.kind)
    /\ \A c \in Clients : \A a \in answers[c] : OwnAnswer(c, a.kind)

TypeInv == TypeOK /\ BroadcastsAreOfVersion /\ AnswersAreOwn

\* Every counted version has been broadcast, or belongs to a command that is
\* on its way to its broadcast.
Announced ==
    /\ ~unannounced
    /\ ~(task # None /\ task.stage = "counted")

Within(queue, v) == \A i \in 1..Len(queue) : queue[i].version <= v

\* No copy of the version is ahead of storage.
Behind(c) ==
    /\ lastVersion[c] <= version /\ sync[c].version <= version
    /\ conn[c].version <= version /\ Within(inbox[c], version)

\* The last message on its way to c takes it to the latest version, or makes it
\* ask for that.
WillHear(c) ==
    /\ Len(inbox[c]) > 0
    /\ inbox[c][Len(inbox[c])].type \in Stamped
    /\ inbox[c][Len(inbox[c])].version = version

NoSnapshot(c) ==
    \A i \in 1..Len(inbox[c]) : inbox[c][i].type \in Stamped

\* The client has the latest version, or its round is going to find it.
KnowsOrAsks(c) ==
    \/ lastVersion[c] = version
    \/ sync[c].stage = "asking"
    \/ sync[c].pending
    \/ /\ sync[c].stage \in {"told", "reading", "loaded"}
       /\ sync[c].version = version

\* An open socket brings the client the latest version.  A snapshot, which may
\* be older than the events sent before it, is followed by what is newer.
NewsComes(c) ==
    Announced =>
        /\ conn[c].stage = "upgraded" => WillHear(c)
        /\ conn[c].stage = "open" /\ ~requestLost =>
              WillHear(c) \/ (NoSnapshot(c) /\ KnowsOrAsks(c))

NewsInv == \A c \in Clients : Behind(c) /\ NewsComes(c)

\* What D1 holds covers the latest version, and a later version covers an
\* earlier one.
HistoryGrows ==
    /\ AtLeast(data, Covered(version))
    /\ \A i, j \in 0..version : i <= j => AtLeast(Covered(j), Covered(i))

\* What a message says of the version it carries: a snapshot all of it, a live
\* event the slice it brings, when the other one is as the version before it.
Faithful(m) ==
    /\ m.type = "GAME_SNAPSHOT" => AtLeast(m.details, Covered(m.version))
    /\ m.type = "GAME_COMMITTED" =>
          /\ m.version > 0
          /\ m.details.ledger >= Covered(m.version).ledger
          /\ Covered(m.version).auction = Covered(m.version - 1).auction
    /\ m.type = "AUCTION_UPDATED" =>
          /\ m.version > 0
          /\ m.details.auction >= Covered(m.version).auction
          /\ Covered(m.version).ledger = Covered(m.version - 1).ledger

\* The object: a command sends what it has read, and a shared read covers the
\* version it started at.
ObjectCovers ==
    /\ HistoryGrows
    /\ task # None =>
          /\ task.details = data
          /\ \A i \in 1..Len(task.left) : Faithful(task.left[i])
    /\ gameRead # None =>
          /\ gameRead.version <= version
          /\ AtLeast(gameRead.details, Covered(gameRead.version))

\* A view covers version v: the auction always, the ledger unless the client
\* pays, when an answer of its own may bring an older one.
Shows(c, w, v) ==
    /\ w.auction >= Covered(v).auction
    /\ c \notin Payers => w.ledger >= Covered(v).ledger

\* A client's view, and everything that may get there.
CopiesCover(c) ==
    /\ conn[c].stage \in {"loaded", "accepted"} =>
          AtLeast(conn[c].details, Covered(conn[c].version))
    /\ sync[c].stage = "loaded" =>
          AtLeast(sync[c].details, Covered(sync[c].version))
    /\ Shows(c, view[c], lastVersion[c])

QueueFaithful(c) == \A i \in 1..Len(inbox[c]) : Faithful(inbox[c][i])

ClientCovers(c) == CopiesCover(c) /\ QueueFaithful(c)

CoverInv == ObjectCovers /\ \A c \in Clients : ClientCovers(c)

\* The properties below speak of games without settlements: the two broadcasts
\* of one carry the same version, and a socket accepted between them, or a
\* failure, leaves out one half.
OneBroadcastEach == "SETTLE" \notin Kinds

\* And of one that does not speak of clients whose own answers, which carry no
\* version, write the ledger they show.
NobodyPays == Payers = {}

-----------------------------------------------------------------------------
(* Sequences *)

\* What Append does to a queue of messages.
LEMMA AppendFacts ==
    ASSUME NEW S, NEW s \in Seq(S), NEW m \in S
    PROVE  /\ Append(s, m) \in Seq(S) /\ Append(s, m) # <<>>
           /\ Len(Append(s, m)) = Len(s) + 1
           /\ Append(s, m)[Len(s) + 1] = m
           /\ \A i \in 1..Len(s) : Append(s, m)[i] = s[i]
OBVIOUS

\* What is left of a queue of messages when the first one is taken.
LEMMA TailFacts ==
    ASSUME NEW S, NEW s \in Seq(S), s # <<>>
    PROVE  /\ Len(s) \in Nat /\ Len(s) > 0
           /\ Head(s) = s[1] /\ Head(s) \in S
           /\ Tail(s) \in Seq(S) /\ Len(Tail(s)) = Len(s) - 1
           /\ \A i \in 1..Len(Tail(s)) : Tail(s)[i] = s[i + 1]
OBVIOUS

-----------------------------------------------------------------------------
(* Types *)

\* Nothing and the empty socket have their types.
LEMMA EmptyTypes == Nothing \in Details /\ NoConn \in Conn /\ NoSync \in Sync
BY DEF Nothing, NoConn, NoSync, Details, Conn, Sync, Handshakes

\* A command's changes and the views they leave are details.
LEMMA DetailsTypes ==
    ASSUME NEW d \in Details, NEW e \in Details, NEW kind
    PROVE  Rewritten(kind, d, e) \in Details
BY DEF Rewritten, Details

\* Nothing has been counted before the first version.
LEMMA CoveredType ==
    ASSUME TypeOK, NEW v \in 0..version
    PROVE  Covered(v) \in Details
<1>1. CASE v = 0
  BY <1>1, EmptyTypes DEF Covered
<1>2. CASE v # 0
  <2>1. v \in 1..Len(history) /\ history \in Seq(Details)
    BY <1>2 DEF TypeOK
  <2>2. history[v] \in Details
    BY <2>1
  <2> QED BY <1>2, <2>2 DEF Covered
<1> QED BY <1>1, <1>2

\* A round that is asked for is a round.
LEMMA RequestedType ==
    ASSUME NEW s \in Sync, s.pending => s.stage # "idle"
    PROVE  /\ Requested(s) \in Sync
           /\ Requested(s).pending => Requested(s).stage # "idle"
           /\ RoundOver(s) \in Sync /\ ~RoundOver(s).pending
           /\ NoSync \in Sync /\ ~NoSync.pending
BY DEF Sync, Requested, RoundOver, NoSync, Nothing, Details

\* What an event leaves on the screen is a view.
LEMMA AppliedType ==
    ASSUME NEW d \in Details, NEW e \in Details,
           NEW type \in {"GAME_COMMITTED", "PAY", "AUCTION_UPDATED", "AUCTION"}
    PROVE  Applied(d, type, e) \in Details
BY DEF Applied, Details

\* A message is an event that says what it was made of.
LEMMA MessageType ==
    ASSUME NEW type \in {"GAME_SNAPSHOT", "PRESENCE_UPDATED", "GAME_COMMITTED",
                         "AUCTION_UPDATED"},
           NEW v \in Nat, NEW d \in Details
    PROVE  /\ Message(type, v, d) \in Event
           /\ Message(type, v, d).type = type
           /\ Message(type, v, d).version = v
           /\ Message(type, v, d).details = d
BY DEF Message, Event

\* Sending keeps the queues.
LEMMA SendType ==
    ASSUME NEW R, NEW m \in Event, inbox \in [Clients -> Seq(Event)], SendTo(R, m)
    PROVE  inbox' \in [Clients -> Seq(Event)]
BY AppendFacts DEF SendTo

\* The slot given up, every socket goes on.
LEMMA EndTaskType ==
    ASSUME conn \in [Clients -> Conn], EndTask
    PROVE  conn' \in [Clients -> Conn] /\ task' = None
BY DEF EndTask, Conn

\* Presence is stamped with the latest version.
LEMMA PresenceType ==
    ASSUME TypeOK
    PROVE  Presence \in Event /\ Presence.type \in Stamped /\ Presence.version = version
           /\ Presence.type = "PRESENCE_UPDATED"
BY MessageType, EmptyTypes DEF Presence, TypeOK, Stamped

\* The effect of a command or a settlement keeps the types.
LEMMA CommitTypes ==
    ASSUME TypeInv, NEW kind \in Kinds, NEW sender \in Senders[kind],
           Commit(kind, sender)
    PROVE  TypeInv'
<1>1. sender \in Clients \cup {None}
  BY SyncKindsAssumption
<1>2. Changed(kind) \in Details
  <2>1. data \in Details /\ [ledger |-> data.ledger + 1, auction |-> data.auction + 1] \in Details
    BY DEF TypeInv, TypeOK, Details
  <2> QED BY <2>1, DetailsTypes DEF Changed
<1>3. task' \in Task /\ task'.stage = "written"
  BY <1>1, <1>2 DEF Commit, Started, Task
<1>4. TypeOK'
  BY <1>2, <1>3 DEF TypeInv, TypeOK, Commit, clientVars
<1>5. sender \in Clients => OwnAnswer(sender, kind)
  BY SyncKindsAssumption DEF OwnAnswer, Payers, AllKinds
<1>6. task'.sender = sender /\ task'.kind = kind /\ answers' = answers
  BY DEF Commit, Started
<1>7. AnswersAreOwn'
  BY <1>5, <1>6 DEF TypeInv, AnswersAreOwn
<1> QED BY <1>3, <1>4, <1>7 DEF TypeInv, BroadcastsAreOfVersion

\* So does a retry that goes on from a stored effect, which answers nobody.
LEMMA RecoverTypes ==
    ASSUME TypeInv, NEW kind \in Kinds, Recover(kind)
    PROVE  TypeInv'
<1>3. task' \in Task /\ task'.stage = "written"
  BY DEF Recover, Started, Task, TypeInv, TypeOK
<1>4. TypeOK'
  BY <1>3 DEF TypeInv, TypeOK, Recover, clientVars, bounds
<1>5. AnswersAreOwn'
  BY SyncKindsAssumption DEF Recover, Started, TypeInv, AnswersAreOwn
<1> QED BY <1>3, <1>4, <1>5 DEF TypeInv, BroadcastsAreOfVersion

\* Every kind of command has something to broadcast.
LEMMA BroadcastsTypes ==
    ASSUME NEW kind \in Kinds
    PROVE  /\ Broadcasts(kind) \in Seq({"GAME_COMMITTED", "AUCTION_UPDATED"})
           /\ Len(Broadcasts(kind)) > 0
<1>1. kind \in {"PAY", "AUCTION", "SETTLE"}
  BY SyncKindsAssumption DEF AllKinds
<1>2. CASE kind = "PAY"
  BY <1>2 DEF Broadcasts
<1>3. CASE kind = "AUCTION"
  BY <1>3 DEF Broadcasts
<1>4. CASE kind = "SETTLE"
  BY <1>4 DEF Broadcasts
<1> QED BY <1>1, <1>2, <1>3, <1>4

\* A counted command has broadcasts of its version left.
LEMMA CountVersionTypes ==
    ASSUME TypeInv, CountVersion
    PROVE  TypeInv' /\ task' \in Task
<1> DEFINE b == Broadcasts(task.kind)
           l == [i \in DOMAIN b |-> Message(b[i], version + 1, task.details)]
<1>0. task \in Task /\ version \in Nat
  BY DEF TypeInv, TypeOK, CountVersion
<1>1. b \in Seq({"GAME_COMMITTED", "AUCTION_UPDATED"}) /\ Len(b) > 0
  BY <1>0, BroadcastsTypes DEF Task
<1>2. \A i \in 1..Len(b) : /\ l[i] \in Event
                           /\ l[i].version = version + 1
                           /\ l[i].type \in Stamped
  <2> SUFFICES ASSUME NEW i \in 1..Len(b)
               PROVE  l[i] \in Event /\ l[i].version = version + 1 /\ l[i].type \in Stamped
    OBVIOUS
  <2>1. b[i] \in {"GAME_COMMITTED", "AUCTION_UPDATED"} /\ DOMAIN b = 1..Len(b)
    BY <1>1
  <2>2. l[i] = Message(b[i], version + 1, task.details)
    BY <2>1
  <2> HIDE DEF b, l
  <2> QED BY <2>1, <2>2, <1>0, MessageType DEF Task, Stamped
<1>3. l \in Seq(Event) /\ Len(l) = Len(b)
  <2>1. DOMAIN b = 1..Len(b) /\ Len(b) \in Nat
    BY <1>1
  <2> HIDE DEF b
  <2> QED BY <1>2, <2>1
<1>4. task' = [task EXCEPT !.stage = "counted", !.left = l]
  BY DEF CountVersion
<1>5. task' \in Task /\ task'.stage = "counted" /\ task'.left = l
  <2> HIDE DEF l
  <2> QED BY <1>0, <1>3, <1>4 DEF Task
<1>6. version' = version + 1
  BY DEF CountVersion
<1>7. history' \in Seq(Details) /\ Len(history') = version'
  <2>1. Covered(version) \in Details
    BY CoveredType, <1>0 DEF TypeInv
  <2>2. Rewritten(task.kind, Covered(version), data) \in Details
    BY <2>1, DetailsTypes DEF TypeInv, TypeOK
  <2> QED BY <2>2, <1>6, AppendFacts DEF TypeInv, TypeOK, CountVersion
<1>8. TypeOK'
  <2> HIDE DEF l, b
  <2> QED BY <1>0, <1>5, <1>6, <1>7 DEF TypeInv, TypeOK, CountVersion, clientVars, bounds
<1>9. BroadcastsAreOfVersion'
  <2> HIDE DEF l, b
  <2> QED BY <1>1, <1>2, <1>3, <1>5, <1>6 DEF BroadcastsAreOfVersion
<1>10. task'.sender = task.sender /\ task'.kind = task.kind /\ answers' = answers /\ task # None
  <2> HIDE DEF l
  <2> QED BY <1>0, <1>4 DEF CountVersion, Task
<1>11. AnswersAreOwn'
  BY <1>10 DEF TypeInv, AnswersAreOwn
<1> QED BY <1>5, <1>8, <1>9, <1>11 DEF TypeInv

\* A broadcast leaves the rest of them, or an answer to the sender.
LEMMA PublishTypes ==
    ASSUME TypeInv, Publish
    PROVE  TypeInv'
<1>0. task \in Task /\ task.left \in Seq(Event) /\ task.left # <<>> /\ task # None
  BY DEF TypeInv, TypeOK, Publish, Task, BroadcastsAreOfVersion
<1>1. Head(task.left) \in Event
  BY <1>0, TailFacts
<1>2. inbox' \in [Clients -> Seq(Event)]
  BY <1>1, SendType DEF Publish, TypeInv, TypeOK
<1>3. CASE Len(task.left) > 1
  <2>1. task' = [task EXCEPT !.stage = "publishing", !.left = Tail(@)]
        /\ UNCHANGED <<conn, answers>>
    BY <1>3 DEF Publish
  <2>2. task' \in Task /\ task'.left = Tail(task.left)
    BY <2>1, <1>0, TailFacts DEF Task
  <2>3. TypeOK'
    BY <1>2, <2>1, <2>2 DEF TypeInv, TypeOK, Publish, clientVars, bounds
  <2>4. BroadcastsAreOfVersion'
    <3>1. version' = version
      BY DEF Publish
    <3>2. \A i \in 1..Len(Tail(task.left)) : /\ Tail(task.left)[i] = task.left[i + 1]
                                             /\ i + 1 \in 1..Len(task.left)
      BY <1>0, TailFacts
    <3>3. Len(Tail(task.left)) > 0
      BY <1>0, <1>3, TailFacts
    <3>4. \A i \in 1..Len(task.left) : task.left[i].version = version /\ task.left[i].type \in Stamped
      BY DEF TypeInv, BroadcastsAreOfVersion, Publish
    <3> QED BY <2>2, <3>1, <3>2, <3>3, <3>4 DEF BroadcastsAreOfVersion
  <2>5. task'.sender = task.sender /\ task'.kind = task.kind
    BY <2>1, <1>0 DEF Task
  <2>6. AnswersAreOwn'
    BY <1>0, <2>1, <2>5 DEF TypeInv, AnswersAreOwn
  <2> QED BY <2>3, <2>4, <2>6 DEF TypeInv
<1>4. CASE ~(Len(task.left) > 1)
  <2>1. conn' \in [Clients -> Conn] /\ task' = None
    BY <1>4, EndTaskType DEF Publish, TypeInv, TypeOK
  <2>2. [kind |-> task.kind, details |-> task.details] \in [kind : Kinds, details : Details]
    BY <1>0 DEF Task
  <2> PICK a : a = [kind |-> task.kind, details |-> task.details]
    OBVIOUS
  <2>a. answers' = [d \in Clients |-> IF d = task.sender THEN answers[d] \cup {a} ELSE answers[d]]
    BY <1>4 DEF Publish
  <2>b. a \in [kind : Kinds, details : Details] /\ a.kind = task.kind
    BY <2>2
  <2>3. answers' \in [Clients -> SUBSET [kind : Kinds, details : Details]]
    BY <2>a, <2>b DEF TypeInv, TypeOK
  <2>5. AnswersAreOwn'
    BY <1>0, <2>1, <2>a, <2>b DEF TypeInv, AnswersAreOwn
  <2>4. TypeOK'
    BY <1>2, <2>1, <2>3 DEF TypeInv, TypeOK, Publish, clientVars, bounds
  <2> QED BY <2>1, <2>4, <2>5 DEF TypeInv, BroadcastsAreOfVersion
<1> QED BY <1>3, <1>4

\* A failed step and a lost object keep the types.
LEMMA FailureTypes ==
    ASSUME TypeInv, StepFails \/ Crash
    PROVE  TypeInv'
<1>1. Unfinished \subseteq Kinds
  BY DEF Unfinished, TypeInv, TypeOK, Task
<1>2. CASE StepFails
  <2>1. conn' \in [Clients -> Conn] /\ task' = None
    BY <1>2, EndTaskType DEF StepFails, TypeInv, TypeOK
  <2>2. TypeOK'
    BY <1>1, <1>2, <2>1 DEF TypeInv, TypeOK, StepFails, clientVars
  <2> QED BY <1>2, <2>1, <2>2 DEF TypeInv, BroadcastsAreOfVersion, AnswersAreOwn, StepFails
<1>3. CASE Crash
  <2>a. <<>> \in Seq(Event)
    OBVIOUS
  <2>b. conn' \in [Clients -> Conn] /\ inbox' \in [Clients -> Seq(Event)]
    BY <1>3, <2>a, EmptyTypes DEF Crash
  <2>c. /\ task' = None /\ gameRead' = None /\ unannounced' = FALSE
        /\ interrupted' = interrupted \cup Unfinished /\ failures' = failures + 1
        /\ UNCHANGED <<data, version, history, answers, view, lastVersion, sync,
                       requestLost, commits>>
    BY <1>3 DEF Crash, clientVars
  <2>1. TypeOK'
    <3>1. /\ task' \in Task \cup {None} /\ interrupted' \subseteq Kinds
          /\ unannounced' \in BOOLEAN /\ failures' \in Nat
          /\ gameRead' \in [version : Nat, details : Details] \cup {None}
      <4>1. failures \in Nat /\ interrupted \subseteq Kinds
        BY DEF TypeInv, TypeOK
      <4>2. failures' \in Nat
        BY <4>1, <2>c
      <4>3. interrupted' \subseteq Kinds
        BY <4>1, <1>1, <2>c
      <4> QED BY <4>2, <4>3, <2>c
    <3> QED BY <2>b, <2>c, <3>1, Zenon DEF TypeInv, TypeOK
  <2> QED BY <2>1, <1>3 DEF TypeInv, BroadcastsAreOfVersion, AnswersAreOwn, Crash
<1> QED BY <1>2, <1>3

\* The steps that leave the command and the version alone.
LEMMA CommandAsBefore ==
    ASSUME TypeInv, TypeOK', UNCHANGED <<task, version>>,
           \A c \in Clients : answers'[c] \subseteq answers[c]
    PROVE  TypeInv'
BY DEF TypeInv, BroadcastsAreOfVersion, AnswersAreOwn

\* So does the end of a socket.
LEMMA DisconnectTypes ==
    ASSUME TypeInv, NEW c \in Clients, Disconnect(c)
    PROVE  conn' \in [Clients -> Conn] /\ inbox' \in [Clients -> Seq(Event)]
<1>1. conn' \in [Clients -> Conn]
  BY EmptyTypes DEF Disconnect, TypeInv, TypeOK
<1>2. \A d \in Clients : Append(inbox[d], Presence) \in Seq(Event)
  BY PresenceType, AppendFacts DEF TypeInv, TypeOK
<1>3. <<>> \in Seq(Event)
  OBVIOUS
<1> HIDE DEF Presence
<1> QED BY <1>1, <1>2, <1>3 DEF Disconnect, TypeInv, TypeOK

\* So do the steps of a handshake.
LEMMA SocketTypes ==
    ASSUME TypeInv, NEW c \in Clients,
           Connect(c) \/ ReadVersion(c) \/ LoadGame(c) \/ Accept(c) \/ Greet(c)
              \/ Upgrade(c) \/ Break(c) \/ Open(c)
    PROVE  TypeInv'
<1>0. TypeOK /\ version \in Nat /\ data \in Details /\ conn \in [Clients -> Conn]
      /\ conn[c] \in Conn
  BY DEF TypeInv, TypeOK
<1>1. CASE Connect(c)
  <2>1. conn' \in [Clients -> Conn]
    BY <1>0, <1>1 DEF Connect, StepBehindTask, Conn, Handshakes
  <2> QED BY <1>0, <1>1, <2>1, CommandAsBefore DEF TypeOK, Connect, serverVars, clientVars, bounds
<1>2. CASE ReadVersion(c)
  <2>1. conn' \in [Clients -> Conn]
    BY <1>0, <1>2 DEF ReadVersion, Conn, Handshakes
  <2> QED BY <1>0, <1>2, <2>1, CommandAsBefore DEF TypeOK, ReadVersion, serverVars, clientVars, bounds
<1>3. CASE LoadGame(c)
  <2>1. gameRead' \in [version : Nat, details : Details]
    BY <1>0, <1>3 DEF LoadGame, Joinable, TypeOK, Conn
  <2>2. conn' \in [Clients -> Conn]
    BY <1>0, <1>3, <2>1 DEF LoadGame, Conn, Handshakes
  <2> QED BY <1>0, <1>3, <2>1, <2>2, CommandAsBefore DEF TypeOK, LoadGame, serverVars, clientVars, bounds
<1>4. CASE Accept(c)
  <2>1. conn' \in [Clients -> Conn]
    BY <1>0, <1>4 DEF Accept, StepBehindTask, Conn, Handshakes
  <2>2. gameRead' \in [version : Nat, details : Details] \cup {None}
    BY <1>0, <1>4 DEF Accept, TypeOK
  <2> QED BY <1>0, <1>4, <2>1, <2>2, CommandAsBefore DEF TypeOK, Accept, serverVars, clientVars, bounds
<1>5. CASE Greet(c)
  <2>1. [NoConn EXCEPT !.stage = "greeted"] \in Conn
    BY EmptyTypes DEF Conn, Handshakes
  <2>2. conn' \in [Clients -> Conn]
    BY <1>0, <1>5, <2>1 DEF Greet
  <2>3. Message("GAME_SNAPSHOT", conn[c].version, conn[c].details) \in Event
    BY <1>0, MessageType DEF Conn
  <2>4. inbox' \in [Clients -> Seq(Event)]
    BY <1>0, <1>5, <2>3, SendType DEF Greet, TypeOK
  <2> QED BY <1>0, <1>5, <2>2, <2>4, CommandAsBefore DEF TypeOK, Greet, serverVars, clientVars, bounds
<1>6. CASE Upgrade(c)
  <2>1. inbox' \in [Clients -> Seq(Event)]
    BY <1>0, <1>6, PresenceType, SendType DEF Upgrade, TypeOK
  <2>2. conn' \in [Clients -> Conn]
    BY <1>0, <1>6 DEF Upgrade, Step, Conn, Handshakes
  <2> QED BY <1>0, <1>6, <2>1, <2>2, CommandAsBefore DEF TypeOK, Upgrade, serverVars, clientVars, bounds
<1>7. CASE Break(c)
  BY <1>0, <1>7, DisconnectTypes, CommandAsBefore DEF TypeOK, Break, serverVars, clientVars
<1>8. CASE Open(c)
  <2>1. conn' \in [Clients -> Conn]
    BY <1>0, <1>8 DEF Open, Step, Conn, Handshakes
  <2>2. /\ sync' \in [Clients -> Sync]
        /\ \A d \in Clients : sync'[d].pending => sync'[d].stage # "idle"
    BY <1>0, <1>8, RequestedType DEF Open, TypeOK
  <2> QED BY <1>0, <1>8, <2>1, <2>2, CommandAsBefore DEF TypeOK, Open, serverVars, bounds
<1> QED BY <1>1, <1>2, <1>3, <1>4, <1>5, <1>6, <1>7, <1>8

\* So do those of a resync round.
LEMMA SyncTypes ==
    ASSUME TypeInv, NEW c \in Clients,
           SyncStep(c) \/ Trigger(c) \/ FetchFails(c)
    PROVE  TypeInv'
<1>0. TypeOK /\ version \in Nat /\ data \in Details /\ sync \in [Clients -> Sync]
      /\ sync[c] \in Sync /\ (\A d \in Clients : sync[d].pending => sync[d].stage # "idle")
      /\ view \in [Clients -> Details] /\ lastVersion \in [Clients -> Nat]
  BY DEF TypeInv, TypeOK
<1>1. CASE TellVersion(c)
  <2>1. /\ sync' \in [Clients -> Sync]
        /\ \A d \in Clients : sync'[d].pending => sync'[d].stage # "idle"
    BY <1>0, <1>1 DEF TellVersion, Sync
  <2> QED BY <1>0, <1>1, <2>1, CommandAsBefore DEF TypeOK, TellVersion, serverVars, bounds
<1>2. CASE HearVersion(c)
  <2>1. /\ sync' \in [Clients -> Sync]
        /\ \A d \in Clients : sync'[d].pending => sync'[d].stage # "idle"
    <3>1. CASE sync' = [sync EXCEPT ![c] = RoundOver(sync[c])]
      BY <3>1, <1>0, RequestedType
    <3>2. CASE sync' = [sync EXCEPT ![c].stage = "reading"]
      BY <3>2, <1>0 DEF Sync
    <3> QED BY <3>1, <3>2, <1>2 DEF HearVersion
  <2>2. conn' \in [Clients -> Conn] /\ inbox' \in [Clients -> Seq(Event)]
    BY <1>0, <1>2, DisconnectTypes DEF HearVersion, TypeOK
  <2> QED BY <1>0, <1>2, <2>1, <2>2, CommandAsBefore DEF TypeOK, HearVersion, serverVars, bounds
<1>3. CASE ReadGame(c)
  <2>1. /\ sync' \in [Clients -> Sync]
        /\ \A d \in Clients : sync'[d].pending => sync'[d].stage # "idle"
    BY <1>0, <1>3 DEF ReadGame, Sync
  <2> QED BY <1>0, <1>3, <2>1, CommandAsBefore DEF TypeOK, ReadGame, serverVars, bounds
<1>4. CASE ApplyGame(c)
  <2>1. /\ sync' \in [Clients -> Sync]
        /\ \A d \in Clients : sync'[d].pending => sync'[d].stage # "idle"
    BY <1>0, <1>4, RequestedType DEF ApplyGame
  <2>2. view' \in [Clients -> Details] /\ lastVersion' \in [Clients -> Nat]
    BY <1>0, <1>4 DEF ApplyGame, Sync
  <2> QED BY <1>0, <1>4, <2>1, <2>2, CommandAsBefore DEF TypeOK, ApplyGame, serverVars, bounds
<1>5. CASE Trigger(c)
  <2>1. /\ sync' \in [Clients -> Sync]
        /\ \A d \in Clients : sync'[d].pending => sync'[d].stage # "idle"
    BY <1>0, <1>5, RequestedType DEF Trigger
  <2> QED BY <1>0, <1>5, <2>1, CommandAsBefore DEF TypeOK, Trigger, serverVars, bounds
<1>6. CASE FetchFails(c)
  <2>1. /\ sync' \in [Clients -> Sync]
        /\ \A d \in Clients : sync'[d].pending => sync'[d].stage # "idle"
    BY <1>0, <1>6, RequestedType DEF FetchFails
  <2> QED BY <1>0, <1>6, <2>1, CommandAsBefore DEF TypeOK, FetchFails, serverVars
<1> QED BY <1>1, <1>2, <1>3, <1>4, <1>5, <1>6 DEF SyncStep

\* So does what arrives at a client: it applies only kinds it can apply.
LEMMA ArrivalTypes ==
    ASSUME TypeInv, NEW c \in Clients, Deliver(c) \/ HearAnswer(c)
    PROVE  TypeInv'
<1>0. TypeOK /\ sync \in [Clients -> Sync] /\ inbox \in [Clients -> Seq(Event)]
      /\ (\A d \in Clients : sync[d].pending => sync[d].stage # "idle")
      /\ view \in [Clients -> Details] /\ lastVersion \in [Clients -> Nat]
  BY DEF TypeInv, TypeOK
<1>1. CASE Deliver(c)
  <2> PICK m : m = Head(inbox[c])
    OBVIOUS
  <2>1. m \in Event /\ Tail(inbox[c]) \in Seq(Event)
    BY <1>0, <1>1, TailFacts DEF Deliver
  <2>2. inbox' \in [Clients -> Seq(Event)]
    BY <1>0, <1>1, <2>1 DEF Deliver
  <2>3. /\ sync' \in [Clients -> Sync]
        /\ \A d \in Clients : sync'[d].pending => sync'[d].stage # "idle"
    <3>1. sync' = sync \/ sync' = [sync EXCEPT ![c] = Requested(sync[c])]
      BY <1>1 DEF Deliver
    <3> QED BY <3>1, <1>0, RequestedType
  <2>4. lastVersion' \in [Clients -> Nat]
    <3>1. lastVersion' = lastVersion \/ lastVersion' = [lastVersion EXCEPT ![c] = m.version]
      BY <1>1 DEF Deliver
    <3> QED BY <3>1, <1>0, <2>1 DEF Event
  <2>5. view' \in [Clients -> Details]
    <3>1. \/ view' = view
          \/ view' = [view EXCEPT ![c] = m.details]
          \/ /\ view' = [view EXCEPT ![c] = Applied(view[c], m.type, m.details)]
             /\ m.type \in {"GAME_COMMITTED", "AUCTION_UPDATED"}
      BY <1>1 DEF Deliver
    <3>2. m.details \in Details /\ view[c] \in Details
      BY <1>0, <2>1 DEF Event
    <3>3. CASE view' = view \/ view' = [view EXCEPT ![c] = m.details]
      BY <3>2, <3>3, <1>0
    <3>4. CASE /\ view' = [view EXCEPT ![c] = Applied(view[c], m.type, m.details)]
               /\ m.type \in {"GAME_COMMITTED", "AUCTION_UPDATED"}
      <4>1. Applied(view[c], m.type, m.details) \in Details
        BY <3>2, <3>4, AppliedType
      <4> QED BY <3>4, <4>1, <1>0
    <3> QED BY <3>1, <3>3, <3>4
  <2> QED BY <1>0, <1>1, <2>2, <2>3, <2>4, <2>5, CommandAsBefore DEF TypeOK, Deliver, serverVars, bounds
<1>2. CASE HearAnswer(c)
  <2>1. PICK a \in answers[c] :
          /\ answers' = [answers EXCEPT ![c] = @ \ {a}]
          /\ view' = [view EXCEPT ![c] = Applied(view[c], a.kind, a.details)]
    BY <1>2 DEF HearAnswer
  <2>2. a.kind \in {"PAY", "AUCTION"} /\ a.details \in Details /\ view[c] \in Details
    BY <1>0 DEF TypeOK, TypeInv, AnswersAreOwn, OwnAnswer
  <2>3. Applied(view[c], a.kind, a.details) \in Details
    BY AppliedType, <2>2
  <2>4. /\ view' \in [Clients -> Details]
        /\ answers' \in [Clients -> SUBSET [kind : Kinds, details : Details]]
    BY <1>0, <2>1, <2>3 DEF TypeOK
  <2>5. \A d \in Clients : answers'[d] \subseteq answers[d]
    BY <1>0, <2>1 DEF TypeOK
  <2> QED BY <1>0, <1>2, <2>4, <2>5, CommandAsBefore DEF TypeOK, HearAnswer, serverVars, bounds
<1> QED BY <1>1, <1>2

\* So does the end of a shared read.
LEMMA GameReadEndsTypes ==
    ASSUME TypeInv, GameReadEnds
    PROVE  TypeInv'
BY CommandAsBefore DEF TypeInv, TypeOK, GameReadEnds, serverVars, clientVars, bounds

\* Every step keeps the types.
LEMMA TypesKept == TypeInv /\ [Next]_vars => TypeInv'
<1> SUFFICES ASSUME TypeInv, [Next]_vars PROVE TypeInv'
  OBVIOUS
<1>1. CASE UNCHANGED vars
  BY <1>1, CommandAsBefore DEF TypeInv, TypeOK, vars, serverVars, clientVars, bounds
<1>2. ASSUME NEW kind \in Kinds, NEW sender \in Senders[kind], Commit(kind, sender)
      PROVE  TypeInv'
  BY <1>2, CommitTypes
<1>3. ASSUME NEW kind \in Kinds, Recover(kind) PROVE TypeInv'
  BY <1>3, RecoverTypes
<1>4. CASE TaskStep \/ StepFails \/ Crash \/ GameReadEnds
  BY <1>4, CountVersionTypes, PublishTypes, FailureTypes, GameReadEndsTypes DEF TaskStep
<1>5. ASSUME NEW c \in Clients, SocketStep(c) \/ Break(c) PROVE TypeInv'
  BY <1>5, SocketTypes, ArrivalTypes DEF SocketStep
<1>6. ASSUME NEW c \in Clients,
             SyncStep(c) \/ Trigger(c) \/ FetchFails(c) \/ HearAnswer(c)
      PROVE  TypeInv'
  BY <1>6, SyncTypes, ArrivalTypes
<1> QED BY <1>1, <1>2, <1>3, <1>4, <1>5, <1>6 DEF Next

\* A new game has them.
LEMMA InitTypes == Init => TypeInv
<1> SUFFICES ASSUME Init PROVE TypeInv
  OBVIOUS
<1>1. conn \in [Clients -> Conn] /\ sync \in [Clients -> Sync] /\ data \in Details
  BY EmptyTypes DEF Init
<1>2. <<>> \in Seq(Event) /\ <<>> \in Seq(Details) /\ Len(<<>>) = 0
  OBVIOUS
<1>3. /\ inbox \in [Clients -> Seq(Event)]
      /\ history \in Seq(Details) /\ Len(history) = version
  BY <1>2 DEF Init
<1>4. /\ view \in [Clients -> Details]
      /\ answers \in [Clients -> SUBSET [kind : Kinds, details : Details]]
  BY EmptyTypes DEF Init
<1>5. \A c \in Clients : sync[c].pending => sync[c].stage # "idle"
  BY DEF Init, NoSync
<1>6. /\ version = 0 /\ task = None /\ interrupted = {} /\ gameRead = None
      /\ unannounced = FALSE /\ requestLost = FALSE /\ commits = 0 /\ failures = 0
      /\ lastVersion \in [Clients -> Nat]
  BY DEF Init
<1>7. TypeOK
  <2>1. /\ task \in Task \cup {None} /\ interrupted \subseteq Kinds
        /\ unannounced \in BOOLEAN /\ requestLost \in BOOLEAN
        /\ gameRead \in [version : Nat, details : Details] \cup {None}
        /\ version \in Nat /\ commits \in Nat /\ failures \in Nat
    BY <1>6
  <2> QED BY <1>1, <1>3, <1>4, <1>5, <1>6, <2>1, Zenon DEF TypeOK
<1> QED BY <1>7 DEF Init, TypeInv, BroadcastsAreOfVersion, AnswersAreOwn

\* The types hold for any clients, commands and failures: there is always a
\* message behind a counted command (publish, game-session.ts), an answer is always
\* of a kind its client applies, and a round is asked for again only while one is
\* running (SyncState.pending, useGameSync.ts).
THEOREM SyncTypesHold == Spec => []TypeOK
<1>1. Spec => []TypeInv
  BY InitTypes, TypesKept, PTL DEF Spec
<1>2. TypeInv => TypeOK
  BY DEF TypeInv
<1> QED BY <1>1, <1>2, PTL

-----------------------------------------------------------------------------
(* The news *)

\* Types in the form the steps of this section use them.
LEMMA ClientTypes ==
    ASSUME TypeInv, NEW c \in Clients
    PROVE  /\ version \in Nat /\ lastVersion[c] \in Nat
           /\ sync[c] \in Sync /\ sync[c].version \in Nat
           /\ conn[c] \in Conn /\ conn[c].version \in Nat
           /\ inbox[c] \in Seq(Event) /\ Len(inbox[c]) \in Nat
BY DEF TypeInv, TypeOK, Sync, Conn

\* Queues that stay within a version.
LEMMA WithinFacts ==
    ASSUME NEW q \in Seq(Event), NEW m \in Event, NEW v \in Nat, Within(q, v)
    PROVE  /\ m.version <= v => Within(Append(q, m), v)
           /\ q # <<>> => Head(q).version <= v /\ Within(Tail(q), v)
           /\ \A w \in Nat : v <= w => Within(q, w)
<1>1. ASSUME m.version <= v PROVE Within(Append(q, m), v)
  BY <1>1, AppendFacts DEF Within
<1>2. ASSUME q # <<>> PROVE Head(q).version <= v /\ Within(Tail(q), v)
  <2>1. \A i \in 1..Len(Tail(q)) : i + 1 \in 1..Len(q)
    BY <1>2, TailFacts
  <2> QED BY <1>2, <2>1, TailFacts DEF Within
<1>3. ASSUME NEW w \in Nat, v <= w PROVE Within(q, w)
  <2>1. ASSUME NEW i \in 1..Len(q) PROVE q[i].version \in Nat
    <3>1. q[i] \in Event
      OBVIOUS
    <3> QED BY <3>1 DEF Event
  <2> QED BY <1>3, <2>1 DEF Within
<1> QED BY <1>1, <1>2, <1>3

\* A step that does not touch a client's socket, queue, version and round.
LEMMA NewsAsBefore ==
    ASSUME NEW c \in Clients, Behind(c), NewsComes(c),
           version' = version, requestLost' = requestLost,
           Announced' => Announced,
           lastVersion'[c] = lastVersion[c], sync'[c] = sync[c],
           inbox'[c] = inbox[c],
           conn'[c].stage = conn[c].stage, conn'[c].version = conn[c].version
    PROVE  Behind(c)' /\ NewsComes(c)'
BY DEF Behind, NewsComes, WillHear, NoSnapshot, KnowsOrAsks, Within

\* A step that sends the client the latest version.
LEMMA NewsSent ==
    ASSUME TypeInv, NEW c \in Clients, Behind(c),
           NEW m \in Event, m.type \in Stamped, m.version = version,
           version' = version, inbox'[c] = Append(inbox[c], m),
           lastVersion'[c] = lastVersion[c], sync'[c] = sync[c],
           conn'[c].version = conn[c].version
    PROVE  Behind(c)' /\ NewsComes(c)'
<1>1. Within(inbox[c], version) /\ m.version <= version
  BY ClientTypes DEF Behind
<1>2. Within(inbox'[c], version')
  BY <1>1, WithinFacts, ClientTypes
<1>3. Behind(c)'
  BY <1>2 DEF Behind
<1>4. WillHear(c)'
  BY ClientTypes, AppendFacts DEF WillHear
<1> QED BY <1>3, <1>4 DEF NewsComes

\* A step after which the client has no socket that it reads from.
LEMMA NoSocketNoNews ==
    ASSUME NEW c \in Clients, conn'[c].stage \notin {"upgraded", "open"}
    PROVE  NewsComes(c)'
BY DEF NewsComes

\* A command that has not been counted is no news.
LEMMA CommandNews ==
    ASSUME TypeInv, NewsInv, NEW kind \in Kinds,
           (\E sender \in Senders[kind] : Commit(kind, sender)) \/ Recover(kind)
    PROVE  NewsInv'
<1> SUFFICES ASSUME NEW c \in Clients PROVE Behind(c)' /\ NewsComes(c)'
  BY DEF NewsInv
<1>1. /\ version' = version /\ requestLost' = requestLost
      /\ unannounced' = unannounced /\ task = None
      /\ lastVersion' = lastVersion /\ sync' = sync /\ inbox' = inbox /\ conn' = conn
  BY DEF Commit, Recover, clientVars, bounds
<1>2. Announced' => Announced
  BY <1>1 DEF Announced
<1> QED BY <1>1, <1>2, NewsAsBefore DEF NewsInv

\* A counted version is on its way to its broadcast.
LEMMA CountVersionNews ==
    ASSUME TypeInv, NewsInv, CountVersion
    PROVE  NewsInv'
<1> SUFFICES ASSUME NEW c \in Clients PROVE Behind(c)' /\ NewsComes(c)'
  BY DEF NewsInv
<1>1. /\ version' = version + 1 /\ task' # None /\ task'.stage = "counted"
      /\ lastVersion' = lastVersion /\ sync' = sync /\ inbox' = inbox /\ conn' = conn
  <2>1. TypeInv'
    BY CountVersionTypes
  <2>2. task \in Task /\ task # None
    BY DEF CountVersion, TypeInv, TypeOK
  <2>3. task'.stage = "counted"
    BY <2>2 DEF CountVersion, Task
  <2>4. task' # None
    <3>1. task' \in Task
      BY CountVersionTypes
    <3> QED BY <3>1, SyncSlotAssumption
  <2> QED BY <2>3, <2>4 DEF CountVersion, clientVars, bounds
<1>2. ~Announced'
  BY <1>1 DEF Announced
<1>3. Within(inbox[c], version) => Within(inbox[c], version + 1)
  <2>1. version <= version + 1 /\ version + 1 \in Nat
    BY ClientTypes
  <2> QED BY <2>1, WithinFacts, ClientTypes, PresenceType DEF TypeInv
<1>4. Behind(c)'
  BY <1>1, <1>3, ClientTypes DEF Behind, NewsInv
<1> QED BY <1>2, <1>4 DEF NewsComes

\* The broadcast reaches every attached socket.
LEMMA PublishNews ==
    ASSUME TypeInv, NewsInv, Publish
    PROVE  NewsInv'
<1> SUFFICES ASSUME NEW c \in Clients PROVE Behind(c)' /\ NewsComes(c)'
  BY DEF NewsInv
<1> PICK m : m = Head(task.left)
  OBVIOUS
<1>1. m \in Event /\ m.type \in Stamped /\ m.version = version
  <2>1. task \in Task /\ task.left \in Seq(Event) /\ Len(task.left) > 0
        /\ \A i \in 1..Len(task.left) :
              task.left[i].version = version /\ task.left[i].type \in Stamped
    BY DEF TypeInv, TypeOK, Publish, Task, BroadcastsAreOfVersion
  <2>2. task.left # <<>>
    BY <2>1
  <2>3. m = task.left[1] /\ m \in Event /\ 1 \in 1..Len(task.left)
    BY <2>1, <2>2, TailFacts
  <2> QED BY <2>1, <2>3
<1>2. /\ version' = version /\ lastVersion' = lastVersion /\ sync' = sync
      /\ SendTo(Attached, m)
  BY DEF Publish, clientVars
<1>3. conn'[c].stage = conn[c].stage /\ conn'[c].version = conn[c].version
  <2>1. conn' = conn \/ conn' = [d \in Clients |-> [conn[d] EXCEPT !.waits = FALSE]]
    BY DEF Publish, EndTask
  <2> QED BY <2>1, ClientTypes DEF Conn
<1>4. CASE c \in Attached
  <2>1. inbox'[c] = Append(inbox[c], m)
    BY <1>2, <1>4 DEF SendTo
  <2> QED BY <2>1, <1>1, <1>2, <1>3, NewsSent DEF NewsInv
<1>5. CASE c \notin Attached
  <2>1. conn'[c].stage \notin {"upgraded", "open"}
    BY <1>3, <1>5 DEF Attached
  <2>2. inbox'[c] = inbox[c]
    BY <1>2, <1>5 DEF SendTo
  <2>3. Behind(c)'
    BY <2>2, <1>2, <1>3 DEF Behind, NewsInv
  <2> QED BY <2>1, <2>3, NoSocketNoNews
<1> QED BY <1>4, <1>5

\* A failed step leaves its version unannounced, a lost object no sockets.
LEMMA FailureNews ==
    ASSUME TypeInv, NewsInv, StepFails \/ Crash \/ GameReadEnds
    PROVE  NewsInv'
<1> SUFFICES ASSUME NEW c \in Clients PROVE Behind(c)' /\ NewsComes(c)'
  BY DEF NewsInv
<1>1. CASE StepFails
  <2>1. conn'[c].stage = conn[c].stage /\ conn'[c].version = conn[c].version
    BY <1>1, ClientTypes DEF StepFails, EndTask, Conn
  <2>2. Announced' => Announced
    BY <1>1 DEF StepFails, EndTask, Announced
  <2> QED BY <1>1, <2>1, <2>2, NewsAsBefore DEF NewsInv, StepFails, clientVars
<1>2. CASE Crash
  <2>1. conn'[c] = NoConn /\ inbox'[c] = <<>> /\ version' = version
        /\ lastVersion' = lastVersion /\ sync' = sync
    BY <1>2 DEF Crash, clientVars
  <2>2. conn'[c].stage = "idle" /\ conn'[c].version = 0
    BY <2>1 DEF NoConn
  <2>3. Behind(c)'
    BY <2>1, <2>2, ClientTypes DEF Behind, NewsInv, Within
  <2> QED BY <2>2, <2>3, NoSocketNoNews
<1>3. CASE GameReadEnds
  <2>1. Announced' => Announced
    BY <1>3 DEF GameReadEnds, serverVars, Announced
  <2> QED BY <1>3, <2>1, NewsAsBefore DEF NewsInv, GameReadEnds, serverVars, clientVars, bounds
<1> QED BY <1>1, <1>2, <1>3

\* A handshake that has not been greeted.
LEMMA HandshakeNews ==
    ASSUME TypeInv, NewsInv, NEW e \in Clients,
           Connect(e) \/ ReadVersion(e) \/ LoadGame(e) \/ Accept(e) \/ Greet(e)
    PROVE  NewsInv'
<1> SUFFICES ASSUME NEW c \in Clients PROVE Behind(c)' /\ NewsComes(c)'
  BY DEF NewsInv
<1>1. /\ version' = version /\ lastVersion' = lastVersion /\ sync' = sync
      /\ requestLost' = requestLost /\ task' = task /\ unannounced' = unannounced
  BY DEF Connect, ReadVersion, LoadGame, Accept, Greet, serverVars, clientVars, bounds
<1>2. Announced' => Announced
  BY <1>1 DEF Announced
<1>3. conn \in [Clients -> Conn] /\ inbox \in [Clients -> Seq(Event)]
  BY DEF TypeInv, TypeOK
<1>4. /\ c # e => conn'[c] = conn[c] /\ inbox'[c] = inbox[c]
      /\ conn'[e].stage \in {"requested", "reading", "loaded", "accepted", "greeted"}
  BY <1>3 DEF Connect, ReadVersion, LoadGame, Accept, Greet, Step, StepBehindTask,
              SendTo, NoConn, Conn
<1>5. CASE c # e
  BY <1>1, <1>2, <1>4, <1>5, NewsAsBefore DEF NewsInv
<1>6. CASE c = e
  <2>1. conn'[c].version \in {conn[c].version, version, 0}
    BY <1>3, <1>6 DEF Connect, ReadVersion, LoadGame, Accept, Greet, Step,
                      StepBehindTask, NoConn, Conn
  <2>2. Within(inbox'[c], version)
    <3>1. CASE inbox' = inbox
      BY <3>1 DEF NewsInv, Behind
    <3>2. CASE Greet(e)
      <4> PICK m : m = Message("GAME_SNAPSHOT", conn[e].version, conn[e].details)
        OBVIOUS
      <4>1. inbox'[c] = Append(inbox[c], m)
        BY <1>6, <3>2 DEF Greet, SendTo
      <4>2. m \in Event /\ m.version = conn[c].version
        BY <1>3, <1>6, MessageType DEF Conn
      <4> QED BY <4>1, <4>2, WithinFacts, ClientTypes DEF NewsInv, Behind
    <3> QED BY <3>1, <3>2 DEF Connect, ReadVersion, LoadGame, Accept
  <2>3. Behind(c)'
    BY <1>1, <2>1, <2>2, ClientTypes DEF Behind, NewsInv
  <2> QED BY <2>3, <1>4, <1>6, NoSocketNoNews
<1> QED BY <1>5, <1>6

\* The newcomer hears of the latest version, after its snapshot.
LEMMA UpgradeNews ==
    ASSUME TypeInv, NewsInv, NEW e \in Clients, Upgrade(e)
    PROVE  NewsInv'
<1> SUFFICES ASSUME NEW c \in Clients PROVE Behind(c)' /\ NewsComes(c)'
  BY DEF NewsInv
<1> PICK m : m = Presence
  OBVIOUS
<1>1. m \in Event /\ m.type \in Stamped /\ m.version = version
  BY PresenceType DEF TypeInv
<1>2. /\ version' = version /\ lastVersion' = lastVersion /\ sync' = sync
      /\ SendTo(Attached, m)
  BY DEF Upgrade, serverVars, clientVars
<1>3. /\ conn'[c].version = conn[c].version
      /\ c \notin Attached => conn'[c].stage \notin {"upgraded", "open"}
  BY ClientTypes DEF Upgrade, Step, Conn, Attached, TypeInv, TypeOK
<1>4. CASE c \in Attached
  <2>1. inbox'[c] = Append(inbox[c], m)
    BY <1>2, <1>4 DEF SendTo
  <2> QED BY <2>1, <1>1, <1>2, <1>3, NewsSent DEF NewsInv
<1>5. CASE c \notin Attached
  <2>1. inbox'[c] = inbox[c]
    BY <1>2, <1>5 DEF SendTo
  <2>2. Behind(c)'
    BY <2>1, <1>2, <1>3 DEF Behind, NewsInv
  <2> QED BY <1>3, <1>5, <2>2, NoSocketNoNews
<1> QED BY <1>4, <1>5

\* A socket ends: its client has to come back, the others hear of it.
LEMMA DisconnectNews ==
    ASSUME TypeInv, NEW e \in Clients, Disconnect(e), NEW c \in Clients,
           Behind(c), NewsComes(c),
           UNCHANGED <<version, task, unannounced, lastVersion>>,
           sync'[c].version <= version, c # e => sync'[c] = sync[c] /\ requestLost' = requestLost
    PROVE  Behind(c)' /\ NewsComes(c)'
<1>1. CASE c = e
  <2>1. conn'[c].stage = "idle" /\ conn'[c].version = 0 /\ inbox'[c] = <<>>
    BY <1>1 DEF Disconnect, NoConn, TypeInv, TypeOK
  <2>2. Behind(c)'
    BY <2>1, ClientTypes DEF Behind, Within
  <2> QED BY <2>1, <2>2, NoSocketNoNews
<1>2. CASE c # e
  <2>1. conn'[c] = conn[c]
    BY <1>2 DEF Disconnect, TypeInv, TypeOK
  <2>2. CASE {e, c} \subseteq Attached
    <3> PICK m : m = Presence
      OBVIOUS
    <3>1. m \in Event /\ m.type \in Stamped /\ m.version = version
      BY PresenceType DEF TypeInv
    <3>2. inbox'[c] = Append(inbox[c], m)
      BY <1>2, <2>2 DEF Disconnect
    <3>3. /\ version' = version /\ lastVersion'[c] = lastVersion[c] /\ sync'[c] = sync[c]
          /\ conn'[c].version = conn[c].version
      BY <1>2, <2>1
    <3> HIDE DEF Disconnect
    <3> QED BY <3>1, <3>2, <3>3, NewsSent
  <2>3. CASE ~({e, c} \subseteq Attached)
    <3>1. inbox'[c] = inbox[c]
      BY <1>2, <2>3 DEF Disconnect
    <3>2. Announced' => Announced
      BY DEF Announced
    <3> QED BY <1>2, <2>1, <3>1, <3>2, NewsAsBefore
  <2> QED BY <2>2, <2>3
<1> QED BY <1>1, <1>2

\* A broken socket is replaced, and the others hear of it.
LEMMA BreakNews ==
    ASSUME TypeInv, NewsInv, NEW e \in Clients, Break(e)
    PROVE  NewsInv'
<1> SUFFICES ASSUME NEW c \in Clients PROVE Behind(c)' /\ NewsComes(c)'
  BY DEF NewsInv
<1>1. /\ Disconnect(e) /\ sync' = sync /\ requestLost' = requestLost
      /\ UNCHANGED <<version, task, unannounced, lastVersion>>
  BY DEF Break, serverVars, clientVars
<1>2. Behind(c) /\ NewsComes(c) /\ sync'[c].version <= version
  BY <1>1 DEF NewsInv, Behind
<1> QED BY <1>1, <1>2, DisconnectNews

\* What an ended round or a request for one leaves to be done.
LEMMA RoundFacts ==
    ASSUME NEW s \in Sync
    PROVE  /\ Requested(s).stage = "asking" \/ Requested(s).pending
           /\ Requested(s).version = s.version
           /\ s.stage = "asking" => Requested(s).stage = "asking"
           /\ RoundOver(s).version = 0 /\ RoundOver(s).pending = FALSE
           /\ s.pending => RoundOver(s).stage = "asking"
           /\ NoSync.version = 0
BY DEF Sync, Requested, RoundOver, NoSync

\* Steps of a round of one client, and of nobody's queue.
LEMMA OpenNews ==
    ASSUME TypeInv, NewsInv, NEW e \in Clients, Open(e) \/ Trigger(e)
    PROVE  NewsInv'
<1> SUFFICES ASSUME NEW c \in Clients PROVE Behind(c)' /\ NewsComes(c)'
  BY DEF NewsInv
<1>0. sync \in [Clients -> Sync] /\ conn \in [Clients -> Conn] /\ sync[e] \in Sync
  BY DEF TypeInv, TypeOK
<1>1. /\ version' = version /\ lastVersion' = lastVersion /\ inbox' = inbox
      /\ requestLost' = requestLost /\ task' = task /\ unannounced' = unannounced
      /\ sync' = [sync EXCEPT ![e] = Requested(sync[e])]
  BY DEF Open, Trigger, serverVars, bounds
<1>2. Announced' => Announced
  BY <1>1 DEF Announced
<1>3. CASE c # e
  <2>1. sync'[c] = sync[c] /\ conn'[c] = conn[c]
    BY <1>0, <1>1, <1>3 DEF Open, Trigger, Step
  <2> QED BY <1>1, <1>2, <2>1, NewsAsBefore DEF NewsInv
<1>4. CASE c = e
  <2>1. sync'[c] = Requested(sync[c])
    BY <1>0, <1>1, <1>4
  <2>2. /\ conn'[c].version = conn[c].version
        /\ \/ conn'[c].stage = conn[c].stage
           \/ conn'[c].stage = "open" /\ conn[c].stage = "upgraded"
    BY <1>0, <1>4 DEF Open, Trigger, Step, Conn
  <2>3. Behind(c)'
    BY <1>0, <1>1, <1>4, <2>1, <2>2, RoundFacts DEF Behind, NewsInv
  <2>4. KnowsOrAsks(c)'
    BY <1>0, <1>4, <2>1, RoundFacts DEF KnowsOrAsks
  <2>5. WillHear(c)' = WillHear(c) /\ NoSnapshot(c)' = NoSnapshot(c)
    BY <1>1 DEF WillHear, NoSnapshot
  <2> QED BY <1>1, <1>2, <2>2, <2>3, <2>4, <2>5 DEF NewsComes, NewsInv
<1> QED BY <1>3, <1>4

\* A round takes the client to the version it was told, or was asked for again.
LEMMA SyncStepNews ==
    ASSUME TypeInv, NewsInv, NEW e \in Clients, SyncStep(e) \/ FetchFails(e)
    PROVE  NewsInv'
<1> SUFFICES ASSUME NEW c \in Clients PROVE Behind(c)' /\ NewsComes(c)'
  BY DEF NewsInv
<1>0. sync \in [Clients -> Sync] /\ conn \in [Clients -> Conn] /\ sync[e] \in Sync
      /\ lastVersion \in [Clients -> Nat] /\ Behind(c) /\ NewsComes(c)
      /\ version \in Nat /\ lastVersion[c] \in Nat /\ sync[c].version \in Nat
  BY ClientTypes DEF TypeInv, TypeOK, NewsInv
<1>1. version' = version /\ task' = task /\ unannounced' = unannounced
  BY DEF SyncStep, TellVersion, HearVersion, ReadGame, ApplyGame, FetchFails, serverVars
<1>2. Announced' => Announced
  BY <1>1 DEF Announced
<1>a. /\ sync[c] \in Sync /\ RoundOver(sync[c]).version = 0 /\ NoSync.version = 0
      /\ RoundOver(sync[e]).version = 0 /\ 0 <= version
      /\ sync[c].pending => RoundOver(sync[c]).stage = "asking"
  <2>1. sync[c] \in Sync /\ sync[e] \in Sync /\ 0 <= version
    BY <1>0
  <2>2. RoundOver(sync[c]).version = 0 /\ RoundOver(sync[e]).version = 0
    BY <2>1, RoundFacts
  <2>3. sync[c].pending => RoundOver(sync[c]).stage = "asking"
    BY <2>1, RoundFacts
  <2>4. NoSync.version = 0
    BY DEF NoSync
  <2> QED BY <2>1, <2>2, <2>3, <2>4
\* What is left to show of a round that leaves the sockets alone.
<1>3. ASSUME conn' = conn, inbox' = inbox, c = e,
             Behind(c)', requestLost' = requestLost, KnowsOrAsks(c) => KnowsOrAsks(c)'
      PROVE  Behind(c)' /\ NewsComes(c)'
  <2>1. WillHear(c)' = WillHear(c) /\ NoSnapshot(c)' = NoSnapshot(c)
    BY <1>1, <1>3 DEF WillHear, NoSnapshot
  <2> QED BY <1>0, <1>1, <1>2, <1>3, <2>1 DEF NewsComes
<1>4. CASE HearVersion(e) /\ Disconnect(e)
  <2>1. /\ sync' = [sync EXCEPT ![e] = RoundOver(sync[e])] \/ sync' = [sync EXCEPT ![e].stage = "reading"]
        /\ requestLost' = requestLost /\ lastVersion' = lastVersion
    BY <1>4 DEF HearVersion, bounds
  <2>2. sync'[c].version <= version /\ (c # e => sync'[c] = sync[c])
    <3>1. CASE sync' = [sync EXCEPT ![e] = RoundOver(sync[e])]
      BY <1>0, <1>a, <3>1 DEF Behind
    <3>2. CASE sync' = [sync EXCEPT ![e].stage = "reading"]
      BY <1>0, <3>2 DEF Behind, Sync
    <3> QED BY <2>1, <3>1, <3>2
  <2> QED BY <1>0, <1>1, <1>4, <2>1, <2>2, DisconnectNews
<1>5. CASE c # e /\ ~(HearVersion(e) /\ Disconnect(e))
  <2>1. /\ sync'[c] = sync[c] /\ lastVersion'[c] = lastVersion[c]
        /\ conn' = conn /\ inbox' = inbox
    BY <1>0, <1>5 DEF SyncStep, TellVersion, HearVersion, ReadGame, ApplyGame, FetchFails
  <2>2. CASE requestLost' = requestLost
    BY <1>0, <1>1, <1>2, <2>1, <2>2, NewsAsBefore
  <2>3. CASE requestLost' = TRUE
    <3>1. WillHear(c)' = WillHear(c)
      BY <1>1, <2>1 DEF WillHear
    <3>2. Behind(c)'
      BY <1>0, <1>1, <2>1 DEF Behind
    <3> QED BY <1>0, <1>2, <2>1, <2>3, <3>1, <3>2 DEF NewsComes
  <2> QED BY <2>2, <2>3 DEF SyncStep, TellVersion, HearVersion, ReadGame, ApplyGame, FetchFails, bounds
<1>6. CASE c = e /\ TellVersion(e)
  <2>1. /\ sync'[c].version = version /\ sync'[c].stage = "told"
        /\ conn' = conn /\ inbox' = inbox /\ lastVersion' = lastVersion
        /\ requestLost' = requestLost
    BY <1>0, <1>6 DEF TellVersion, Sync, bounds
  <2>2. Behind(c)'
    BY <1>0, <1>1, <2>1 DEF Behind
  <2>3. KnowsOrAsks(c)'
    BY <1>1, <2>1 DEF KnowsOrAsks
  <2> QED BY <1>3, <1>6, <2>1, <2>2, <2>3
<1>7. CASE c = e /\ HearVersion(e) /\ ~Disconnect(e)
  <2>1. /\ conn' = conn /\ inbox' = inbox /\ lastVersion' = lastVersion
        /\ requestLost' = requestLost /\ sync[c].stage = "told"
        /\ \/ sync[c].version = lastVersion[c] /\ sync'[c] = RoundOver(sync[c])
           \/ sync[c].version > lastVersion[c] /\ sync'[c] = [sync[c] EXCEPT !.stage = "reading"]
    BY <1>0, <1>7 DEF HearVersion, bounds
  <2>2. Behind(c)'
    <3>1. sync'[c].version <= version
      BY <1>0, <1>a, <2>1 DEF Behind, Sync
    <3> QED BY <1>0, <1>1, <2>1, <3>1 DEF Behind
  <2>3. ASSUME KnowsOrAsks(c) PROVE KnowsOrAsks(c)'
    BY <1>0, <1>1, <1>7, <2>1, <2>3, RoundFacts DEF KnowsOrAsks, Sync, Behind
  <2> QED BY <1>3, <1>7, <2>1, <2>2, <2>3
<1>8. CASE c = e /\ ReadGame(e)
  <2>1. /\ conn' = conn /\ inbox' = inbox /\ lastVersion' = lastVersion
        /\ requestLost' = requestLost /\ sync[c].stage = "reading"
        /\ sync'[c].version = sync[c].version /\ sync'[c].pending = sync[c].pending
        /\ sync'[c].stage = "loaded"
    BY <1>0, <1>8 DEF ReadGame, bounds, Sync
  <2>2. Behind(c)'
    BY <1>0, <1>1, <2>1 DEF Behind
  <2>3. ASSUME KnowsOrAsks(c) PROVE KnowsOrAsks(c)'
    BY <1>1, <2>1, <2>3 DEF KnowsOrAsks
  <2> QED BY <1>3, <1>8, <2>1, <2>2, <2>3
<1>9. CASE c = e /\ ApplyGame(e)
  <2>1. /\ conn' = conn /\ inbox' = inbox /\ sync'[c] = RoundOver(sync[c])
        /\ requestLost' = requestLost /\ sync[c].stage = "loaded"
        /\ \/ lastVersion[c] > sync[c].version /\ lastVersion'[c] = lastVersion[c]
           \/ lastVersion[c] <= sync[c].version /\ lastVersion'[c] = sync[c].version
    BY <1>0, <1>9 DEF ApplyGame, bounds
  <2>2. Behind(c)'
    <3>1. sync'[c].version <= version /\ lastVersion'[c] <= version
      BY <1>0, <1>a, <2>1 DEF Behind
    <3> QED BY <1>0, <1>1, <2>1, <3>1 DEF Behind
  <2>3. ASSUME KnowsOrAsks(c) PROVE KnowsOrAsks(c)'
    <3>1. CASE sync[c].pending
      BY <1>a, <2>1, <3>1 DEF KnowsOrAsks
    <3>2. CASE ~sync[c].pending
      <4>1. lastVersion[c] = version \/ sync[c].version = version
        BY <2>1, <2>3, <3>2 DEF KnowsOrAsks
      <4>2. lastVersion[c] <= version /\ sync[c].version <= version
        BY <1>0 DEF Behind
      <4>3. lastVersion'[c] = version
        BY <1>0, <2>1, <4>1, <4>2
      <4> QED BY <1>1, <4>3 DEF KnowsOrAsks
    <3> QED BY <3>1, <3>2
  <2> QED BY <1>3, <1>9, <2>1, <2>2, <2>3
<1>10. CASE c = e /\ FetchFails(e)
  <2>1. /\ conn' = conn /\ inbox' = inbox /\ sync'[c] = NoSync
        /\ requestLost' = TRUE /\ lastVersion' = lastVersion
    BY <1>0, <1>10 DEF FetchFails
  <2>2. Behind(c)'
    <3>1. sync'[c].version <= version
      BY <1>a, <2>1
    <3> QED BY <1>0, <1>1, <2>1, <3>1 DEF Behind
  <2>3. WillHear(c)' = WillHear(c)
    BY <1>1, <2>1 DEF WillHear
  <2> QED BY <1>0, <1>2, <2>1, <2>2, <2>3 DEF NewsComes
<1> QED BY <1>4, <1>5, <1>6, <1>7, <1>8, <1>9, <1>10 DEF SyncStep

\* A message is applied, ignored as old, or makes the client ask.
LEMMA DeliverNews ==
    ASSUME TypeInv, NewsInv, NEW e \in Clients, Deliver(e)
    PROVE  NewsInv'
<1> SUFFICES ASSUME NEW c \in Clients PROVE Behind(c)' /\ NewsComes(c)'
  BY DEF NewsInv
<1>0. sync \in [Clients -> Sync] /\ sync[c] \in Sync /\ inbox \in [Clients -> Seq(Event)]
      /\ lastVersion \in [Clients -> Nat] /\ Behind(c) /\ NewsComes(c)
      /\ version \in Nat /\ lastVersion[c] \in Nat
  BY ClientTypes DEF TypeInv, TypeOK, NewsInv
<1>1. /\ version' = version /\ task' = task /\ unannounced' = unannounced
      /\ requestLost' = requestLost /\ conn' = conn /\ conn[e].stage = "open"
  BY DEF Deliver, serverVars, bounds
<1>2. Announced' => Announced
  BY <1>1 DEF Announced
<1>3. CASE c # e
  <2>1. /\ sync'[c] = sync[c] /\ lastVersion'[c] = lastVersion[c]
        /\ inbox'[c] = inbox[c]
    BY <1>0, <1>3 DEF Deliver
  <2> QED BY <1>0, <1>1, <1>2, <2>1, NewsAsBefore
<1>4. CASE c = e
  <2> PICK m : m = Head(inbox[c])
    OBVIOUS
  <2>a. inbox[c] \in Seq(Event) /\ inbox[c] # <<>>
    BY <1>0, <1>4 DEF Deliver
  <2>1. /\ Len(inbox[c]) \in Nat /\ Len(inbox[c]) > 0
        /\ m = inbox[c][1] /\ m \in Event /\ m.version \in Nat
        /\ Tail(inbox[c]) \in Seq(Event) /\ Len(Tail(inbox[c])) = Len(inbox[c]) - 1
        /\ \A i \in 1..Len(Tail(inbox[c])) : Tail(inbox[c])[i] = inbox[c][i + 1]
    <3>1. Head(inbox[c]) \in Event
      BY <2>a, TailFacts
    <3>2. m \in Event /\ m.version \in Nat
      BY <3>1 DEF Event
    <3> QED BY <2>a, <3>2, TailFacts
  <2>2. m.version <= version
    BY <1>0, <2>1 DEF Behind, Within
  <2>3. inbox'[c] = Tail(inbox[c])
    BY <1>0, <1>4 DEF Deliver
  <2>4. \/ /\ m.type = "GAME_SNAPSHOT"
           /\ lastVersion'[c] = m.version /\ sync'[c] = sync[c]
        \/ /\ m.type = "PRESENCE_UPDATED" /\ lastVersion'[c] = lastVersion[c]
           /\ IF m.version > lastVersion[c] THEN sync'[c] = Requested(sync[c])
              ELSE sync'[c] = sync[c]
        \/ /\ m.type \in {"GAME_COMMITTED", "AUCTION_UPDATED"}
           /\ ~acceptsLiveVersion(lastVersion[c], m.version)
           /\ sync'[c] = Requested(sync[c]) /\ lastVersion'[c] = lastVersion[c]
        \/ /\ m.type \in {"GAME_COMMITTED", "AUCTION_UPDATED"}
           /\ acceptsLiveVersion(lastVersion[c], m.version)
           /\ sync'[c] = sync[c] /\ lastVersion'[c] = m.version
    BY <1>0, <1>4 DEF Deliver
  <2>5. Within(inbox'[c], version)
    <3>1. \A i \in 1..Len(Tail(inbox[c])) : i + 1 \in 1..Len(inbox[c])
      BY <2>1
    <3> QED BY <1>0, <2>1, <2>3, <3>1 DEF Behind, Within
  <2>6. Behind(c)'
    <3>1. lastVersion'[c] <= version
      BY <1>0, <2>2, <2>4 DEF Behind
    <3>2. sync'[c].version <= version
      BY <1>0, <2>4, RoundFacts DEF Behind
    <3> QED BY <1>0, <1>1, <2>5, <3>1, <3>2 DEF Behind
  <2>7. CASE WillHear(c) /\ Len(inbox[c]) > 1
    <3>1. Len(inbox'[c]) \in 1..Len(Tail(inbox[c])) /\ Len(inbox'[c]) + 1 = Len(inbox[c])
      BY <2>1, <2>3, <2>7
    <3>2. inbox'[c][Len(inbox'[c])] = inbox[c][Len(inbox[c])]
      BY <2>1, <2>3, <3>1
    <3>3. WillHear(c)'
      BY <1>1, <2>7, <3>1, <3>2 DEF WillHear
    <3> QED BY <2>6, <3>3 DEF NewsComes
  <2>8. CASE WillHear(c) /\ ~(Len(inbox[c]) > 1)
    <3>1. m.type \in Stamped /\ m.version = version /\ Len(inbox'[c]) = 0
      <4>1. Len(inbox[c]) = 1
        <5>1. Len(inbox[c]) \in Nat /\ Len(inbox[c]) > 0
          BY <2>1
        <5>2. ~(Len(inbox[c]) > 1)
          BY <2>8
        <5>3. \A n \in Nat : n > 0 /\ ~(n > 1) => n = 1
          OBVIOUS
        <5> QED BY <5>1, <5>2, <5>3, Zenon
      <4> QED BY <4>1, <2>1, <2>3, <2>8 DEF WillHear
    <3>2. NoSnapshot(c)'
      BY <3>1 DEF NoSnapshot
    <3>3. KnowsOrAsks(c)'
      <4>1. Requested(sync[c]).stage = "asking" \/ Requested(sync[c]).pending
        BY <1>0, RoundFacts
      <4>2. lastVersion[c] <= version
        BY <1>0 DEF Behind
      <4>3. lastVersion'[c] = version \/ sync'[c] = Requested(sync[c])
        BY <1>0, <2>4, <3>1, <4>2 DEF Stamped
      <4> QED BY <1>1, <4>1, <4>3 DEF KnowsOrAsks
    <3> QED BY <1>1, <1>4, <2>6, <3>2, <3>3 DEF NewsComes
  <2>9. CASE NoSnapshot(c) /\ KnowsOrAsks(c)
    <3>1. m.type \in Stamped
      BY <2>1, <2>9 DEF NoSnapshot
    <3>2. NoSnapshot(c)'
      <4>1. \A i \in 1..Len(Tail(inbox[c])) : i + 1 \in 1..Len(inbox[c])
        BY <2>1
      <4> QED BY <2>1, <2>3, <2>9, <4>1 DEF NoSnapshot
    <3>3. KnowsOrAsks(c)'
      <4>1. CASE sync'[c] = Requested(sync[c])
        <5>1. Requested(sync[c]).stage = "asking" \/ Requested(sync[c]).pending
          BY <1>0, RoundFacts
        <5> QED BY <4>1, <5>1 DEF KnowsOrAsks
      <4>2. CASE sync'[c] = sync[c]
        <5>1. lastVersion[c] = version => lastVersion'[c] = version
          BY <1>0, <2>1, <2>2, <2>4, <3>1 DEF Stamped, acceptsLiveVersion
        <5> QED BY <1>1, <2>9, <4>2, <5>1 DEF KnowsOrAsks
      <4> QED BY <2>4, <4>1, <4>2
    <3> QED BY <1>1, <1>4, <2>6, <3>2, <3>3 DEF NewsComes
  <2>10. CASE ~Announced \/ requestLost
    BY <1>1, <1>2, <1>4, <2>6, <2>10 DEF NewsComes
  <2> QED BY <1>0, <1>1, <1>4, <2>7, <2>8, <2>9, <2>10 DEF NewsComes
<1> QED BY <1>3, <1>4

\* An answer carries no version.
LEMMA HearAnswerNews ==
    ASSUME TypeInv, NewsInv, NEW e \in Clients, HearAnswer(e)
    PROVE  NewsInv'
<1> SUFFICES ASSUME NEW c \in Clients PROVE Behind(c)' /\ NewsComes(c)'
  BY DEF NewsInv
<1>1. Announced' => Announced
  BY DEF HearAnswer, serverVars, Announced
<1> QED BY <1>1, NewsAsBefore DEF NewsInv, HearAnswer, serverVars, bounds

\* Every step keeps the news on its way.
LEMMA NewsKept == TypeInv /\ NewsInv /\ [Next]_vars => NewsInv'
<1> SUFFICES ASSUME TypeInv, NewsInv, [Next]_vars PROVE NewsInv'
  OBVIOUS
<1>1. CASE UNCHANGED vars
  <2>1. Announced' => Announced
    BY <1>1 DEF vars, serverVars, Announced
  <2> QED BY <1>1, <2>1, NewsAsBefore DEF NewsInv, vars, serverVars, clientVars, bounds
<1>2. ASSUME NEW kind \in Kinds, NEW sender \in Senders[kind], Commit(kind, sender)
      PROVE  NewsInv'
  BY <1>2, CommandNews
<1>3. ASSUME NEW kind \in Kinds, Recover(kind) PROVE NewsInv'
  BY <1>3, CommandNews
<1>4. CASE TaskStep \/ StepFails \/ Crash \/ GameReadEnds
  BY <1>4, CountVersionNews, PublishNews, FailureNews DEF TaskStep
<1>5. ASSUME NEW c \in Clients, SocketStep(c) \/ Break(c) PROVE NewsInv'
  BY <1>5, HandshakeNews, UpgradeNews, OpenNews, DeliverNews, BreakNews DEF SocketStep
<1>6. ASSUME NEW c \in Clients,
             SyncStep(c) \/ Trigger(c) \/ FetchFails(c) \/ HearAnswer(c)
      PROVE  NewsInv'
  BY <1>6, SyncStepNews, OpenNews, HearAnswerNews
<1> QED BY <1>1, <1>2, <1>3, <1>4, <1>5, <1>6 DEF Next

\* In a new game there is no news.
LEMMA InitNews == Init => NewsInv
<1> SUFFICES ASSUME Init, NEW c \in Clients PROVE Behind(c) /\ NewsComes(c)
  BY DEF NewsInv
<1>1. /\ version = 0 /\ lastVersion[c] = 0 /\ inbox[c] = <<>>
      /\ sync[c].version = 0 /\ conn[c].version = 0 /\ conn[c].stage = "idle"
  BY DEF Init, NoConn, NoSync
<1>2. Within(<<>>, 0)
  BY DEF Within
<1> QED BY <1>1, <1>2 DEF Behind, NewsComes

\* For any clients, commands, sockets and failures, a client with nothing to
\* handle and no round under way has the latest version, unless a request of it
\* failed or that version was never announced: whatever order handshake, broadcast,
\* presence and rounds come in, none of them is the last word with an old version
\* (acceptConnection and broadcastPresence of game-session.ts, handleEvent and the
\* resync loop of useGameSync.ts).
THEOREM IdleClientsHold == Spec => []IdleClientsAreCurrent
<1>1. TypeInv /\ NewsInv => IdleClientsAreCurrent
  <2> SUFFICES ASSUME TypeInv, NewsInv, NEW c \in Clients,
                      Quiet(c), task = None, sync[c].stage = "idle", NewsDelivered
               PROVE  lastVersion[c] = version
    BY DEF IdleClientsAreCurrent
  <2>1. Announced
    BY DEF Announced, NewsDelivered
  <2>2. ~WillHear(c)
    BY DEF WillHear, Quiet
  <2>3. KnowsOrAsks(c)
    BY <2>1, <2>2 DEF NewsInv, NewsComes, Quiet, NewsDelivered
  <2>4. ~sync[c].pending
    BY DEF TypeInv, TypeOK
  <2> QED BY <2>3, <2>4 DEF KnowsOrAsks
<1>2. Spec => [](TypeInv /\ NewsInv)
  BY InitTypes, TypesKept, InitNews, NewsKept, PTL DEF Spec
<1> QED BY <1>1, <1>2, PTL

-----------------------------------------------------------------------------
(* What versions cover *)

\* Versions only get more: what has been counted stays as it was.
LEMMA CoveredStays ==
    ASSUME TypeInv, NEW v \in 0..version,
           history' = history \/ \E d \in Details : history' = Append(history, d)
    PROVE  Covered(v)' = Covered(v)
<1>1. CASE history' = history
  BY <1>1 DEF Covered
<1>2. ASSUME NEW d \in Details, history' = Append(history, d)
      PROVE  Covered(v)' = Covered(v)
  <2>1. CASE v = 0
    BY <2>1 DEF Covered
  <2>2. CASE v # 0
    <3>1. v \in 1..Len(history) /\ history \in Seq(Details)
      BY <2>2 DEF TypeInv, TypeOK
    <3>2. history'[v] = history[v]
      BY <1>2, <3>1, AppendFacts
    <3> QED BY <2>2, <3>2 DEF Covered
  <2> QED BY <2>1, <2>2
<1> QED BY <1>1, <1>2

\* Comparing details.
LEMMA AtLeastFacts ==
    ASSUME NEW d \in Details, NEW e \in Details, NEW f \in Details
    PROVE  /\ AtLeast(d, d)
           /\ AtLeast(d, e) /\ AtLeast(e, f) => AtLeast(d, f)
BY DEF AtLeast, Details

\* What is in the database now covers every version that has been counted.
LEMMA DataCovers ==
    ASSUME TypeInv, HistoryGrows, NEW v \in 0..version
    PROVE  AtLeast(data, Covered(v))
<1>1. version \in 0..version /\ v <= version /\ data \in Details /\ version \in Nat
  BY DEF TypeInv, TypeOK
<1>2. AtLeast(data, Covered(version)) /\ AtLeast(Covered(version), Covered(v))
  BY <1>1 DEF HistoryGrows
<1>3. Covered(version) \in Details /\ Covered(v) \in Details
  BY <1>1, CoveredType DEF TypeInv
<1> QED BY <1>1, <1>2, <1>3, AtLeastFacts

\* A message of a counted version goes on saying the same of it.
LEMMA FaithfulStays ==
    ASSUME TypeInv, NEW m \in Event, m.version <= version, Faithful(m),
           \A v \in 0..version : Covered(v)' = Covered(v)
    PROVE  Faithful(m)'
<1>1. m.version \in 0..version /\ version \in Nat
  BY DEF Event, TypeInv, TypeOK
<1>2. m.version > 0 => m.version - 1 \in 0..version
  BY <1>1
<1> PICK u : u = m.version
  OBVIOUS
<1> PICK w : w = m.version - 1
  OBVIOUS
<1>3. Covered(u)' = Covered(u) /\ (m.version > 0 => Covered(w)' = Covered(w))
  BY <1>1, <1>2
<1> QED BY <1>3 DEF Faithful, AtLeast

\* A client whose copies the step does not touch.
LEMMA CopiesAsBefore ==
    ASSUME TypeInv, NEW c \in Clients, Behind(c), CopiesCover(c),
           \A v \in 0..version : Covered(v)' = Covered(v),
           conn'[c].stage \in {"loaded", "accepted"} =>
              /\ conn[c].stage \in {"loaded", "accepted"}
              /\ conn'[c].version = conn[c].version
              /\ conn'[c].details = conn[c].details,
           sync'[c].stage = "loaded" =>
              /\ sync[c].stage = "loaded" /\ sync'[c].version = sync[c].version
              /\ sync'[c].details = sync[c].details,
           view'[c] = view[c], lastVersion'[c] = lastVersion[c]
    PROVE  CopiesCover(c)'
<1>1. /\ lastVersion[c] \in 0..version /\ sync[c].version \in 0..version
      /\ conn[c].version \in 0..version
  BY ClientTypes DEF Behind
<1>3. Shows(c, view[c], lastVersion[c])'
  <2> PICK v : v = lastVersion[c]
    OBVIOUS
  <2>1. Covered(v)' = Covered(v) /\ lastVersion'[c] = v /\ view'[c] = view[c]
    BY <1>1
  <2> QED BY <2>1 DEF CopiesCover, Shows
<1>4. ASSUME conn'[c].stage \in {"loaded", "accepted"}
      PROVE  AtLeast(conn[c].details, Covered(conn[c].version))'
  <2> PICK v : v = conn[c].version
    OBVIOUS
  <2>1. Covered(v)' = Covered(v) /\ conn'[c].version = v
    BY <1>1, <1>4
  <2> QED BY <1>4, <2>1 DEF CopiesCover, AtLeast
<1>5. ASSUME sync'[c].stage = "loaded"
      PROVE  AtLeast(sync[c].details, Covered(sync[c].version))'
  <2> PICK v : v = sync[c].version
    OBVIOUS
  <2>1. Covered(v)' = Covered(v) /\ sync'[c].version = v
    BY <1>1, <1>5
  <2> QED BY <1>5, <2>1 DEF CopiesCover, AtLeast
<1> QED BY <1>3, <1>4, <1>5 DEF CopiesCover

\* Every message of a faithful queue goes on being faithful.
LEMMA QueueStays ==
    ASSUME TypeInv, NEW c \in Clients, Behind(c), QueueFaithful(c),
           \A v \in 0..version : Covered(v)' = Covered(v),
           NEW i \in 1..Len(inbox[c]), NEW m, m = inbox[c][i]
    PROVE  Faithful(m)'
<1>1. m \in Event
  BY ClientTypes
<1>2. m.version <= version /\ Faithful(m)
  BY DEF Behind, Within, QueueFaithful
<1> QED BY <1>1, <1>2, FaithfulStays

\* A queue that gets no message goes on being faithful.
LEMMA QueueAsBefore ==
    ASSUME TypeInv, NEW c \in Clients, Behind(c), QueueFaithful(c),
           \A v \in 0..version : Covered(v)' = Covered(v),
           inbox'[c] = inbox[c] \/ inbox'[c] = <<>>
              \/ (inbox[c] # <<>> /\ inbox'[c] = Tail(inbox[c]))
    PROVE  QueueFaithful(c)'
<1> SUFFICES ASSUME NEW i \in 1..Len(inbox'[c]) PROVE Faithful(inbox[c][i])'
  BY DEF QueueFaithful
<1>1. \E j \in 1..Len(inbox[c]) : inbox'[c][i] = inbox[c][j]
  <2>1. CASE inbox'[c] = inbox[c]
    BY <2>1
  <2>2. CASE inbox'[c] = <<>>
    BY <2>2
  <2>3. CASE inbox[c] # <<>> /\ inbox'[c] = Tail(inbox[c])
    <3>1. i + 1 \in 1..Len(inbox[c]) /\ inbox'[c][i] = inbox[c][i + 1]
      BY <2>3, TailFacts, ClientTypes
    <3> QED BY <3>1
  <2> QED BY <2>1, <2>2, <2>3
<1>2. PICK j \in 1..Len(inbox[c]) : inbox'[c][i] = inbox[c][j]
  BY <1>1
<1> PICK m : m = inbox[c][j]
  OBVIOUS
<1>3. Faithful(m)'
  BY QueueStays
<1> QED BY <1>2, <1>3 DEF Faithful

\* And one that gets a faithful message.
LEMMA QueueSent ==
    ASSUME TypeInv, NEW c \in Clients, Behind(c), QueueFaithful(c),
           \A v \in 0..version : Covered(v)' = Covered(v),
           NEW m \in Event, m.version <= version, Faithful(m),
           inbox'[c] = Append(inbox[c], m)
    PROVE  QueueFaithful(c)'
<1> SUFFICES ASSUME NEW i \in 1..Len(inbox'[c]) PROVE Faithful(inbox[c][i])'
  BY DEF QueueFaithful
<1>1. CASE i \in 1..Len(inbox[c])
  <2> PICK n : n = inbox[c][i]
    OBVIOUS
  <2>1. Faithful(n)'
    BY <1>1, QueueStays
  <2>2. inbox'[c][i] = n
    BY <1>1, AppendFacts, ClientTypes
  <2> QED BY <2>1, <2>2 DEF Faithful
<1>2. CASE i \notin 1..Len(inbox[c])
  <2>1. inbox'[c][i] = m
    BY <1>2, AppendFacts, ClientTypes
  <2>2. Faithful(m)'
    BY FaithfulStays
  <2> QED BY <2>1, <2>2 DEF Faithful
<1> QED BY <1>1, <1>2

\* A step that leaves the database and the versions alone.
LEMMA HistoryAsBefore ==
    ASSUME UNCHANGED <<data, version, history>>
    PROVE  /\ \A v \in 0..version : Covered(v)' = Covered(v)
           /\ HistoryGrows => HistoryGrows'
<1>1. \A v : Covered(v)' = Covered(v)
  BY DEF Covered
<1> QED BY <1>1 DEF HistoryGrows, AtLeast, Covered

\* The object, when a step counts and reads nothing.
LEMMA ObjectAsBefore ==
    ASSUME ObjectCovers, UNCHANGED <<data, version, history>>,
           task' = task \/ task' = None,
           gameRead' = gameRead \/ gameRead' = None
    PROVE  ObjectCovers'
<1>1. HistoryGrows'
  BY HistoryAsBefore DEF ObjectCovers
<1>2. task' # None => task'.details = data' /\ task' = task
  BY DEF ObjectCovers
<1>3. ASSUME task' # None
      PROVE  (\A i \in 1..Len(task.left) : Faithful(task.left[i]))'
  BY <1>2, <1>3 DEF ObjectCovers, Faithful, Covered
<1>4. ASSUME gameRead' # None
      PROVE  gameRead'.version <= version' /\ AtLeast(gameRead.details, Covered(gameRead.version))'
  BY <1>4 DEF ObjectCovers, AtLeast, Covered
<1> QED BY <1>1, <1>2, <1>3, <1>4 DEF ObjectCovers

\* What a command writes is newer than what any version covers.
LEMMA CommandCovers ==
    ASSUME TypeInv, NewsInv, CoverInv, NEW kind \in Kinds,
           (\E sender \in Senders[kind] : Commit(kind, sender)) \/ Recover(kind)
    PROVE  CoverInv'
<1>1. /\ UNCHANGED <<version, history, gameRead, conn, inbox, view, lastVersion, sync>>
      /\ data' = data \/ data' = Changed(kind)
      /\ task'.details = data' /\ task'.left = <<>>
  BY DEF Commit, Recover, Started, clientVars
<1>2. \A v \in 0..version : Covered(v)' = Covered(v)
  BY <1>1 DEF Covered
<1>3. data \in Details /\ data' \in Details /\ AtLeast(data', data)
  BY <1>1 DEF TypeInv, TypeOK, Details, Changed, Rewritten, AtLeast
<1>4. HistoryGrows'
  <2>1. Covered(version) \in Details /\ version \in Nat
    BY CoveredType DEF TypeInv, TypeOK
  <2>2. AtLeast(data', Covered(version))
    BY <1>3, <2>1, AtLeastFacts DEF CoverInv, ObjectCovers, HistoryGrows
  <2>3. AtLeast(data, Covered(version))'
    BY <1>1, <2>2 DEF AtLeast, Covered
  <2>4. (\A i, j \in 0..version : i <= j => AtLeast(Covered(j), Covered(i)))'
    BY <1>1 DEF CoverInv, ObjectCovers, HistoryGrows, AtLeast, Covered
  <2> QED BY <2>3, <2>4 DEF HistoryGrows
<1>5. ASSUME gameRead' # None
      PROVE  gameRead'.version <= version' /\ AtLeast(gameRead.details, Covered(gameRead.version))'
  BY <1>1, <1>5 DEF CoverInv, ObjectCovers, AtLeast, Covered
<1>6. ObjectCovers'
  BY <1>1, <1>4, <1>5 DEF ObjectCovers
<1>7. ASSUME NEW c \in Clients PROVE ClientCovers(c)'
  BY <1>1, <1>2, CopiesAsBefore, QueueAsBefore DEF CoverInv, ClientCovers, NewsInv
<1> QED BY <1>6, <1>7 DEF CoverInv

\* The version a command gets covers what it changed, and the other slice is as
\* the version before left it: so is what its broadcast says.
LEMMA CountVersionCovers ==
    ASSUME OneBroadcastEach, TypeInv, NewsInv, CoverInv, CountVersion
    PROVE  CoverInv'
<1> PICK v : v = version + 1
  OBVIOUS
<1> PICK old : old = Covered(version)
  OBVIOUS
<1> PICK new : new = Rewritten(task.kind, old, data)
  OBVIOUS
<1>0. /\ version \in Nat /\ version \in 0..version /\ data \in Details /\ old \in Details
      /\ task \in Task /\ task # None /\ task.kind \in {"PAY", "AUCTION"}
      /\ history \in Seq(Details) /\ Len(history) = version
  <2>1. version \in Nat /\ version \in 0..version /\ data \in Details /\ task \in Task
        /\ task # None /\ history \in Seq(Details) /\ Len(history) = version
    BY DEF TypeInv, TypeOK, CountVersion
  <2>2. old \in Details
    BY <2>1, CoveredType DEF TypeInv
  <2>3. task.kind \in Kinds
    BY <2>1 DEF Task
  <2>4. task.kind \in {"PAY", "AUCTION"}
    BY <2>3, SyncKindsAssumption DEF OneBroadcastEach, AllKinds
  <2> QED BY <2>1, <2>2, <2>4
<1>1. /\ UNCHANGED <<data, gameRead, conn, inbox, view, lastVersion, sync>>
      /\ version' = v /\ history' = Append(history, new)
      /\ task' = [task EXCEPT !.stage = "counted",
                    !.left = [i \in DOMAIN Broadcasts(task.kind) |->
                                Message(Broadcasts(task.kind)[i], v, task.details)]]
  BY DEF CountVersion, clientVars
<1>2. new \in Details /\ AtLeast(data, old) /\ AtLeast(data, new) /\ AtLeast(new, old)
  <2>1. AtLeast(data, old)
    BY DEF CoverInv, ObjectCovers, HistoryGrows
  <2> QED BY <1>0, <2>1 DEF Rewritten, AtLeast, Details
<1>3. \A u \in 0..version : Covered(u)' = Covered(u)
  BY <1>1, <1>2, CoveredStays
<1>4. Covered(v)' = new
  <2>1. history'[v] = new
    BY <1>0, <1>1, <1>2, AppendFacts
  <2> QED BY <1>0, <2>1 DEF Covered
<1>5. HistoryGrows'
  <2>1. AtLeast(data, Covered(version))'
    <3>1. (Covered(version))' = Covered(v)'
      BY <1>1 DEF Covered
    <3> QED BY <1>1, <1>2, <1>4, <3>1 DEF AtLeast
  <2>2. ASSUME NEW i \in 0..v, NEW j \in 0..v, i <= j
        PROVE  AtLeast(Covered(j), Covered(i))'
    <3>1. CASE j \in 0..version
      <4>1. i \in 0..version
        BY <1>0, <2>2, <3>1
      <4>2. AtLeast(Covered(j), Covered(i))
        BY <2>2, <3>1, <4>1 DEF CoverInv, ObjectCovers, HistoryGrows
      <4> QED BY <1>3, <3>1, <4>1, <4>2 DEF AtLeast
    <3>2. CASE j = v /\ i = v
      BY <1>2, <1>4, <3>2 DEF AtLeast, Details
    <3>3. CASE j = v /\ i \in 0..version
      <4>1. AtLeast(old, Covered(i)) /\ Covered(i) \in Details
        BY <1>0, <3>3, CoveredType DEF CoverInv, ObjectCovers, HistoryGrows, TypeInv
      <4>2. AtLeast(new, Covered(i))
        BY <1>0, <1>2, <4>1, AtLeastFacts
      <4>3. Covered(j)' = new /\ Covered(i)' = Covered(i)
        BY <1>3, <1>4, <3>3
      <4> QED BY <4>2, <4>3 DEF AtLeast
    <3> QED BY <1>0, <3>1, <3>2, <3>3
  <2> QED BY <1>1, <2>1, <2>2 DEF HistoryGrows
<1>6. task'.details = data' /\ \E type \in {"GAME_COMMITTED", "AUCTION_UPDATED"} :
          /\ task'.left = <<Message(type, v, data)>>
          /\ (type = "GAME_COMMITTED") = (task.kind = "PAY")
  <2>1. task.details = data
    BY <1>0 DEF CoverInv, ObjectCovers
  <2>2. CASE task.kind = "PAY"
    <3>1. Broadcasts(task.kind) = <<"GAME_COMMITTED">>
      BY <2>2 DEF Broadcasts
    <3>2. task'.details = data /\ task'.left = <<Message("GAME_COMMITTED", v, data)>>
      BY <1>0, <1>1, <2>1, <3>1 DEF Task
    <3> QED BY <1>1, <2>2, <3>2
  <2>3. CASE task.kind = "AUCTION"
    <3>1. Broadcasts(task.kind) = <<"AUCTION_UPDATED">>
      BY <2>3 DEF Broadcasts
    <3>2. task'.details = data /\ task'.left = <<Message("AUCTION_UPDATED", v, data)>>
      BY <1>0, <1>1, <2>1, <3>1 DEF Task
    <3> QED BY <1>1, <2>3, <3>2
  <2> QED BY <1>0, <2>2, <2>3
<1>7. PICK type \in {"GAME_COMMITTED", "AUCTION_UPDATED"} :
          /\ task'.left = <<Message(type, v, data)>>
          /\ (type = "GAME_COMMITTED") = (task.kind = "PAY")
  BY <1>6
<1> PICK m : m = Message(type, v, data)
  OBVIOUS
<1>8. m.type = type /\ m.version = v /\ m.details = data /\ task'.left = <<m>>
  BY <1>0, <1>7, MessageType
<1>9. Faithful(m)'
  <2> PICK w : w = version
    OBVIOUS
  <2>1. Covered(w)' = old /\ v - 1 = w /\ v > 0
    BY <1>0, <1>3
  <2>2. new = Rewritten(task.kind, old, data)
    OBVIOUS
  <2>3. CASE task.kind = "PAY"
    <3>1. new.auction = old.auction /\ new.ledger = data.ledger /\ type = "GAME_COMMITTED"
      BY <1>7, <2>2, <2>3 DEF Rewritten
    <3>2. data.ledger >= new.ledger
      BY <1>2 DEF AtLeast
    <3> QED BY <1>4, <1>8, <2>1, <3>1, <3>2 DEF Faithful
  <2>4. CASE task.kind = "AUCTION"
    <3>1. new.ledger = old.ledger /\ new.auction = data.auction /\ type = "AUCTION_UPDATED"
      BY <1>7, <2>2, <2>4 DEF Rewritten
    <3>2. data.auction >= new.auction
      BY <1>2 DEF AtLeast
    <3> QED BY <1>4, <1>8, <2>1, <3>1, <3>2 DEF Faithful
  <2> QED BY <1>0, <2>3, <2>4
<1>10. (\A i \in 1..Len(task.left) : Faithful(task.left[i]))'
  <2> SUFFICES ASSUME NEW i \in 1..Len(task'.left) PROVE Faithful(task.left[i])'
    OBVIOUS
  <2>1. task'.left[i] = m
    BY <1>8
  <2> QED BY <1>9, <2>1 DEF Faithful
<1>11. ASSUME gameRead' # None
      PROVE  (gameRead.version <= version /\ AtLeast(gameRead.details, Covered(gameRead.version)))'
  <2>1. gameRead.version \in Nat /\ gameRead.version <= version
        /\ AtLeast(gameRead.details, Covered(gameRead.version))
    BY <1>1, <1>11 DEF TypeInv, TypeOK, CoverInv, ObjectCovers
  <2> PICK u : u = gameRead.version
    OBVIOUS
  <2>2. Covered(u)' = Covered(u) /\ u <= v
    BY <1>0, <1>3, <2>1
  <2> QED BY <1>1, <2>1, <2>2 DEF AtLeast
<1>12. ObjectCovers'
  BY <1>5, <1>6, <1>10, <1>11 DEF ObjectCovers
<1>13. ASSUME NEW c \in Clients PROVE ClientCovers(c)'
  BY <1>1, <1>3, CopiesAsBefore, QueueAsBefore DEF CoverInv, ClientCovers, NewsInv
<1> QED BY <1>12, <1>13 DEF CoverInv


\* The broadcast is faithful.
LEMMA PublishCovers ==
    ASSUME TypeInv, NewsInv, CoverInv, Publish
    PROVE  CoverInv'
<1> PICK m : m = Head(task.left)
  OBVIOUS
<1>1. task \in Task /\ task # None /\ task.left \in Seq(Event) /\ task.left # <<>>
      /\ Len(task.left) \in Nat
      /\ \A i \in 1..Len(task.left) : task.left[i].version = version
  BY DEF TypeInv, TypeOK, Publish, Task, BroadcastsAreOfVersion
<1>2. UNCHANGED <<data, version, history, gameRead, view, lastVersion, sync>>
      /\ SendTo(Attached, m)
  BY DEF Publish, clientVars
<1>3. \A v \in 0..version : Covered(v)' = Covered(v)
  BY <1>2, HistoryAsBefore
<1>4. m = task.left[1] /\ 1 \in 1..Len(task.left) /\ m \in Event /\ m.version = version
      /\ version \in Nat
  BY <1>1, TailFacts DEF TypeInv, TypeOK
<1>5. Faithful(m)
  BY <1>1, <1>4 DEF CoverInv, ObjectCovers, Faithful
<1>6. ASSUME NEW c \in Clients PROVE ClientCovers(c)'
  <2>1. conn'[c].stage = conn[c].stage /\ conn'[c].version = conn[c].version
        /\ conn'[c].details = conn[c].details
    <3>1. conn' = conn \/ conn' = [d \in Clients |-> [conn[d] EXCEPT !.waits = FALSE]]
      BY DEF Publish, EndTask
    <3> QED BY <3>1, ClientTypes DEF Conn
  <2>2. CopiesCover(c)'
    BY <1>2, <1>3, <2>1, CopiesAsBefore DEF CoverInv, ClientCovers, NewsInv
  <2>3. inbox'[c] = inbox[c] \/ inbox'[c] = Append(inbox[c], m)
    BY <1>2 DEF SendTo
  <2>4. QueueFaithful(c)'
    <3>1. m.version <= version
      BY <1>4
    <3>2. Behind(c) /\ QueueFaithful(c)
      BY DEF CoverInv, ClientCovers, NewsInv
    <3> QED BY <1>3, <1>4, <1>5, <2>3, <3>1, <3>2, QueueAsBefore, QueueSent
  <2> QED BY <2>2, <2>4 DEF ClientCovers
<1>7. ObjectCovers'
  <2>1. CASE Len(task.left) > 1
    <3>1. task'.left = Tail(task.left) /\ task'.details = task.details
      BY <1>1, <2>1 DEF Publish, Task
    <3>2. ASSUME NEW i \in 1..Len(task'.left) PROVE Faithful(task.left[i])'
      <4>1. i + 1 \in 1..Len(task.left) /\ task'.left[i] = task.left[i + 1]
        BY <1>1, <3>1, TailFacts
      <4> PICK n : n = task.left[i + 1]
        OBVIOUS
      <4>2. n \in Event /\ n.version <= version
        BY <1>1, <1>4, <4>1
      <4>3. Faithful(n)
        BY <1>1, <4>1 DEF CoverInv, ObjectCovers, Faithful
      <4>4. Faithful(n)'
        BY <1>3, <4>2, <4>3, FaithfulStays
      <4> QED BY <4>1, <4>4 DEF Faithful
    <3>3. HistoryGrows'
      BY <1>2, HistoryAsBefore DEF CoverInv, ObjectCovers
    <3>4. task'.details = data'
      BY <1>1, <1>2, <3>1 DEF CoverInv, ObjectCovers
    <3>5. ASSUME gameRead' # None
          PROVE  (gameRead.version <= version /\ AtLeast(gameRead.details, Covered(gameRead.version)))'
      BY <1>2, <3>5 DEF CoverInv, ObjectCovers, AtLeast, Covered
    <3> QED BY <3>2, <3>3, <3>4, <3>5 DEF ObjectCovers
  <2>2. CASE ~(Len(task.left) > 1)
    <3>1. task' = None
      BY <2>2 DEF Publish, EndTask
    <3> QED BY <1>2, <3>1, ObjectAsBefore DEF CoverInv
  <2> QED BY <2>1, <2>2
<1> QED BY <1>6, <1>7 DEF CoverInv

\* Failures leave fewer copies.
LEMMA FailureCovers ==
    ASSUME TypeInv, NewsInv, CoverInv, StepFails \/ Crash \/ GameReadEnds
    PROVE  CoverInv'
<1>1. /\ UNCHANGED <<data, version, history, view, lastVersion, sync>>
      /\ task' = task \/ task' = None
      /\ gameRead' = gameRead \/ gameRead' = None
  BY DEF StepFails, EndTask, Crash, GameReadEnds, serverVars, clientVars
<1>2. \A v \in 0..version : Covered(v)' = Covered(v)
  BY <1>1, HistoryAsBefore
<1>3. ObjectCovers'
  BY <1>1, ObjectAsBefore DEF CoverInv
<1>4. ASSUME NEW c \in Clients PROVE ClientCovers(c)'
  <2>1. /\ inbox'[c] = inbox[c] \/ inbox'[c] = <<>>
        /\ conn'[c].stage = "idle"
              \/ /\ conn'[c].stage = conn[c].stage /\ conn'[c].version = conn[c].version
                 /\ conn'[c].details = conn[c].details
    BY ClientTypes DEF StepFails, EndTask, Crash, GameReadEnds, Conn, NoConn
  <2> QED BY <1>1, <1>2, <2>1, CopiesAsBefore, QueueAsBefore DEF CoverInv, ClientCovers, NewsInv
<1> QED BY <1>3, <1>4 DEF CoverInv

\* Presence says nothing of what a version covers.
LEMMA PresenceFaithful == ASSUME TypeOK PROVE Faithful(Presence)
BY PresenceType DEF Faithful

\* Steps of the sockets that read nothing: the others hear of the newcomer.
LEMMA ConnectCovers ==
    ASSUME TypeInv, NewsInv, CoverInv, NEW e \in Clients,
           Connect(e) \/ ReadVersion(e) \/ Accept(e) \/ Upgrade(e) \/ Open(e)
    PROVE  CoverInv'
<1>1. /\ UNCHANGED <<data, version, history, task, view, lastVersion>>
      /\ gameRead' = gameRead \/ gameRead' = None
  BY DEF Connect, ReadVersion, Accept, Upgrade, Open, serverVars, clientVars
<1>2. \A v \in 0..version : Covered(v)' = Covered(v)
  BY <1>1, HistoryAsBefore
<1>3. ObjectCovers'
  BY <1>1, ObjectAsBefore DEF CoverInv
<1>4. ASSUME NEW c \in Clients PROVE ClientCovers(c)'
  <2>0. conn \in [Clients -> Conn] /\ sync \in [Clients -> Sync] /\ conn[e] \in Conn
        /\ Behind(c) /\ CopiesCover(c) /\ QueueFaithful(c)
    BY DEF TypeInv, TypeOK, NewsInv, CoverInv, ClientCovers
  <2>1. conn'[c].stage \in {"loaded", "accepted"} =>
           /\ conn[c].stage \in {"loaded", "accepted"}
           /\ conn'[c].version = conn[c].version
           /\ conn'[c].details = conn[c].details
    BY <2>0 DEF Connect, ReadVersion, Accept, Upgrade, Open, Step, StepBehindTask, Conn
  <2>2. sync'[c].stage = "loaded" =>
           /\ sync[c].stage = "loaded" /\ sync'[c].version = sync[c].version
           /\ sync'[c].details = sync[c].details
    <3>1. sync' = sync \/ sync' = [sync EXCEPT ![e] = Requested(sync[e])]
      BY DEF Connect, ReadVersion, Accept, Upgrade, Open, clientVars
    <3>2. sync[e] \in Sync
      BY <2>0
    <3> QED BY <2>0, <3>1, <3>2 DEF Requested, Sync
  <2>3. CopiesCover(c)'
    BY <1>1, <1>2, <2>0, <2>1, <2>2, CopiesAsBefore
  <2> PICK m : m = Presence
    OBVIOUS
  <2>4. inbox'[c] = inbox[c] \/ inbox'[c] = Append(inbox[c], m)
    BY DEF Connect, ReadVersion, Accept, Upgrade, Open, SendTo
  <2>5. m \in Event /\ m.version <= version
    BY PresenceType, ClientTypes DEF TypeInv
  <2>6. Faithful(m)
    BY PresenceFaithful DEF TypeInv, Faithful
  <2>7. QueueFaithful(c)'
    BY <1>2, <2>0, <2>4, <2>5, <2>6, QueueAsBefore, QueueSent
  <2> QED BY <2>3, <2>7 DEF ClientCovers
<1> QED BY <1>3, <1>4 DEF CoverInv

\* A read covers the version that was taken before it, also when it is joined:
\* then it is the read of somebody who took the same version.
LEMMA LoadGameCovers ==
    ASSUME TypeInv, NewsInv, CoverInv, NEW e \in Clients, LoadGame(e)
    PROVE  CoverInv'
<1>1. UNCHANGED <<data, version, history, task, view, lastVersion, sync, inbox>>
  BY DEF LoadGame, serverVars, clientVars
<1>2. \A v \in 0..version : Covered(v)' = Covered(v)
  BY <1>1, HistoryAsBefore
<1>3. /\ conn \in [Clients -> Conn] /\ conn[e] \in Conn /\ version \in Nat
      /\ conn[e].version \in 0..version /\ data \in Details
  BY ClientTypes DEF TypeInv, TypeOK, NewsInv, Behind
<1> PICK v : v = conn[e].version
  OBVIOUS
<1>4. gameRead'.version = v /\ AtLeast(gameRead'.details, Covered(v))
  <2>1. CASE Joinable(v)
    <3>1. gameRead' = gameRead /\ gameRead.version = v /\ gameRead # None
      BY <2>1 DEF LoadGame, Joinable
    <3>2. AtLeast(gameRead.details, Covered(gameRead.version))
      BY <3>1 DEF CoverInv, ObjectCovers
    <3> QED BY <3>1, <3>2
  <2>2. CASE ~Joinable(v)
    <3>1. gameRead' = [version |-> v, details |-> data]
      BY <2>2 DEF LoadGame
    <3>2. AtLeast(data, Covered(v))
      BY <1>3, DataCovers DEF CoverInv, ObjectCovers
    <3>3. gameRead'.version = v /\ gameRead'.details = data
      BY <3>1
    <3> QED BY <3>2, <3>3
  <2> QED BY <2>1, <2>2
<1>5. Covered(v)' = Covered(v) /\ v <= version
  BY <1>2, <1>3
<1>6. (gameRead.version <= version /\ AtLeast(gameRead.details, Covered(gameRead.version)))'
  BY <1>1, <1>4, <1>5 DEF AtLeast, Covered
<1>7. ObjectCovers'
  <2>1. HistoryGrows'
    BY <1>1, HistoryAsBefore DEF CoverInv, ObjectCovers
  <2>2. (task # None => task.details = data /\ \A i \in 1..Len(task.left) : Faithful(task.left[i]))'
    BY <1>1 DEF CoverInv, ObjectCovers, Faithful, Covered
  <2> QED BY <1>6, <2>1, <2>2 DEF ObjectCovers
<1>8. conn' = [conn EXCEPT ![e].stage = "loaded", ![e].details = gameRead'.details]
  BY DEF LoadGame
<1>9. ASSUME NEW c \in Clients PROVE ClientCovers(c)'
  <2>1. QueueFaithful(c)'
    BY <1>1, <1>2, QueueAsBefore DEF NewsInv, CoverInv, ClientCovers
  <2>2. CASE c # e
    <3>1. conn'[c] = conn[c]
      BY <1>3, <1>8, <2>2
    <3>2. CopiesCover(c)'
      BY <1>1, <1>2, <3>1, CopiesAsBefore DEF NewsInv, CoverInv, ClientCovers
    <3> QED BY <2>1, <3>2 DEF ClientCovers
  <2>3. CASE c = e
    <3> PICK d : d = gameRead'.details
      OBVIOUS
    <3>1. conn'[c].version = v /\ conn'[c].details = d
      BY <1>3, <1>8, <2>3 DEF Conn
    <3>2. AtLeast(conn[c].details, Covered(conn[c].version))'
      BY <1>4, <1>5, <3>1 DEF AtLeast
    <3>3. CopiesCover(c)
      BY DEF CoverInv, ClientCovers
    <3>4. (sync[c].stage = "loaded" => AtLeast(sync[c].details, Covered(sync[c].version)))'
      BY <1>1, <3>3 DEF CopiesCover, AtLeast, Covered
    <3>5. Shows(c, view[c], lastVersion[c])'
      BY <1>1, <3>3 DEF CopiesCover, Shows, Covered
    <3>6. CopiesCover(c)'
      BY <3>2, <3>4, <3>5 DEF CopiesCover
    <3> QED BY <2>1, <3>6 DEF ClientCovers
  <2> QED BY <2>2, <2>3
<1> QED BY <1>7, <1>9 DEF CoverInv

\* The snapshot says what the read of its connection found.
LEMMA GreetCovers ==
    ASSUME TypeInv, NewsInv, CoverInv, NEW e \in Clients, Greet(e)
    PROVE  CoverInv'
<1>1. UNCHANGED <<data, version, history, task, gameRead, view, lastVersion, sync>>
  BY DEF Greet, serverVars, clientVars
<1>2. \A v \in 0..version : Covered(v)' = Covered(v)
  BY <1>1, HistoryAsBefore
<1>3. ObjectCovers'
  BY <1>1, ObjectAsBefore DEF CoverInv
<1> PICK m : m = Message("GAME_SNAPSHOT", conn[e].version, conn[e].details)
  OBVIOUS
<1>4. /\ m \in Event /\ m.type = "GAME_SNAPSHOT" /\ m.version = conn[e].version
      /\ m.details = conn[e].details /\ m.version <= version
  <2>1. conn[e].version \in Nat /\ conn[e].details \in Details /\ conn[e].version <= version
    BY ClientTypes DEF Conn, NewsInv, Behind
  <2> QED BY <2>1, MessageType
<1>5. Faithful(m)
  <2>1. AtLeast(conn[e].details, Covered(conn[e].version))
    BY DEF Greet, CoverInv, ClientCovers, CopiesCover
  <2> QED BY <1>4, <2>1 DEF Faithful
<1>6. ASSUME NEW c \in Clients PROVE ClientCovers(c)'
  <2>1. inbox'[c] = inbox[c] \/ inbox'[c] = Append(inbox[c], m)
    BY DEF Greet, SendTo
  <2>2. Behind(c) /\ CopiesCover(c) /\ QueueFaithful(c)
    BY DEF NewsInv, CoverInv, ClientCovers
  <2>3. QueueFaithful(c)'
    BY <1>2, <1>4, <1>5, <2>1, <2>2, QueueAsBefore, QueueSent
  <2>4. conn'[c] = conn[c] \/ conn'[c].stage = "greeted"
    BY DEF Greet, TypeInv, TypeOK, NoConn
  <2>5. CopiesCover(c)'
    BY <1>1, <1>2, <2>2, <2>4, CopiesAsBefore
  <2> QED BY <2>3, <2>5 DEF ClientCovers
<1> QED BY <1>3, <1>6 DEF CoverInv

\* What Disconnect does to the copies and queues of a client.
LEMMA DisconnectFacts ==
    ASSUME TypeInv, NEW e \in Clients, Disconnect(e), NEW c \in Clients
    PROVE  /\ conn'[c] = conn[c] \/ conn'[c].stage = "idle"
           /\ inbox'[c] \in {inbox[c], <<>>, Append(inbox[c], Presence)}
<1>1. conn'[c] = conn[c] \/ conn'[c].stage = "idle"
  BY DEF Disconnect, NoConn, TypeInv, TypeOK
<1>2. inbox'[c] \in {inbox[c], <<>>, Append(inbox[c], Presence)}
  BY Zenon DEF Disconnect
<1> QED BY <1>1, <1>2

\* Steps of a round, and the end of a socket.
LEMMA RoundCovers ==
    ASSUME TypeInv, NewsInv, CoverInv, NEW e \in Clients,
           Break(e) \/ Trigger(e) \/ TellVersion(e) \/ HearVersion(e)
              \/ ReadGame(e) \/ FetchFails(e)
    PROVE  CoverInv'
<1>1. UNCHANGED <<data, version, history, task, gameRead, view, lastVersion>>
  BY DEF Break, Trigger, TellVersion, HearVersion, ReadGame, FetchFails, serverVars, clientVars
<1>2. \A v \in 0..version : Covered(v)' = Covered(v)
  BY <1>1, HistoryAsBefore
<1>3. ObjectCovers'
  BY <1>1, ObjectAsBefore DEF CoverInv
<1>4. ASSUME NEW c \in Clients PROVE ClientCovers(c)'
  <2>0. sync \in [Clients -> Sync] /\ sync[e] \in Sync /\ sync[c] \in Sync
        /\ Behind(c) /\ CopiesCover(c) /\ QueueFaithful(c)
    BY DEF TypeInv, TypeOK, NewsInv, CoverInv, ClientCovers
  <2> PICK m : m = Presence
    OBVIOUS
  <2>1. /\ conn'[c] = conn[c] \/ conn'[c].stage = "idle"
        /\ inbox'[c] \in {inbox[c], <<>>, Append(inbox[c], m)}
    <3>1. Disconnect(e) \/ (conn' = conn /\ inbox' = inbox)
      BY DEF Break, Trigger, TellVersion, HearVersion, ReadGame, FetchFails
    <3> QED BY <3>1, DisconnectFacts
  <2>2. m \in Event /\ m.version <= version
    BY PresenceType, ClientTypes DEF TypeInv
  <2>3. Faithful(m)
    BY PresenceFaithful DEF TypeInv, Faithful
  <2>4. QueueFaithful(c)'
    BY <1>2, <2>0, <2>1, <2>2, <2>3, QueueAsBefore, QueueSent
  <2>5. CASE c = e /\ ReadGame(e)
    <3>1. sync'[c].version = sync[c].version /\ sync'[c].details = data
          /\ conn' = conn /\ sync[c].version \in 0..version
      BY <2>0, <2>5, ClientTypes DEF ReadGame, Sync, Behind
    <3> PICK v : v = sync[c].version
      OBVIOUS
    <3>2. AtLeast(data, Covered(v)) /\ Covered(v)' = Covered(v)
      BY <1>2, <3>1, DataCovers DEF CoverInv, ObjectCovers
    <3>3. AtLeast(sync[c].details, Covered(sync[c].version))'
      BY <3>1, <3>2 DEF AtLeast
    <3>4. (conn[c].stage \in {"loaded", "accepted"} => AtLeast(conn[c].details, Covered(conn[c].version)))'
      BY <1>1, <2>0, <3>1 DEF CopiesCover, AtLeast, Covered
    <3>5. Shows(c, view[c], lastVersion[c])'
      BY <1>1, <2>0 DEF CopiesCover, Shows, Covered
    <3>6. CopiesCover(c)'
      BY <3>3, <3>4, <3>5 DEF CopiesCover
    <3> QED BY <2>4, <3>6 DEF ClientCovers
  <2>6. CASE ~(c = e /\ ReadGame(e))
    <3>1. sync'[c].stage = "loaded" => sync'[c].stage = sync[c].stage /\ sync'[c].version = sync[c].version
             /\ sync'[c].details = sync[c].details
      <4>1. CASE c # e
        BY <2>0, <4>1 DEF Break, Trigger, TellVersion, HearVersion, ReadGame, FetchFails, clientVars
      <4>2. CASE c = e
        <5>1. \/ sync'[c] = sync[c] \/ sync'[c] = Requested(sync[c])
              \/ sync'[c] = [sync[c] EXCEPT !.stage = "told", !.version = version]
              \/ sync'[c] = RoundOver(sync[c])
              \/ sync'[c] = [sync[c] EXCEPT !.stage = "reading"]
              \/ sync'[c] = NoSync
          BY <2>0, <2>6, <4>2 DEF Break, Trigger, TellVersion, HearVersion, FetchFails, clientVars
        <5>2. Requested(sync[c]).stage = "loaded" =>
                 /\ sync[c].stage = "loaded" /\ Requested(sync[c]).version = sync[c].version
                 /\ Requested(sync[c]).details = sync[c].details
          BY <2>0 DEF Requested, Sync
        <5>3. RoundOver(sync[c]).stage # "loaded" /\ NoSync.stage # "loaded"
          BY DEF RoundOver, NoSync
        <5>4. /\ [sync[c] EXCEPT !.stage = "told", !.version = version].stage # "loaded"
              /\ [sync[c] EXCEPT !.stage = "reading"].stage # "loaded"
          BY <2>0 DEF Sync
        <5> QED BY <5>1, <5>2, <5>3, <5>4
      <4> QED BY <4>1, <4>2
    <3>2. CopiesCover(c)'
      BY <1>1, <1>2, <2>0, <2>1, <3>1, CopiesAsBefore
    <3> QED BY <2>4, <3>2 DEF ClientCovers
  <2> QED BY <2>5, <2>6
<1> QED BY <1>3, <1>4 DEF CoverInv

\* A client whose screen changes, with no other copy left behind.
LEMMA ScreenCovers ==
    ASSUME TypeInv, NewsInv, CoverInv, NEW e \in Clients,
           UNCHANGED <<data, version, history, task, gameRead, conn>>,
           \A c \in Clients \ {e} : /\ view'[c] = view[c] /\ sync'[c] = sync[c]
                                    /\ lastVersion'[c] = lastVersion[c]
                                    /\ inbox'[c] = inbox[c],
           inbox'[e] = inbox[e] \/ (inbox[e] # <<>> /\ inbox'[e] = Tail(inbox[e])),
           sync'[e].stage = "loaded" =>
              /\ sync[e].stage = "loaded" /\ sync'[e].version = sync[e].version
              /\ sync'[e].details = sync[e].details,
           NEW w, NEW v, view'[e] = w, lastVersion'[e] = v, Shows(e, w, v)
    PROVE  CoverInv'
<1>1. \A u \in 0..version : Covered(u)' = Covered(u)
  BY HistoryAsBefore
<1>2. ObjectCovers'
  BY ObjectAsBefore DEF CoverInv
<1>3. ASSUME NEW c \in Clients PROVE ClientCovers(c)'
  <2>1. QueueFaithful(c)'
    BY <1>1, QueueAsBefore DEF NewsInv, CoverInv, ClientCovers
  <2>2. CopiesCover(c)
    BY DEF CoverInv, ClientCovers
  <2>3. CASE c # e
    <3>1. CopiesCover(c)'
      BY <1>1, <2>2, <2>3, CopiesAsBefore DEF NewsInv
    <3> QED BY <2>1, <3>1 DEF ClientCovers
  <2>4. CASE c = e
    <3>1. Shows(c, view[c], lastVersion[c])'
      BY <2>4 DEF Shows, Covered
    <3>2. (conn[c].stage \in {"loaded", "accepted"} => AtLeast(conn[c].details, Covered(conn[c].version)))'
      BY <2>2 DEF CopiesCover, AtLeast, Covered
    <3>3. (sync[c].stage = "loaded" => AtLeast(sync[c].details, Covered(sync[c].version)))'
      BY <2>2, <2>4 DEF CopiesCover, AtLeast, Covered
    <3>4. CopiesCover(c)'
      BY <3>1, <3>2, <3>3 DEF CopiesCover
    <3> QED BY <2>1, <3>4 DEF ClientCovers
  <2> QED BY <2>3, <2>4
<1> QED BY <1>2, <1>3 DEF CoverInv

\* A round shows what it read after it was told the version.
LEMMA ApplyGameCovers ==
    ASSUME TypeInv, NewsInv, CoverInv, NEW e \in Clients, ApplyGame(e)
    PROVE  CoverInv'
<1>1. /\ UNCHANGED <<data, version, history, task, gameRead, conn, inbox>>
      /\ sync' = [sync EXCEPT ![e] = RoundOver(sync[e])]
  BY DEF ApplyGame, serverVars
<1>2. /\ sync \in [Clients -> Sync] /\ view \in [Clients -> Details]
      /\ lastVersion \in [Clients -> Nat] /\ sync[e] \in Sync
  BY DEF TypeInv, TypeOK
<1>3. sync'[e].stage # "loaded"
  BY <1>1, <1>2 DEF RoundOver, NoSync
<1>4. CopiesCover(e)
  BY DEF CoverInv, ClientCovers
<1>5. \A c \in Clients \ {e} : /\ view'[c] = view[c] /\ sync'[c] = sync[c]
                               /\ lastVersion'[c] = lastVersion[c]
  BY <1>1, <1>2 DEF ApplyGame
<1> PICK w : w = view'[e]
  OBVIOUS
<1> PICK v : v = lastVersion'[e]
  OBVIOUS
<1>6. Shows(e, w, v)
  <2>1. CASE view' = view /\ lastVersion' = lastVersion
    BY <1>4, <2>1 DEF CopiesCover
  <2>2. CASE view'[e] = sync[e].details /\ lastVersion'[e] = sync[e].version
    <3>1. AtLeast(sync[e].details, Covered(sync[e].version))
      BY <1>4 DEF CopiesCover, ApplyGame
    <3> QED BY <2>2, <3>1 DEF Shows, AtLeast
  <2> QED BY <1>2, <2>1, <2>2 DEF ApplyGame
<1> QED BY <1>1, <1>3, <1>5, <1>6, ScreenCovers

\* A live event that is accepted shows at least what its version covers.
LEMMA AppliedCovers ==
    ASSUME TypeInv, NEW c \in Clients, NEW w \in Details, NEW l \in 0..version,
           Shows(c, w, l), NEW m \in Event, m.version <= version, Faithful(m),
           m.type \in {"GAME_COMMITTED", "AUCTION_UPDATED"},
           acceptsLiveVersion(l, m.version)
    PROVE  Shows(c, Applied(w, m.type, m.details), m.version)
<1> PICK v : v = m.version
  OBVIOUS
<1>0. v \in 0..version /\ version \in Nat /\ m.details \in Details /\ (v = l \/ v = l + 1)
  BY DEF Event, TypeInv, TypeOK, acceptsLiveVersion
<1>1. v > 0 => v - 1 \in 0..version /\ (v = l + 1 => v - 1 = l)
  BY <1>0
<1>2. Covered(v) \in Details /\ (v > 0 => Covered(v - 1) \in Details) /\ Covered(l) \in Details
  BY <1>0, <1>1, CoveredType DEF TypeInv
<1>3. CASE m.type = "GAME_COMMITTED"
  <2>1. v > 0 /\ m.details.ledger >= Covered(v).ledger
        /\ Covered(v).auction = Covered(v - 1).auction
    BY <1>3 DEF Faithful
  <2>2. Covered(v).auction = Covered(l).auction
    BY <1>0, <1>1, <2>1
  <2>3. Applied(w, m.type, m.details).ledger = m.details.ledger
        /\ Applied(w, m.type, m.details).auction = w.auction
    BY <1>3 DEF Applied, Details
  <2> QED BY <2>1, <2>2, <2>3 DEF Shows
<1>4. CASE m.type = "AUCTION_UPDATED"
  <2>1. v > 0 /\ m.details.auction >= Covered(v).auction
        /\ Covered(v).ledger = Covered(v - 1).ledger
    BY <1>4 DEF Faithful
  <2>2. Covered(v).ledger = Covered(l).ledger
    BY <1>0, <1>1, <2>1
  <2>3. Applied(w, m.type, m.details).ledger = w.ledger
        /\ Applied(w, m.type, m.details).auction >= m.details.auction
    BY <1>0, <1>4 DEF Applied, Details
  <2>4. Applied(w, m.type, m.details).auction >= Covered(v).auction
    <3>1. Applied(w, m.type, m.details) \in Details
      BY <1>0, <1>4, AppliedType
    <3> QED BY <1>0, <1>2, <2>1, <2>3, <3>1 DEF Details
  <2> QED BY <2>2, <2>3, <2>4 DEF Shows
<1> QED BY <1>3, <1>4

\* A delivered message shows what its version covers.
LEMMA DeliverCovers ==
    ASSUME TypeInv, NewsInv, CoverInv, NEW e \in Clients, Deliver(e)
    PROVE  CoverInv'
<1>1. UNCHANGED <<data, version, history, task, gameRead, conn>>
  BY DEF Deliver, serverVars
<1>2. /\ sync \in [Clients -> Sync] /\ view \in [Clients -> Details]
      /\ lastVersion \in [Clients -> Nat] /\ sync[e] \in Sync
      /\ inbox \in [Clients -> Seq(Event)] /\ inbox[e] # <<>>
      /\ lastVersion[e] \in 0..version
  BY ClientTypes DEF TypeInv, TypeOK, Deliver, NewsInv, Behind
<1>3. sync'[e].stage = "loaded" =>
         /\ sync[e].stage = "loaded" /\ sync'[e].version = sync[e].version
         /\ sync'[e].details = sync[e].details
  <2>1. sync' = sync \/ sync' = [sync EXCEPT ![e] = Requested(sync[e])]
    BY DEF Deliver
  <2> QED BY <1>2, <2>1 DEF Requested, Sync
<1>4. \A c \in Clients \ {e} : /\ view'[c] = view[c] /\ sync'[c] = sync[c]
                               /\ lastVersion'[c] = lastVersion[c]
                               /\ inbox'[c] = inbox[c]
  BY <1>2 DEF Deliver
<1>5. inbox'[e] = Tail(inbox[e])
  BY <1>2 DEF Deliver
<1> PICK m : m = Head(inbox[e])
  OBVIOUS
<1>6. m \in Event /\ m.version <= version /\ Faithful(m)
  <2>1. m = inbox[e][1] /\ 1 \in 1..Len(inbox[e]) /\ m \in Event
    BY <1>2, TailFacts
  <2> QED BY <2>1 DEF NewsInv, Behind, Within, CoverInv, ClientCovers, QueueFaithful, Faithful
<1> PICK w : w = view'[e]
  OBVIOUS
<1> PICK v : v = lastVersion'[e]
  OBVIOUS
<1>7. Shows(e, view[e], lastVersion[e])
  BY DEF CoverInv, ClientCovers, CopiesCover
<1>8. Shows(e, w, v)
  <2>1. CASE view' = view /\ lastVersion' = lastVersion
    BY <1>7, <2>1
  <2>2. CASE m.type = "GAME_SNAPSHOT" /\ view'[e] = m.details /\ lastVersion'[e] = m.version
    <3>1. AtLeast(m.details, Covered(m.version))
      BY <1>6, <2>2 DEF Faithful
    <3> QED BY <2>2, <3>1 DEF AtLeast, Shows
  <2>3. CASE /\ m.type \in {"GAME_COMMITTED", "AUCTION_UPDATED"}
             /\ acceptsLiveVersion(lastVersion[e], m.version)
             /\ view'[e] = Applied(view[e], m.type, m.details)
             /\ lastVersion'[e] = m.version
    <3>1. view[e] \in Details
      BY <1>2
    <3> QED BY <1>2, <1>6, <1>7, <2>3, <3>1, AppliedCovers
  <2> QED BY <1>2, <2>1, <2>2, <2>3 DEF Deliver
<1> QED BY <1>1, <1>2, <1>3, <1>4, <1>5, <1>8, ScreenCovers

\* An answer changes the ledger of a client that pays, and no auction backwards.
LEMMA HearAnswerCovers ==
    ASSUME TypeInv, NewsInv, CoverInv, NEW e \in Clients, HearAnswer(e)
    PROVE  CoverInv'
<1>1. UNCHANGED <<data, version, history, task, gameRead, conn, inbox, lastVersion, sync>>
  BY DEF HearAnswer, serverVars
<1>2. PICK a \in answers[e] : view' = [view EXCEPT ![e] = Applied(view[e], a.kind, a.details)]
  BY DEF HearAnswer
<1>3. /\ view \in [Clients -> Details] /\ view[e] \in Details /\ a.details \in Details
      /\ OwnAnswer(e, a.kind)
  BY DEF TypeInv, TypeOK, AnswersAreOwn
<1>4. view'[e] = Applied(view[e], a.kind, a.details)
      /\ \A c \in Clients \ {e} : view'[c] = view[c]
  BY <1>2, <1>3
<1> PICK w : w = view'[e]
  OBVIOUS
<1> PICK v : v = lastVersion[e]
  OBVIOUS
<1>5. Shows(e, view[e], v)
  BY DEF CoverInv, ClientCovers, CopiesCover
<1>6. v \in 0..version /\ Covered(v) \in Details
  BY ClientTypes, CoveredType DEF NewsInv, Behind, TypeInv
<1>7. Shows(e, w, v)
  <2>1. CASE a.kind = "AUCTION"
    <3>1. w \in Details /\ w.ledger = view[e].ledger /\ w.auction >= view[e].auction
      BY <1>3, <1>4, <2>1 DEF Applied, Details
    <3> QED BY <1>3, <1>5, <1>6, <3>1 DEF Shows, Details
  <2>2. CASE a.kind = "PAY" /\ e \in Payers
    <3>1. w.auction = view[e].auction
      BY <1>3, <1>4, <2>2 DEF Applied, Details
    <3> QED BY <1>5, <2>2, <3>1 DEF Shows
  <2> QED BY <1>3, <2>1, <2>2 DEF OwnAnswer
<1> QED BY <1>1, <1>4, <1>7, ScreenCovers

\* Every step keeps what is shown and what is on its way covering its version.
LEMMA CoversKept == OneBroadcastEach /\ TypeInv /\ NewsInv /\ CoverInv /\ [Next]_vars => CoverInv'
<1> SUFFICES ASSUME OneBroadcastEach, TypeInv, NewsInv, CoverInv, [Next]_vars PROVE CoverInv'
  OBVIOUS
<1>1. CASE UNCHANGED vars
  <2>1. UNCHANGED <<data, version, history, task, gameRead, conn, inbox, view, lastVersion, sync>>
    BY <1>1 DEF vars, serverVars, clientVars
  <2>2. ObjectCovers'
    BY <2>1, ObjectAsBefore DEF CoverInv
  <2>3. ASSUME NEW c \in Clients PROVE ClientCovers(c)'
    BY <2>1, HistoryAsBefore, CopiesAsBefore, QueueAsBefore DEF CoverInv, ClientCovers, NewsInv
  <2> QED BY <2>2, <2>3 DEF CoverInv
<1>2. ASSUME NEW kind \in Kinds, NEW sender \in Senders[kind], Commit(kind, sender)
      PROVE  CoverInv'
  BY <1>2, CommandCovers
<1>3. ASSUME NEW kind \in Kinds, Recover(kind) PROVE CoverInv'
  BY <1>3, CommandCovers
<1>4. CASE TaskStep \/ StepFails \/ Crash \/ GameReadEnds
  BY <1>4, CountVersionCovers, PublishCovers, FailureCovers DEF TaskStep
<1>5. ASSUME NEW c \in Clients, SocketStep(c) \/ Break(c) PROVE CoverInv'
  BY <1>5, ConnectCovers, LoadGameCovers, GreetCovers, DeliverCovers, RoundCovers DEF SocketStep
<1>6. ASSUME NEW c \in Clients,
             SyncStep(c) \/ Trigger(c) \/ FetchFails(c) \/ HearAnswer(c)
      PROVE  CoverInv'
  BY <1>6, RoundCovers, ApplyGameCovers, HearAnswerCovers DEF SyncStep
<1> QED BY <1>1, <1>2, <1>3, <1>4, <1>5, <1>6 DEF Next

\* Version 0 covers nothing.
LEMMA InitCovers == Init => CoverInv
<1> SUFFICES ASSUME Init PROVE CoverInv
  OBVIOUS
<1>1. version = 0 /\ data = Nothing /\ task = None /\ gameRead = None
  BY DEF Init
<1>2. Covered(0) = Nothing /\ AtLeast(Nothing, Nothing)
  BY DEF Covered, AtLeast, Nothing
<1>3. ObjectCovers
  BY <1>1, <1>2 DEF ObjectCovers, HistoryGrows
<1>4. ASSUME NEW c \in Clients PROVE ClientCovers(c)
  <2>1. /\ conn[c].stage = "idle" /\ sync[c].stage = "idle" /\ inbox[c] = <<>>
        /\ view[c] = Nothing /\ lastVersion[c] = 0
    BY DEF Init, NoConn, NoSync
  <2>2. Shows(c, Nothing, 0)
    BY <1>2 DEF Shows, Nothing
  <2> QED BY <2>1, <2>2 DEF ClientCovers, CopiesCover, QueueFaithful
<1> QED BY <1>3, <1>4 DEF CoverInv

\* A client that does not pay, in a game without settlements, shows at any
\* moment at least what the version it believes in covers, and any client the
\* auction of it.
ViewsCover == \A c \in Clients : Shows(c, view[c], lastVersion[c])

\* In games without settlements every view covers, at every moment, what the
\* version its client believes in has changed: the auction of any client, the
\* ledger of one that does not pay (the stamp of game-session.ts 737-740,
\* applyLiveEvent and newerAuction of useGameSync.ts).
THEOREM ViewsAlwaysCover ==
    ASSUME OneBroadcastEach
    PROVE  Spec => []ViewsCover
<1>1. CoverInv => ViewsCover
  BY DEF CoverInv, ClientCovers, CopiesCover, ViewsCover
<1>2. Spec => [](TypeInv /\ NewsInv /\ CoverInv)
  <2>1. TypeInv /\ NewsInv /\ CoverInv /\ [Next]_vars => CoverInv'
    BY CoversKept
  <2> QED BY InitTypes, TypesKept, InitNews, NewsKept, InitCovers, <2>1, PTL DEF Spec
<1> QED BY <1>1, <1>2, PTL

\* Therefore connected views cover their version when no followed client pays.
\* Both hypotheses are needed: MCLiveSync_split.cfg and MCLiveSync_answer.cfg show
\* the property violated without the one and the other.
THEOREM ConnectedViewsAlwaysCover ==
    ASSUME OneBroadcastEach, NobodyPays
    PROVE  Spec => []ConnectedViewsCover
<1>1. ViewsCover => ConnectedViewsCover
  BY DEF NobodyPays, ViewsCover, ConnectedViewsCover, Shows, AtLeast
<1> QED BY <1>1, ViewsAlwaysCover, PTL
=============================================================================
