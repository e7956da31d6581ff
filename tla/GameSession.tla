---------------------------- MODULE GameSession ----------------------------
(***************************************************************************)
(* The command pipeline of worker/game-session.ts: one Durable Object per  *)
(* game runs every mutation through a FIFO queue, remembers completed      *)
(* command identifiers in a D1 ledger and counts state versions in object  *)
(* storage.  Each await between two durable writes is a step of its own,   *)
(* so the object may crash, or one step may fail, between any two of them. *)
(*                                                                         *)
(* Effects are those of five executors on one wallet and one payment       *)
(* request, one for each way an executor recognises a repeated command:    *)
(* by the transaction that carries the command identifier (DEBIT, CREDIT:  *)
(* createTransaction), by the state of the request (ACCEPT, DECLINE) and   *)
(* by rules checked before the stored transaction (BANKRUPT).              *)
(***************************************************************************)
EXTENDS Integers, Sequences, FiniteSetsExt

CONSTANTS
    Calls,          \* HTTP mutation requests; a retry belongs to its call
    Actors,         \* signed-in users
    Ids,            \* command identifiers (client-made UUIDs)
    Requests,       \* the commands callers may send
    StartBalance,   \* what the wallet holds at the start
    MaxFailures,    \* bound on crashes and failed steps together
    LateWrites,     \* may a D1 write outlive the step that issued it?
    None            \* absent row, absent entry, absent answer

CommandKinds == {"DEBIT", "CREDIT", "ACCEPT", "DECLINE", "BANKRUPT"}

Body == [actor : Actors, kind : CommandKinds]

ASSUME RequestsAssumption == Requests \subseteq [id : Ids, body : Body]
ASSUME BalanceAssumption == StartBalance \in Nat
ASSUME BoundAssumption == MaxFailures \in Nat /\ LateWrites \in BOOLEAN

VARIABLES
    \* D1
    wallet,         \* players.balance of the paying player
    status,         \* players.status of that player
    request,        \* payment_requests row: state and transaction_id
    overdue,        \* has its expires_at passed on D1's clock?
    transactions,   \* transactions row by identifier
    ledger,         \* command_ledger row by command identifier
    \* Durable Object storage
    stateVersion,
    \* the live instance
    queue,          \* identifiers of the commands in the promise chain
    inFlight,       \* inFlightCommands: the body behind each queued identifier
    work,           \* how far the command at the head has come
    \* callers and sockets
    call,           \* each call's progress
    announced,      \* the last state version broadcast
    \* D1 writes whose issuer is gone
    lateBatches,
    lateCompletions,
    failures,       \* crashes and failed steps so far
    \* history
    commitVersion   \* stateVersion when the transaction was written

d1Vars == <<wallet, status, request, overdue, transactions, commitVersion>>
instanceVars == <<queue, inFlight, work>>
lateVars == <<lateBatches, lateCompletions>>
vars == <<d1Vars, ledger, stateVersion, instanceVars, call, announced,
          lateVars, failures>>

-----------------------------------------------------------------------------
(* Replies, rows and writes *)

Codes == {"OK", "REFUSED", "REUSED", "FAILED"}
Reply == [code : Codes, txn : Ids \cup {None}]
Ok(t)   == [code |-> "OK", txn |-> t]
Refused == [code |-> "REFUSED", txn |-> None]
Reused  == [code |-> "REUSED", txn |-> None]
Failed  == [code |-> "FAILED", txn |-> None]

Row == [body : Body, delta : Int]
Entry == [body : Body, reply : Reply]
Batch == {w \in [id : Ids, body : Body, before : Nat, delta : Int] :
            w.before + w.delta >= 0}
Completion == [id : Ids, body : Body, reply : Reply]
RequestStates == {"PENDING", "ACCEPTED", "DECLINED", "EXPIRED"}

Stages == {"idle", "claimed", "writing", "executed", "bumped", "completed",
           "published"}
Idle == [stage |-> "idle", plan |-> None, reply |-> None, version |-> 0]
Work == [stage : Stages, plan : Batch \cup {None},
         reply : Reply \cup {None}, version : Nat]

CallStates == {"idle", "sent", "waiting", "answered", "lost"}
Call == [state : CallStates, req : Requests \cup {None},
         reply : Reply \cup {None}]

\* None is no value of any of these kinds.
ASSUME NoneAssumption ==
    /\ None \notin Ids /\ None \notin Body /\ None \notin Requests
    /\ None \notin Row /\ None \notin Entry /\ None \notin Batch
    /\ None \notin Reply

\* Every variable keeps the shape of the column, key or field it stands for; in
\* particular the wallet never goes below zero (players.balance CHECK).
TypeOK ==
    /\ wallet \in Nat
    /\ status \in {"ACTIVE", "BANKRUPT"}
    /\ request \in [state : RequestStates, txn : Ids \cup {None}]
    /\ overdue \in BOOLEAN
    /\ transactions \in [Ids -> Row \cup {None}]
    /\ commitVersion \in [Ids -> Nat]
    /\ ledger \in [Ids -> Entry \cup {None}]
    /\ stateVersion \in Nat
    /\ queue \in Seq(Ids)
    /\ inFlight \in [Ids -> Body \cup {None}]
    /\ work \in Work
    /\ call \in [Calls -> Call]
    /\ announced \in Nat
    /\ lateBatches \subseteq Batch
    /\ lateCompletions \subseteq Completion
    /\ failures \in Nat

Init ==
    /\ wallet = StartBalance
    /\ status = "ACTIVE"
    /\ request = [state |-> "PENDING", txn |-> None]
    /\ overdue = FALSE
    /\ transactions = [t \in Ids |-> None]
    /\ commitVersion = [t \in Ids |-> 0]
    /\ ledger = [c \in Ids |-> None]
    /\ stateVersion = 0
    /\ queue = <<>>
    /\ inFlight = [c \in Ids |-> None]
    /\ work = Idle
    /\ call = [k \in Calls |-> [state |-> "idle", req |-> None, reply |-> None]]
    /\ announced = 0
    /\ lateBatches = {}
    /\ lateCompletions = {}
    /\ failures = 0

-----------------------------------------------------------------------------
(* Callers *)

\* A client sends a command: a first try, or a second device sending a copy.
Send(k, r) ==
    /\ call[k].state = "idle"
    /\ call' = [call EXCEPT ![k].state = "sent", ![k].req = r]
    /\ UNCHANGED <<d1Vars, ledger, stateVersion, instanceVars, announced,
                   lateVars, failures>>

\* The form keeps its command identifier until it changes, so a caller that
\* got no answer, or a server error, sends the same command again.
Retry(k) ==
    /\ \/ call[k].state = "lost"
       \/ call[k].state = "answered" /\ call[k].reply = Failed
    /\ call' = [call EXCEPT ![k].state = "sent", ![k].reply = None]
    /\ UNCHANGED <<d1Vars, ledger, stateVersion, instanceVars, announced,
                   lateVars, failures>>

-----------------------------------------------------------------------------
(* The queue *)

\* Mutated: every delivery takes a slot of its own.
DeliverWithoutLookup(k) ==
    /\ call[k].state = "sent"
    /\ queue' = Append(queue, call[k].req.id)
    /\ inFlight' = [inFlight EXCEPT ![call[k].req.id] = call[k].req.body]
    /\ call' = [call EXCEPT ![k].state = "waiting"]
    /\ UNCHANGED <<d1Vars, ledger, stateVersion, work, announced, lateVars,
                   failures>>

\* mutate: the in-flight map decides between a new slot in the promise chain,
\* the promise of the same command, and a conflict.
Deliver(k) ==
    /\ call[k].state = "sent"
    /\ LET c == call[k].req.id
           b == call[k].req.body
       IN \/ /\ inFlight[c] = None
             /\ queue' = Append(queue, c)
             /\ inFlight' = [inFlight EXCEPT ![c] = b]
             /\ call' = [call EXCEPT ![k].state = "waiting"]
          \/ /\ inFlight[c] = b
             /\ call' = [call EXCEPT ![k].state = "waiting"]
             /\ UNCHANGED <<queue, inFlight>>
          \/ /\ inFlight[c] \notin {None, b}
             /\ call' = [call EXCEPT ![k].state = "answered",
                                     ![k].reply = Reused]
             /\ UNCHANGED <<queue, inFlight>>
    /\ UNCHANGED <<d1Vars, ledger, stateVersion, work, announced, lateVars,
                   failures>>

Waiting(k, c) == call[k].state = "waiting" /\ call[k].req.id = c

\* Mutated: the in-flight entry outlives its task.
EndTaskKeepingEntry(reply) ==
    LET c == Head(queue)
    IN /\ queue' = Tail(queue)
       /\ work' = Idle
       /\ call' = [k \in Calls |->
                     IF Waiting(k, c)
                     THEN [call[k] EXCEPT !.state = "answered", !.reply = reply]
                     ELSE call[k]]
       /\ UNCHANGED inFlight

\* The promise settles: every call attached to it hears the outcome, the
\* in-flight entry goes and the next command gets the slot.
EndTask(reply) ==
    LET c == Head(queue)
    IN /\ queue' = Tail(queue)
       /\ inFlight' = [inFlight EXCEPT ![c] = None]
       /\ work' = Idle
       /\ call' = [k \in Calls |->
                     IF Waiting(k, c)
                     THEN [call[k] EXCEPT !.state = "answered", !.reply = reply]
                     ELSE call[k]]

At(stage) == queue # <<>> /\ work.stage = stage
HeadId == Head(queue)
HeadBody == inFlight[Head(queue)]

-----------------------------------------------------------------------------
(* Executors: what they read before they write *)

\* The request is pending and its time has not passed: what expirePending
\* leaves PENDING, and what the guard of settle asks for.
Open == request.state = "PENDING" /\ ~overdue

\* expirePending: a pending request whose time has passed is closed.
ExpirePending ==
    request' = IF request.state = "PENDING" /\ overdue
               THEN [request EXCEPT !.state = "EXPIRED"]
               ELSE request

\* Mutated: a transaction is not looked up by its command identifier.
RecognisedByRequestOnly(c, b) ==
    \/ b.kind = "ACCEPT" /\ request.state = "ACCEPTED"
    \/ b.kind = "DECLINE" /\ ~Open

\* The effect is found stored and its answer is built from it.  Only ACCEPTED
\* tells an accept that it has been done (acceptPaymentRequest).
Recognised(c, b) ==
    \/ b.kind \in {"DEBIT", "CREDIT"} /\ transactions[c] # None
    \/ b.kind = "BANKRUPT" /\ status = "ACTIVE" /\ transactions[c] # None
    \/ b.kind = "ACCEPT" /\ request.state = "ACCEPTED"
    \/ b.kind = "DECLINE" /\ ~Open

StoredReply(c, b) ==
    Ok(IF b.kind \in {"ACCEPT", "DECLINE"} THEN request.txn ELSE c)

\* Mutated: nobody asks whether the wallet covers the payment.
AllowedWithoutFunds(b) ==
    \/ b.kind \in {"DEBIT", "CREDIT", "BANKRUPT"} /\ status = "ACTIVE"
    \/ b.kind = "ACCEPT" /\ Open /\ status = "ACTIVE"
    \/ b.kind = "DECLINE"

\* The rules of the operation hold on the state that was read.
Allowed(b) ==
    \/ b.kind = "DEBIT" /\ status = "ACTIVE" /\ wallet >= 1
    \/ b.kind = "CREDIT" /\ status = "ACTIVE"
    \/ b.kind = "BANKRUPT" /\ status = "ACTIVE"
    \/ b.kind = "ACCEPT" /\ Open /\ status = "ACTIVE" /\ wallet >= 1
    \/ b.kind = "DECLINE"

Delta(b) == CASE b.kind \in {"DEBIT", "ACCEPT"} -> -1
              [] b.kind = "CREDIT" -> 1
              [] b.kind = "BANKRUPT" -> -wallet
              [] b.kind = "DECLINE" -> 0

\* Mutated: the new balance is written over whatever balance is there.
LandsOnAnyBalance(w) ==
    /\ w.body.kind = "ACCEPT" => Open
    /\ w.body.kind = "DECLINE" => request.state = "PENDING"
    /\ w.body.kind # "DECLINE" => transactions[w.id] = None

\* Mutated: the batch does not look at the state of the request.
LandsOnAnyRequest(w) ==
    w.body.kind # "DECLINE" =>
        /\ transactions[w.id] = None
        /\ w.delta # 0 => wallet = w.before

\* The guards inside the batch: the primary key of transactions, each balance
\* still as read (an operation that moves no money carries no such guard), the
\* request still open when money moves.  A decline asks only for PENDING.
Lands(w) ==
    /\ w.body.kind = "ACCEPT" => Open
    /\ w.body.kind = "DECLINE" => request.state = "PENDING"
    /\ w.body.kind # "DECLINE" =>
          /\ transactions[w.id] = None
          /\ w.delta # 0 => wallet = w.before

\* One atomic D1 batch; it stores the balance computed from the one it read.
\* Every statement of settle reads the clock: the request may expire between
\* the one that moves the money and the one that marks the request, which then
\* changes no row, and nothing after it takes the money back.
Write(w) ==
    /\ wallet' = CASE w.body.kind = "BANKRUPT" /\ status = "ACTIVE" -> 0
                   [] w.delta # 0 -> w.before + w.delta
                   [] OTHER -> wallet
    /\ status' = IF w.body.kind = "BANKRUPT" THEN "BANKRUPT" ELSE status
    /\ overdue' \in IF w.body.kind = "ACCEPT" THEN {overdue, TRUE} ELSE {overdue}
    /\ request' = CASE w.body.kind = "ACCEPT" /\ Open /\ ~overdue' ->
                           [state |-> "ACCEPTED", txn |-> w.id]
                    [] w.body.kind = "DECLINE" ->
                           [request EXCEPT !.state = "DECLINED"]
                    [] OTHER -> request
    /\ IF w.body.kind = "DECLINE"
       THEN UNCHANGED <<transactions, commitVersion>>
       ELSE /\ transactions' = [transactions EXCEPT ![w.id] =
                                  [body |-> w.body, delta |-> w.delta]]
            /\ commitVersion' = [commitVersion EXCEPT ![w.id] = stateVersion]

-----------------------------------------------------------------------------
(* The stages of startCommand *)

\* ledger.claim: a completed entry replays its answer, or refuses a command
\* that differs in actor, type or payload; no entry lets the command run.
Claim ==
    /\ At("idle")
    /\ LET entry == ledger[HeadId]
       IN \/ /\ entry = None
             /\ work' = [work EXCEPT !.stage = "claimed"]
             /\ UNCHANGED <<queue, inFlight, call>>
          \/ /\ entry # None
             /\ entry.body = HeadBody
             /\ EndTask(entry.reply)
          \/ /\ entry # None
             /\ entry.body # HeadBody
             /\ EndTask(Reused)
    /\ UNCHANGED <<d1Vars, ledger, stateVersion, announced, lateVars, failures>>

\* The executor reads D1: it answers from a stored effect, refuses, or issues
\* its batch.  The executors of the request expire it first.
Execute ==
    /\ At("claimed")
    /\ IF HeadBody.kind \in {"ACCEPT", "DECLINE"}
       THEN ExpirePending ELSE UNCHANGED request
    /\ LET c == HeadId
           b == HeadBody
       IN \/ /\ Recognised(c, b)
             /\ work' = [work EXCEPT !.stage = "executed",
                                     !.reply = StoredReply(c, b)]
             /\ UNCHANGED <<queue, inFlight, call>>
          \/ /\ ~Recognised(c, b)
             /\ Allowed(b)
             /\ work' = [work EXCEPT !.stage = "writing",
                           !.plan = [id |-> c, body |-> b, before |-> wallet,
                                     delta |-> Delta(b)]]
             /\ UNCHANGED <<queue, inFlight, call>>
          \/ /\ ~Recognised(c, b)
             /\ ~Allowed(b)
             /\ EndTask(Refused)
    /\ UNCHANGED <<wallet, status, overdue, transactions, commitVersion, ledger,
                   stateVersion, announced, lateVars, failures>>

\* The batch commits and its outcome is read back, or it rolls back.  A
\* DECLINE that changed no row reads back whatever state the request is in.
Commit ==
    /\ At("writing")
    /\ LET w == work.plan
       IN \/ /\ Lands(w)
             /\ Write(w)
             /\ work' = [work EXCEPT !.stage = "executed",
                           !.reply = IF w.body.kind = "DECLINE"
                                     THEN Ok(None) ELSE Ok(w.id)]
             /\ UNCHANGED <<queue, inFlight, call>>
          \/ /\ ~Lands(w)
             /\ w.body.kind = "DECLINE"
             /\ work' = [work EXCEPT !.stage = "executed",
                                     !.reply = Ok(request.txn)]
             /\ UNCHANGED <<d1Vars, queue, inFlight, call>>
          \/ /\ ~Lands(w)
             /\ w.body.kind # "DECLINE"
             /\ EndTask(Failed)
             /\ UNCHANGED d1Vars
    /\ UNCHANGED <<ledger, stateVersion, announced, lateVars, failures>>

\* Mutated: the new version is announced but never stored.
IncrementInMemory ==
    /\ At("executed")
    /\ work' = [work EXCEPT !.stage = "bumped", !.version = stateVersion + 1]
    /\ UNCHANGED <<d1Vars, ledger, stateVersion, queue, inFlight, call,
                   announced, lateVars, failures>>

IncrementStateVersion ==
    /\ At("executed")
    /\ stateVersion' = stateVersion + 1
    /\ work' = [work EXCEPT !.stage = "bumped", !.version = stateVersion + 1]
    /\ UNCHANGED <<d1Vars, ledger, queue, inFlight, call, announced, lateVars,
                   failures>>

\* Mutated: the last completion wins.
CompletedLastWins(m) ==
    [ledger EXCEPT ![m.id] = [body |-> m.body, reply |-> m.reply]]

\* INSERT ... ON CONFLICT DO UPDATE ... WHERE status = 'PENDING': an entry that
\* is already complete stays as it is.
Completed(m) ==
    IF ledger[m.id] = None
    THEN [ledger EXCEPT ![m.id] = [body |-> m.body, reply |-> m.reply]]
    ELSE ledger

Completing == [id |-> HeadId, body |-> HeadBody, reply |-> work.reply]

\* Mutated: the ledger row is written before the version is counted.
CompleteBeforeIncrement ==
    /\ At("executed")
    /\ ledger' = Completed(Completing)
    /\ work' = [work EXCEPT !.stage = "completed"]
    /\ UNCHANGED <<d1Vars, stateVersion, queue, inFlight, call, announced,
                   lateVars, failures>>

CompleteLedger ==
    /\ At("bumped")
    /\ ledger' = Completed(Completing)
    /\ work' = [work EXCEPT !.stage = "completed"]
    /\ UNCHANGED <<d1Vars, stateVersion, queue, inFlight, call, announced,
                   lateVars, failures>>

Publish ==
    /\ At("completed")
    /\ announced' = work.version
    /\ work' = [work EXCEPT !.stage = "published"]
    /\ UNCHANGED <<d1Vars, ledger, stateVersion, queue, inFlight, call,
                   lateVars, failures>>

Return ==
    /\ At("published")
    /\ EndTask(work.reply)
    /\ UNCHANGED <<d1Vars, ledger, stateVersion, announced, lateVars, failures>>

-----------------------------------------------------------------------------
(* Failures *)

\* A write already sent to D1 is not recalled when its issuer goes away.
Abandon ==
    \/ UNCHANGED lateVars
    \/ /\ LateWrites /\ work.stage = "writing"
       /\ lateBatches' = lateBatches \cup {work.plan}
       /\ UNCHANGED lateCompletions
    \/ /\ LateWrites /\ work.stage = "bumped"
       /\ lateCompletions' = lateCompletions \cup {Completing}
       /\ UNCHANGED lateBatches

\* One awaited call of the running command throws; the callers get an error
\* and the queue goes on with the next command.
StepFails ==
    /\ queue # <<>>
    /\ failures < MaxFailures
    /\ failures' = failures + 1
    /\ EndTask(Failed)
    /\ Abandon
    /\ UNCHANGED <<d1Vars, ledger, stateVersion, announced>>

\* The object is evicted or its isolate dies: only D1 and storage survive.
Crash ==
    /\ queue # <<>>
    /\ failures < MaxFailures
    /\ failures' = failures + 1
    /\ queue' = <<>>
    /\ inFlight' = [c \in Ids |-> None]
    /\ work' = Idle
    /\ call' = [k \in Calls |-> IF call[k].state = "waiting"
                                THEN [call[k] EXCEPT !.state = "lost"]
                                ELSE call[k]]
    /\ Abandon
    /\ UNCHANGED <<d1Vars, ledger, stateVersion, announced>>

LateBatchArrives(w) ==
    /\ w \in lateBatches
    /\ lateBatches' = lateBatches \ {w}
    /\ IF Lands(w) THEN Write(w) ELSE UNCHANGED d1Vars
    /\ UNCHANGED <<ledger, stateVersion, instanceVars, call, announced,
                   lateCompletions, failures>>

LateCompletionArrives(m) ==
    /\ m \in lateCompletions
    /\ lateCompletions' = lateCompletions \ {m}
    /\ ledger' = Completed(m)
    /\ UNCHANGED <<d1Vars, stateVersion, instanceVars, call, announced,
                   lateBatches, failures>>

\* Five minutes have passed since the request was made.  Once it is settled its
\* time no longer matters.
RequestFallsDue ==
    /\ Open
    /\ overdue' = TRUE
    /\ UNCHANGED <<wallet, status, request, transactions, commitVersion, ledger,
                   stateVersion, instanceVars, call, announced, lateVars,
                   failures>>

\* Somebody lists the requests, which expires those whose time has passed.
RequestExpires ==
    /\ request.state = "PENDING" /\ overdue
    /\ ExpirePending
    /\ UNCHANGED <<wallet, status, overdue, transactions, commitVersion, ledger,
                   stateVersion, instanceVars, call, announced, lateVars,
                   failures>>

-----------------------------------------------------------------------------

SessionStep ==
    \/ Claim
    \/ Execute
    \/ Commit
    \/ IncrementStateVersion
    \/ CompleteLedger
    \/ Publish
    \/ Return

Next ==
    \/ \E k \in Calls, r \in Requests : Send(k, r)
    \/ \E k \in Calls : Retry(k)
    \/ \E k \in Calls : Deliver(k)
    \/ SessionStep
    \/ StepFails
    \/ Crash
    \/ \E w \in lateBatches : LateBatchArrives(w)
    \/ \E m \in lateCompletions : LateCompletionArrives(m)
    \/ RequestFallsDue
    \/ RequestExpires

Spec == Init /\ [][Next]_vars

\* The runtime delivers every request to the object and keeps resolving the
\* promises of the chain; nobody is obliged to retry, and nothing must fail.
Fairness ==
    /\ \A k \in Calls : WF_vars(Deliver(k))
    /\ WF_vars(SessionStep)

FairSpec == Spec /\ Fairness

-----------------------------------------------------------------------------
(* Properties *)

Answered(k, code) == call[k].state = "answered" /\ call[k].reply.code = code

\* An answer that names a transaction can be given only once the transaction
\* is stored and a state version above the one it was written under is stored,
\* so that a client comparing versions cannot miss it.
Durable(reply) ==
    reply.txn # None =>
        /\ transactions[reply.txn] # None
        /\ commitVersion[reply.txn] < stateVersion

\* What callers were told, and what the ledger will tell the next retry, has
\* really happened and is covered by the state version, whatever crashed
\* between the D1 batch, the version counter and the ledger row
\* (startCommand: execute, incrementStateVersion, ledger.complete).
AnswersAreDurable ==
    /\ \A k \in Calls : Answered(k, "OK") => Durable(call[k].reply)
    /\ \A c \in Ids : ledger[c] # None => Durable(ledger[c].reply)

\* The queue holds each identifier once and the in-flight map holds exactly the
\* queued ones, so no command runs twice at a time and no waiting caller hangs
\* on a promise that is gone (serialize, inFlightCommands).
OneTaskPerId ==
    /\ \A i, j \in DOMAIN queue : queue[i] = queue[j] => i = j
    /\ \A c \in Ids : inFlight[c] # None <=> \E i \in DOMAIN queue : queue[i] = c
    /\ \A k \in Calls : call[k].state = "waiting"
                        => inFlight[call[k].req.id] = call[k].req.body

\* What the inductive invariant adds: a call past "idle" has a request, an
\* answered one a reply, and a running command has what its stage needs.
Shapes ==
    /\ \A k \in Calls : /\ call[k].state # "idle" => call[k].req # None
                        /\ call[k].state = "answered" => call[k].reply # None
    /\ work.stage = "writing" => work.plan # None
    /\ work.stage \in {"executed", "bumped", "completed", "published"}
          => work.reply # None

Backed(reply) == reply.txn # None => transactions[reply.txn] # None

\* Durability of everything that may still become an answer: the request row,
\* the reply under way and ledger rows still on their way to D1.
PendingAnswersAreBacked ==
    /\ \A t \in Ids : commitVersion[t] <= stateVersion
    /\ Backed(request)
    /\ work.stage = "executed" => Backed(work.reply)
    /\ work.stage \in {"bumped", "completed", "published"}
          => Durable(work.reply)
    /\ \A m \in lateCompletions : Durable(m.reply)

\* The inductive invariant: every answer given, stored or under way is backed
\* by its transaction and covered by the state version.
SessionInv ==
    /\ TypeOK
    /\ OneTaskPerId
    /\ Shapes
    /\ PendingAnswersAreBacked
    /\ AnswersAreDurable

\* players.balance is the starting balance plus every recorded delta: no batch
\* moves money without its transaction row, none is applied twice, and none is
\* applied to a balance that moved since it was read (guardedBalanceUpdate).
WalletMatchesLedger ==
    wallet = StartBalance +
             MapThenSumSet(LAMBDA t : transactions[t].delta,
                           {t \in Ids : transactions[t] # None})

\* The transactions of the payment request.
Paid == {t \in Ids : transactions[t] # None /\ transactions[t].body.kind = "ACCEPT"}

\* One payment request moves money at most once, whatever accepts, declines,
\* expiries and late copies of them race; a row that is ACCEPTED names that
\* transaction, and money moved under any other state only if the time of the
\* request passed while it was being paid: an accept never outruns a decline
\* or another accept (paymentRequests.settle, resolve).
RequestSettledOnce ==
    /\ \A s, t \in Paid : s = t
    /\ IF request.state = "ACCEPTED" THEN request.txn \in Paid
                                     ELSE request.txn = None
    /\ Paid # {} => request.state = "ACCEPTED" \/ overdue

\* The version a command is about to broadcast was never broadcast before, so
\* no client takes two different states for the same one.
PublishedVersionsAreFresh ==
    At("bumped") \/ At("completed") => announced < work.version

\* A recorded transaction and a completed ledger row are never rewritten, so
\* every later retry hears what the first one heard
\* (ON CONFLICT ... WHERE status = 'PENDING').
StoredAnswersAreFinal ==
    [][ /\ \A t \in Ids : transactions[t] # None
                          => transactions'[t] = transactions[t]
        /\ \A c \in Ids : ledger[c] # None => ledger'[c] = ledger[c] ]_vars

\* A caller is told that the command was refused only if it has had no effect:
\* the original command identifier is a safe retry key
\* (docs/operations-runbooks.md:47).  Two commands break it, each in a
\* configuration of its own: a bankruptcy, and an accept whose request expired
\* while it was being paid.
RefusalMeansNoEffect ==
    [][ \A k \in Calls :
          (~Answered(k, "REFUSED") /\ Answered(k, "REFUSED")')
          => LET r == call[k].req
             IN transactions[r.id] = None \/ transactions[r.id].body # r.body
      ]_vars

\* Every request that was sent is answered or ends with the object that served
\* it: a failing command neither blocks the queue nor strands the callers that
\* share its promise.
CallEnds(k) ==
    call[k].state \in {"sent", "waiting"} ~> call[k].state \in {"answered", "lost"}

\* The effects a retry is refused in spite of: a bankruptcy, whose rules no longer
\* hold once it is done, and a payment whose request does not say ACCEPTED.
Forgotten ==
    {t \in Ids : /\ transactions[t] # None
                 /\ \/ transactions[t].body.kind = "BANKRUPT"
                    \/ t \in Paid /\ request.txn # t}

Promise == INSTANCE CommandPromise WITH
    Bodies <- Body,
    Forgettable <- {b \in Body : b.kind \in {"ACCEPT", "BANKRUPT"}},
    LateRecords <- LateWrites,
    done <- [t \in Ids |-> IF transactions[t] = None THEN None
                           ELSE transactions[t].body],
    forgotten <- Forgotten,
    told <- [k \in Calls |->
               IF call[k].state = "answered" /\ call[k].reply # Failed
               THEN [id |-> call[k].req.id, body |-> call[k].req.body,
                     code |-> call[k].reply.code, txn |-> call[k].reply.txn]
               ELSE None]

\* The pipeline keeps the promise of CommandPromise: exactly-once effects and
\* truthful answers across retries, copies, crashes and failed steps, but for
\* the effects it cannot tell from a command it never ran (Forgotten).
KeepsPromise == Promise!Spec
=============================================================================
