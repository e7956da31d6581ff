------------------------- MODULE GameSessionProofs -------------------------
(***************************************************************************)
(* Proofs about GameSession for every set of calls, identifiers and        *)
(* requests, any number of failures, and with or without late writes:      *)
(* every answer is backed, one payment request is settled once, a version  *)
(* is announced once, money is conserved, and the pipeline implements      *)
(* CommandPromise.                                                         *)
(***************************************************************************)
EXTENDS GameSession, SumFacts

-----------------------------------------------------------------------------
(* Facts about the queue *)

\* What Head and Tail return on a non-empty queue.
LEMMA TailFacts ==
    ASSUME NEW q \in Seq(Ids), q # <<>>
    PROVE  /\ Head(q) = q[1] /\ Head(q) \in Ids
           /\ 1 \in DOMAIN q
           /\ Tail(q) \in Seq(Ids)
           /\ DOMAIN Tail(q) = 1 .. Len(q) - 1
           /\ DOMAIN q = 1 .. Len(q)
           /\ \A i \in DOMAIN Tail(q) : Tail(q)[i] = q[i + 1]
  OBVIOUS

\* The command at the head has an in-flight entry.
LEMMA HeadFacts ==
    ASSUME TypeOK, OneTaskPerId, queue # <<>>
    PROVE  HeadId \in Ids /\ HeadBody \in Body
<1>1. queue \in Seq(Ids) /\ inFlight \in [Ids -> Body \cup {None}]
  BY DEF TypeOK
<1>2. Head(queue) \in Ids /\ \E i \in DOMAIN queue : queue[i] = Head(queue)
  BY <1>1, TailFacts
<1>3. inFlight[Head(queue)] # None
  BY <1>2 DEF OneTaskPerId
<1> QED
  BY <1>1, <1>2, <1>3 DEF HeadId, HeadBody

\* The parts of the type invariant that the end of a task touches, and the
\* structural invariants, survive the end of a task.
LEMMA EndTaskKeeps ==
    ASSUME TypeOK, OneTaskPerId, Shapes, queue # <<>>,
           NEW r \in Reply, EndTask(r)
    PROVE  /\ queue' \in Seq(Ids)
           /\ inFlight' \in [Ids -> Body \cup {None}]
           /\ work' = Idle
           /\ call' \in [Calls -> Call]
           /\ OneTaskPerId'
           /\ Shapes'
<1> DEFINE c == Head(queue)
<1>1. /\ queue \in Seq(Ids) /\ inFlight \in [Ids -> Body \cup {None}]
      /\ call \in [Calls -> Call]
  BY DEF TypeOK
<1>2. /\ queue' = Tail(queue)
      /\ inFlight' = [inFlight EXCEPT ![c] = None]
      /\ work' = Idle
      /\ call' = [k \in Calls |->
                    IF Waiting(k, c)
                    THEN [call[k] EXCEPT !.state = "answered", !.reply = r]
                    ELSE call[k]]
  BY DEF EndTask
<1>3. /\ c = queue[1] /\ c \in Ids
      /\ 1 \in DOMAIN queue
      /\ DOMAIN queue = 1 .. Len(queue) /\ Len(queue) \in Nat
      /\ DOMAIN queue' = 1 .. Len(queue) - 1
      /\ \A i \in DOMAIN queue' : queue'[i] = queue[i + 1]
  <2>1. /\ Head(queue) = queue[1] /\ Head(queue) \in Ids
        /\ 1 \in DOMAIN queue
        /\ DOMAIN Tail(queue) = 1 .. Len(queue) - 1
        /\ DOMAIN queue = 1 .. Len(queue)
        /\ \A i \in DOMAIN Tail(queue) : Tail(queue)[i] = queue[i + 1]
    BY <1>1, TailFacts
  <2>2. Len(queue) \in Nat
    BY <1>1
  <2> QED BY <1>2, <2>1, <2>2
<1>4. queue' \in Seq(Ids)
  BY <1>1, <1>2, TailFacts
<1>5. inFlight' \in [Ids -> Body \cup {None}]
  BY <1>1, <1>2
<1>6. call' \in [Calls -> Call]
  BY <1>1, <1>2 DEF Call, CallStates
<1>7. OneTaskPerId'
  <2>1. \A i, j \in DOMAIN queue' : queue'[i] = queue'[j] => i = j
    <3> SUFFICES ASSUME NEW i \in DOMAIN queue', NEW j \in DOMAIN queue',
                        queue'[i] = queue'[j]
                 PROVE  i = j
      OBVIOUS
    <3>1. i + 1 \in DOMAIN queue /\ j + 1 \in DOMAIN queue
      BY <1>3
    <3>2. queue[i + 1] = queue[j + 1]
      BY <1>3
    <3>3. i + 1 = j + 1
      BY <3>1, <3>2 DEF OneTaskPerId
    <3> QED BY <1>3, <3>3
  <2>2. \A d \in Ids : inFlight'[d] # None
                       <=> \E i \in DOMAIN queue' : queue'[i] = d
    <3> SUFFICES ASSUME NEW d \in Ids
                 PROVE  inFlight'[d] # None
                        <=> \E i \in DOMAIN queue' : queue'[i] = d
      OBVIOUS
    <3>1. CASE d = c
      <4>1. inFlight'[d] = None
        BY <1>1, <1>2, <3>1
      <4>2. \A i \in DOMAIN queue' : queue'[i] # d
        <5> SUFFICES ASSUME NEW i \in DOMAIN queue', queue'[i] = d
                     PROVE  FALSE
          OBVIOUS
        <5>1. i + 1 \in DOMAIN queue /\ queue[i + 1] = queue[1]
          BY <1>3, <3>1
        <5>2. i + 1 = 1
          BY <1>3, <5>1 DEF OneTaskPerId
        <5> QED BY <1>3, <5>2
      <4> QED BY <4>1, <4>2
    <3>2. CASE d # c
      <4>1. inFlight'[d] = inFlight[d]
        BY <1>1, <1>2, <3>2
      <4>2. (\E i \in DOMAIN queue : queue[i] = d)
            <=> \E i \in DOMAIN queue' : queue'[i] = d
        <5>1. ASSUME NEW i \in DOMAIN queue, queue[i] = d
              PROVE  \E j \in DOMAIN queue' : queue'[j] = d
          <6>1. i \in 1 .. Len(queue) /\ i # 1
            BY <3>2, <5>1, <1>3
          <6>2. i - 1 \in DOMAIN queue'
            BY <1>3, <6>1
          <6>3. queue'[i - 1] = queue[(i - 1) + 1] /\ (i - 1) + 1 = i
            BY <1>3, <6>1, <6>2
          <6> QED BY <5>1, <6>2, <6>3
        <5>2. ASSUME NEW i \in DOMAIN queue', queue'[i] = d
              PROVE  \E j \in DOMAIN queue : queue[j] = d
          <6>1. i + 1 \in DOMAIN queue /\ queue[i + 1] = d
            BY <5>2, <1>3
          <6> QED BY <6>1
        <5> QED BY <5>1, <5>2
      <4> QED BY <4>1, <4>2 DEF OneTaskPerId
    <3> QED BY <3>1, <3>2
  <2>3. \A k \in Calls : call'[k].state = "waiting"
                         => inFlight'[call'[k].req.id] = call'[k].req.body
    <3> SUFFICES ASSUME NEW k \in Calls, call'[k].state = "waiting"
                 PROVE  inFlight'[call'[k].req.id] = call'[k].req.body
      OBVIOUS
    <3>1. ~Waiting(k, c) /\ call'[k] = call[k]
      BY <1>1, <1>2 DEF Call
    <3>2. call[k].req.id # c
      BY <3>1 DEF Waiting
    <3>3. call[k].req # None /\ call[k].req \in Requests
      BY <1>1, <3>1 DEF Shapes, Call
    <3>4. call[k].req.id \in Ids
      BY <3>3, RequestsAssumption
    <3> QED
      BY <1>1, <1>2, <3>1, <3>2, <3>4 DEF OneTaskPerId
  <2> QED BY <2>1, <2>2, <2>3 DEF OneTaskPerId
<1>8. Shapes'
  <2>1. r # None
    BY NoneAssumption
  <2>2. \A k \in Calls :
            /\ call'[k].state # "idle" => call'[k].req # None
            /\ call'[k].state = "answered" => call'[k].reply # None
    BY <1>1, <1>2, <2>1 DEF Shapes, Call, Waiting
  <2> QED BY <1>2, <2>2 DEF Shapes, Idle
<1> QED BY <1>2, <1>4, <1>5, <1>6, <1>7, <1>8

-----------------------------------------------------------------------------
(* Facts about what is stored *)

\* Rows only accumulate and the version only grows.
Grows ==
    /\ \A t \in Ids : transactions[t] # None
                      => /\ transactions'[t] # None
                         /\ commitVersion'[t] = commitVersion[t]
    /\ stateVersion' >= stateVersion

\* An answer that was backed, or durable, stays so.
LEMMA DurableStays ==
    ASSUME TypeOK, stateVersion' \in Nat, Grows, NEW r \in Reply
    PROVE  /\ Backed(r) => Backed(r)'
           /\ Durable(r) => Durable(r)'
<1>1. r.txn \in Ids \cup {None}
  BY DEF Reply
<1>2. stateVersion \in Nat /\ commitVersion \in [Ids -> Nat]
  BY DEF TypeOK
<1> QED BY <1>1, <1>2 DEF Backed, Durable, Grows

\* A batch that lands leaves every D1 column well formed.
LEMMA WriteTypes ==
    ASSUME TypeOK, NEW w \in Batch, Lands(w), Write(w)
    PROVE  /\ wallet' \in Nat
           /\ status' \in {"ACTIVE", "BANKRUPT"}
           /\ request' \in [state : RequestStates, txn : Ids \cup {None}]
           /\ overdue' \in BOOLEAN
           /\ transactions' \in [Ids -> Row \cup {None}]
           /\ commitVersion' \in [Ids -> Nat]
<1>1. /\ w.id \in Ids /\ w.body \in Body /\ w.before \in Nat
      /\ w.delta \in Int /\ w.before + w.delta >= 0
  BY DEF Batch
<1>2. wallet \in Nat /\ status \in {"ACTIVE", "BANKRUPT"}
  BY DEF TypeOK
<1>3. wallet' \in Nat
  BY <1>1, <1>2 DEF Write
<1>4. status' \in {"ACTIVE", "BANKRUPT"}
  BY <1>2 DEF Write
<1>5. request' \in [state : RequestStates, txn : Ids \cup {None}]
  BY <1>1 DEF Write, TypeOK, RequestStates
<1>7. overdue' \in BOOLEAN
  BY DEF Write, TypeOK
<1>6. /\ transactions' \in [Ids -> Row \cup {None}]
      /\ commitVersion' \in [Ids -> Nat]
  <2>1. /\ transactions \in [Ids -> Row \cup {None}]
        /\ commitVersion \in [Ids -> Nat] /\ stateVersion \in Nat
    BY DEF TypeOK
  <2>2. [body |-> w.body, delta |-> w.delta] \in Row
    BY <1>1 DEF Row
  <2>3. CASE w.body.kind = "DECLINE"
    BY <2>1, <2>3 DEF Write
  <2>4. CASE w.body.kind # "DECLINE"
    BY <1>1, <2>1, <2>2, <2>4 DEF Write
  <2> QED BY <2>3, <2>4
<1> QED BY <1>3, <1>4, <1>5, <1>6, <1>7

\* A batch that lands adds its own transaction and rewrites none.
LEMMA WriteGrows ==
    ASSUME TypeOK, PendingAnswersAreBacked,
           NEW w \in Batch, Lands(w), Write(w), UNCHANGED stateVersion
    PROVE  /\ Grows
           /\ \A t \in Ids : commitVersion'[t] <= stateVersion'
           /\ Backed(request)'
           /\ w.body.kind # "DECLINE" => transactions'[w.id] # None
           /\ \A t \in Ids : transactions[t] # None
                             => transactions'[t] = transactions[t]
<1>1. /\ w.id \in Ids /\ w.body \in Body /\ w.delta \in Int
  BY DEF Batch
<1>2. /\ stateVersion \in Nat /\ commitVersion \in [Ids -> Nat]
      /\ transactions \in [Ids -> Row \cup {None}]
      /\ request \in [state : RequestStates, txn : Ids \cup {None}]
  BY DEF TypeOK
<1>3. [body |-> w.body, delta |-> w.delta] # None
  BY <1>1, NoneAssumption DEF Row
<1>4. CASE w.body.kind = "DECLINE"
  <2>1. UNCHANGED <<transactions, commitVersion>>
    BY <1>4 DEF Write
  <2>2. request'.txn = request.txn
    BY <1>2, <1>4 DEF Write
  <2> QED
    BY <1>2, <1>4, <2>1, <2>2 DEF Grows, Backed, PendingAnswersAreBacked
<1>5. CASE w.body.kind # "DECLINE"
  <2>1. transactions[w.id] = None
    BY <1>5 DEF Lands
  <2>2. /\ transactions' = [transactions EXCEPT ![w.id] =
                              [body |-> w.body, delta |-> w.delta]]
        /\ commitVersion' = [commitVersion EXCEPT ![w.id] = stateVersion]
    BY <1>5 DEF Write
  <2>3. request'.txn = request.txn \/ request'.txn = w.id
    BY <1>2, <1>5 DEF Write
  <2>4. \A t \in Ids : transactions[t] # None => transactions'[t] = transactions[t]
    BY <1>2, <2>1, <2>2
  <2>5. transactions'[w.id] # None
    BY <1>1, <1>2, <1>3, <2>2
  <2>6. Backed(request)'
    BY <1>2, <2>3, <2>4, <2>5 DEF Backed, PendingAnswersAreBacked
  <2>7. Grows
    BY <1>1, <1>2, <2>1, <2>2, <2>4 DEF Grows
  <2>8. \A t \in Ids : commitVersion'[t] <= stateVersion'
    BY <1>1, <1>2, <2>2 DEF PendingAnswersAreBacked
  <2> QED BY <2>4, <2>5, <2>6, <2>7, <2>8
<1> QED BY <1>4, <1>5

\* The rows stay as they are; the request may fall due, or expire.
RowsStay ==
    /\ UNCHANGED <<wallet, status, transactions, commitVersion>>
    /\ \/ UNCHANGED <<request, overdue>>
       \/ ExpirePending /\ UNCHANGED overdue
       \/ overdue' = TRUE /\ UNCHANGED request

\* What time may do to the request.
LEMMA RowsStayFacts ==
    ASSUME TypeOK, RowsStay
    PROVE  /\ UNCHANGED <<wallet, status, transactions, commitVersion>>
           /\ request' \in [state : RequestStates, txn : Ids \cup {None}]
           /\ request'.txn = request.txn
           /\ overdue' \in BOOLEAN /\ (overdue => overdue')
           /\ request.state # "PENDING" => request' = request
           /\ request' = request \/ request'.state = "EXPIRED"
<1>1. /\ request \in [state : RequestStates, txn : Ids \cup {None}]
      /\ overdue \in BOOLEAN
  BY DEF TypeOK
<1>2. UNCHANGED <<wallet, status, transactions, commitVersion>>
  BY DEF RowsStay
<1>3. overdue' \in BOOLEAN /\ (overdue => overdue')
  BY <1>1, Zenon DEF RowsStay
<1>4. CASE request' = request
  BY <1>1, <1>2, <1>3, <1>4
<1>5. CASE request.state = "PENDING" /\ request' = [request EXCEPT !.state = "EXPIRED"]
  <2>1. request'.state = "EXPIRED" /\ request'.txn = request.txn
    BY <1>1, <1>5
  <2>2. request' \in [state : RequestStates, txn : Ids \cup {None}]
    BY <1>1, <1>5 DEF RequestStates
  <2> QED BY <1>2, <1>3, <1>5, <2>1, <2>2
<1> QED BY <1>4, <1>5 DEF RowsStay, ExpirePending

-----------------------------------------------------------------------------
(* Each action preserves the invariant *)

\* The answers callers hold when a task ends with reply r.
LEMMA EndTaskAnswers ==
    ASSUME SessionInv, stateVersion' \in Nat, Grows, queue # <<>>,
           NEW r \in Reply, EndTask(r), r.code = "OK" => Durable(r)'
    PROVE  \A k \in Calls : Answered(k, "OK")' => Durable(call[k].reply)'
<1> SUFFICES ASSUME NEW k \in Calls, Answered(k, "OK")'
             PROVE  Durable(call[k].reply)'
  OBVIOUS
<1>1. call \in [Calls -> Call]
  BY DEF SessionInv, TypeOK
<1>2. CASE Waiting(k, Head(queue))
  <2>1. call'[k].reply = r
    BY <1>1, <1>2 DEF EndTask, Call
  <2> QED BY <2>1 DEF Answered, Durable
<1>3. CASE ~Waiting(k, Head(queue))
  <2>1. call'[k] = call[k]
    BY <1>1, <1>3 DEF EndTask
  <2>2. call[k].reply \in Reply /\ Durable(call[k].reply)
    BY <1>1, <2>1 DEF SessionInv, Shapes, Call, Answered, AnswersAreDurable
  <2> QED BY <2>1, <2>2, DurableStays DEF SessionInv, Durable
<1> QED BY <1>2, <1>3

\* What a step that only moves callers or the queue leaves as it was.
LEMMA CallersStep ==
    ASSUME SessionInv, RowsStay,
           UNCHANGED <<ledger, stateVersion, announced, lateVars, failures>>,
           UNCHANGED work \/ work' = Idle,
           queue' \in Seq(Ids), inFlight' \in [Ids -> Body \cup {None}],
           call' \in [Calls -> Call], OneTaskPerId', Shapes',
           \A k \in Calls : Answered(k, "OK")' => Durable(call[k].reply)'
    PROVE  SessionInv'
<1>1. /\ UNCHANGED <<wallet, status, transactions, commitVersion>>
      /\ request' \in [state : RequestStates, txn : Ids \cup {None}]
      /\ request'.txn = request.txn /\ overdue' \in BOOLEAN
  BY RowsStayFacts DEF SessionInv
<1>2. TypeOK'
  BY <1>1 DEF SessionInv, TypeOK, Idle, Work, Stages, lateVars
<1>3. PendingAnswersAreBacked'
  BY <1>1 DEF SessionInv, PendingAnswersAreBacked, Backed, Durable, Idle, lateVars
<1>4. AnswersAreDurable'
  BY <1>1 DEF SessionInv, AnswersAreDurable, Durable
<1> QED BY <1>2, <1>3, <1>4 DEF SessionInv

\* Sending only moves its call from idle to sent.
LEMMA SendStep ==
    ASSUME SessionInv, NEW k \in Calls, NEW r \in Requests, Send(k, r)
    PROVE  SessionInv'
<1>1. /\ call \in [Calls -> Call] /\ r # None
      /\ call' = [call EXCEPT ![k].state = "sent", ![k].req = r]
      /\ call[k].state = "idle"
  BY NoneAssumption DEF SessionInv, TypeOK, Send
<1>2. call' \in [Calls -> Call]
  BY <1>1 DEF Call, CallStates
<1>3. \A j \in Calls : j # k => call'[j] = call[j]
  BY <1>1
<1>4. call'[k].state = "sent" /\ call'[k].req = r
  BY <1>1 DEF Call
<1>5. /\ UNCHANGED <<queue, inFlight, work>>
      /\ UNCHANGED <<d1Vars, ledger, stateVersion, announced, lateVars,
                     failures>>
  BY DEF Send, instanceVars
<1>9. RowsStay
  BY <1>5 DEF RowsStay, d1Vars
<1>6. OneTaskPerId'
  BY <1>3, <1>4, <1>5 DEF SessionInv, OneTaskPerId
<1>7. Shapes'
  BY <1>1, <1>3, <1>4, <1>5 DEF SessionInv, Shapes
<1>8. \A j \in Calls : Answered(j, "OK")' => Durable(call[j].reply)'
  BY <1>3, <1>4, <1>5 DEF SessionInv, AnswersAreDurable, Answered, Durable, d1Vars
<1> QED
  BY <1>2, <1>5, <1>6, <1>7, <1>8, <1>9, CallersStep DEF SessionInv, TypeOK

\* A retry forgets the call's reply and sends the same command again.
LEMMA RetryStep ==
    ASSUME SessionInv, NEW k \in Calls, Retry(k)
    PROVE  SessionInv'
<1>1. /\ call \in [Calls -> Call]
      /\ call' = [call EXCEPT ![k].state = "sent", ![k].reply = None]
      /\ call[k].state # "idle"
  BY DEF SessionInv, TypeOK, Retry
<1>2. call' \in [Calls -> Call]
  BY <1>1 DEF Call, CallStates
<1>3. \A j \in Calls : j # k => call'[j] = call[j]
  BY <1>1
<1>4. call'[k].state = "sent" /\ call'[k].req = call[k].req
  BY <1>1 DEF Call
<1>5. /\ UNCHANGED <<queue, inFlight, work>>
      /\ UNCHANGED <<d1Vars, ledger, stateVersion, announced, lateVars,
                     failures>>
  BY DEF Retry, instanceVars
<1>9. RowsStay
  BY <1>5 DEF RowsStay, d1Vars
<1>6. OneTaskPerId'
  BY <1>3, <1>4, <1>5 DEF SessionInv, OneTaskPerId
<1>7. Shapes'
  BY <1>1, <1>3, <1>4, <1>5 DEF SessionInv, Shapes
<1>8. \A j \in Calls : Answered(j, "OK")' => Durable(call[j].reply)'
  BY <1>3, <1>4, <1>5 DEF SessionInv, AnswersAreDurable, Answered, Durable, d1Vars
<1> QED
  BY <1>2, <1>5, <1>6, <1>7, <1>8, <1>9, CallersStep DEF SessionInv, TypeOK

\* A delivery keeps one slot per identifier: it joins the task in flight, is
\* refused, or takes a slot no other task of that identifier holds (mutate).
LEMMA DeliverStep ==
    ASSUME SessionInv, NEW k \in Calls, Deliver(k)
    PROVE  SessionInv'
<1> DEFINE c == call[k].req.id
           b == call[k].req.body
<1>1. /\ call \in [Calls -> Call] /\ queue \in Seq(Ids)
      /\ inFlight \in [Ids -> Body \cup {None}]
      /\ call[k].state = "sent" /\ call[k].req \in Requests
  BY DEF SessionInv, TypeOK, Deliver, Shapes, Call
<1>2. c \in Ids /\ b \in Body /\ b # None
  BY <1>1, RequestsAssumption, NoneAssumption
<1>3. UNCHANGED <<d1Vars, ledger, stateVersion, work, announced, lateVars,
                  failures>>
  BY DEF Deliver
<1>8. RowsStay
  BY <1>3 DEF RowsStay, d1Vars
<1>4. /\ Reused \in Reply /\ Reused # None /\ Reused.code = "REUSED"
  BY NoneAssumption DEF Reused, Reply, Codes
<1>5. CASE /\ inFlight[c] = None
           /\ queue' = Append(queue, c)
           /\ inFlight' = [inFlight EXCEPT ![c] = b]
           /\ call' = [call EXCEPT ![k].state = "waiting"]
  <2>1. /\ call' \in [Calls -> Call]
        /\ call'[k].state = "waiting" /\ call'[k].req = call[k].req
        /\ \A j \in Calls : j # k => call'[j] = call[j]
    BY <1>1, <1>5 DEF Call, CallStates
  <2>2. /\ queue' \in Seq(Ids)
        /\ DOMAIN queue = 1 .. Len(queue) /\ Len(queue) \in Nat
        /\ DOMAIN queue' = 1 .. Len(queue) + 1
        /\ \A i \in DOMAIN queue : queue'[i] = queue[i]
        /\ queue'[Len(queue) + 1] = c
    BY <1>1, <1>2, <1>5
  <2>3. /\ inFlight' \in [Ids -> Body \cup {None}] /\ inFlight'[c] = b
        /\ \A d \in Ids : d # c => inFlight'[d] = inFlight[d]
    BY <1>1, <1>2, <1>5
  <2>4. \A i \in DOMAIN queue : queue[i] # c
    BY <1>2, <1>5 DEF SessionInv, OneTaskPerId
  <2>5. \A i, j \in DOMAIN queue' : queue'[i] = queue'[j] => i = j
    <3> SUFFICES ASSUME NEW i \in DOMAIN queue', NEW j \in DOMAIN queue',
                        queue'[i] = queue'[j]
                 PROVE  i = j
      OBVIOUS
    <3>1. /\ i \in DOMAIN queue \/ i = Len(queue) + 1
          /\ j \in DOMAIN queue \/ j = Len(queue) + 1
      BY <2>2
    <3>2. CASE i \in DOMAIN queue /\ j \in DOMAIN queue
      BY <2>2, <3>2 DEF SessionInv, OneTaskPerId
    <3>3. CASE i = Len(queue) + 1 /\ j = Len(queue) + 1
      BY <3>3
    <3>4. CASE i \in DOMAIN queue /\ j = Len(queue) + 1
      BY <2>2, <2>4, <3>4
    <3>5. CASE i = Len(queue) + 1 /\ j \in DOMAIN queue
      BY <2>2, <2>4, <3>5
    <3> QED BY <3>1, <3>2, <3>3, <3>4, <3>5
  <2>6. \A d \in Ids : inFlight'[d] # None
                       <=> \E i \in DOMAIN queue' : queue'[i] = d
    <3> SUFFICES ASSUME NEW d \in Ids
                 PROVE  inFlight'[d] # None
                        <=> \E i \in DOMAIN queue' : queue'[i] = d
      OBVIOUS
    <3>1. CASE d = c
      <4>1. Len(queue) + 1 \in DOMAIN queue'
        BY <2>2
      <4> QED BY <1>2, <2>2, <2>3, <3>1, <4>1
    <3>2. CASE d # c
      <4>1. (\E i \in DOMAIN queue : queue[i] = d)
            <=> \E i \in DOMAIN queue' : queue'[i] = d
        BY <2>2, <3>2
      <4> QED BY <2>3, <3>2, <4>1 DEF SessionInv, OneTaskPerId
    <3> QED BY <3>1, <3>2
  <2>7. \A j \in Calls : call'[j].state = "waiting"
                         => inFlight'[call'[j].req.id] = call'[j].req.body
    <3> SUFFICES ASSUME NEW j \in Calls, call'[j].state = "waiting"
                 PROVE  inFlight'[call'[j].req.id] = call'[j].req.body
      OBVIOUS
    <3>1. CASE j = k
      BY <2>1, <2>3, <3>1
    <3>2. CASE j # k
      <4>1. /\ call'[j] = call[j]
            /\ inFlight[call[j].req.id] = call[j].req.body
        BY <2>1, <3>2 DEF SessionInv, OneTaskPerId
      <4>2. call[j].req \in Requests
        BY <1>1, <2>1, <3>2 DEF SessionInv, Shapes, Call
      <4>3. call[j].req.id \in Ids /\ call[j].req.body # None
        BY <4>2, RequestsAssumption, NoneAssumption
      <4> QED BY <1>5, <2>3, <4>1, <4>3
    <3> QED BY <3>1, <3>2
  <2>8. OneTaskPerId'
    BY <2>5, <2>6, <2>7 DEF OneTaskPerId
  <2>9. Shapes'
    BY <1>1, <1>3, <2>1 DEF SessionInv, Shapes
  <2>10. \A j \in Calls : Answered(j, "OK")' => Durable(call[j].reply)'
    BY <1>3, <2>1 DEF SessionInv, AnswersAreDurable, Answered, Durable, d1Vars
  <2> QED BY <1>3, <1>8, <2>1, <2>2, <2>3, <2>8, <2>9, <2>10, CallersStep
<1>6. CASE /\ inFlight[c] = b
           /\ call' = [call EXCEPT ![k].state = "waiting"]
           /\ UNCHANGED <<queue, inFlight>>
  <2>1. /\ call' \in [Calls -> Call]
        /\ call'[k].state = "waiting" /\ call'[k].req = call[k].req
        /\ \A j \in Calls : j # k => call'[j] = call[j]
    BY <1>1, <1>6 DEF Call, CallStates
  <2>2. OneTaskPerId'
    BY <1>6, <2>1 DEF SessionInv, OneTaskPerId
  <2>3. Shapes'
    BY <1>1, <1>3, <2>1 DEF SessionInv, Shapes
  <2>4. \A j \in Calls : Answered(j, "OK")' => Durable(call[j].reply)'
    BY <1>3, <2>1 DEF SessionInv, AnswersAreDurable, Answered, Durable, d1Vars
  <2> QED BY <1>1, <1>3, <1>6, <1>8, <2>1, <2>2, <2>3, <2>4, CallersStep
<1>7. CASE /\ inFlight[c] \notin {None, b}
           /\ call' = [call EXCEPT ![k].state = "answered",
                                   ![k].reply = Reused]
           /\ UNCHANGED <<queue, inFlight>>
  <2>1. /\ call' \in [Calls -> Call]
        /\ call'[k].state = "answered" /\ call'[k].req = call[k].req
        /\ call'[k].reply = Reused
        /\ \A j \in Calls : j # k => call'[j] = call[j]
    BY <1>1, <1>4, <1>7 DEF Call, CallStates
  <2>2. OneTaskPerId'
    BY <1>7, <2>1 DEF SessionInv, OneTaskPerId
  <2>3. Shapes'
    BY <1>1, <1>3, <1>4, <2>1 DEF SessionInv, Shapes
  <2>4. \A j \in Calls : Answered(j, "OK")' => Durable(call[j].reply)'
    BY <1>3, <1>4, <2>1 DEF SessionInv, AnswersAreDurable, Answered, Durable,
                            d1Vars
  <2> QED BY <1>1, <1>3, <1>7, <1>8, <2>1, <2>2, <2>3, <2>4, CallersStep
<1> QED BY <1>5, <1>6, <1>7 DEF Deliver

\* A step that ends the task with a reply that names no transaction, or one
\* that is durable, and changes nothing else.
LEMMA EndTaskStep ==
    ASSUME SessionInv, queue # <<>>, NEW r \in Reply, EndTask(r),
           r.code = "OK" => Durable(r), RowsStay,
           UNCHANGED <<ledger, stateVersion, announced, lateVars, failures>>
    PROVE  SessionInv'
<1>1. stateVersion' \in Nat /\ Grows
  BY DEF SessionInv, TypeOK, Grows, RowsStay
<1>2. r.code = "OK" => Durable(r)'
  BY DEF Durable, RowsStay
<1> QED
  BY <1>1, <1>2, EndTaskKeeps, EndTaskAnswers, CallersStep DEF SessionInv

\* The ledger's answer is durable already, so replaying it is safe (ledger.claim).
LEMMA ClaimStep ==
    ASSUME SessionInv, Claim
    PROVE  SessionInv'
<1>1. queue # <<>> /\ work.stage = "idle"
  BY DEF Claim, At
<1>2. HeadId \in Ids /\ HeadBody \in Body
  BY <1>1, HeadFacts DEF SessionInv
<1>3. UNCHANGED <<d1Vars, ledger, stateVersion, announced, lateVars, failures>>
  BY DEF Claim
<1>7. RowsStay
  BY <1>3 DEF RowsStay, d1Vars
<1>4. CASE /\ work' = [work EXCEPT !.stage = "claimed"]
           /\ UNCHANGED <<queue, inFlight, call>>
  <2>1. work' \in Work /\ work'.stage = "claimed"
    BY <1>4 DEF SessionInv, TypeOK, Work, Stages
  <2>2. TypeOK'
    BY <1>3, <1>4, <2>1 DEF SessionInv, TypeOK, d1Vars, lateVars
  <2>3. OneTaskPerId' /\ Shapes'
    BY <1>4, <2>1 DEF SessionInv, OneTaskPerId, Shapes
  <2>4. PendingAnswersAreBacked'
    BY <1>3, <2>1 DEF SessionInv, PendingAnswersAreBacked, Backed, Durable,
                      d1Vars, lateVars
  <2>5. AnswersAreDurable'
    BY <1>3, <1>4 DEF SessionInv, AnswersAreDurable, Answered, Durable, d1Vars
  <2> QED BY <2>2, <2>3, <2>4, <2>5 DEF SessionInv
<1>5. CASE ledger[HeadId] # None /\ EndTask(ledger[HeadId].reply)
  <2>1. ledger[HeadId].reply \in Reply
    BY <1>2, <1>5 DEF SessionInv, TypeOK, Entry
  <2>2. Durable(ledger[HeadId].reply)
    BY <1>2, <1>5 DEF SessionInv, AnswersAreDurable
  <2> QED BY <1>1, <1>3, <1>5, <1>7, <2>1, <2>2, EndTaskStep
<1>6. CASE EndTask(Reused)
  <2>1. Reused \in Reply /\ Reused.code # "OK"
    BY DEF Reused, Reply, Codes
  <2> QED BY <1>1, <1>3, <1>6, <1>7, <2>1, EndTaskStep
<1> QED BY <1>4, <1>5, <1>6 DEF Claim

\* A step of the running command that touches neither queue nor callers.
LEMMA WorkStep ==
    ASSUME SessionInv, TypeOK', Shapes', Grows, PendingAnswersAreBacked',
           UNCHANGED <<queue, inFlight, call>>,
           \A c \in Ids : ledger'[c] # None => Durable(ledger[c].reply)'
    PROVE  SessionInv'
<1>1. OneTaskPerId'
  BY DEF SessionInv, OneTaskPerId
<1>2. \A k \in Calls : Answered(k, "OK")' => Durable(call[k].reply)'
  <2> SUFFICES ASSUME NEW k \in Calls, Answered(k, "OK")'
               PROVE  Durable(call[k].reply)'
    OBVIOUS
  <2>1. call[k].reply \in Reply /\ Durable(call[k].reply)
    BY DEF SessionInv, TypeOK, Shapes, Call, Answered, AnswersAreDurable
  <2>2. TypeOK /\ stateVersion' \in Nat
    BY DEF SessionInv, TypeOK
  <2> QED BY <2>1, <2>2, DurableStays DEF Durable
<1>3. AnswersAreDurable'
  BY <1>2 DEF AnswersAreDurable
<1> QED BY <1>1, <1>3 DEF SessionInv

\* An executor answers only from a stored effect, refuses, or plans a batch
\* that is valid for what it read.
LEMMA ExecuteStep ==
    ASSUME SessionInv, Execute
    PROVE  SessionInv'
<1> DEFINE c == HeadId
           b == HeadBody
<1>1. queue # <<>> /\ work.stage = "claimed"
  BY DEF Execute, At
<1>2. c \in Ids /\ b \in Body
  BY <1>1, HeadFacts DEF SessionInv
<1>8. RowsStay
  BY DEF Execute, RowsStay
<1>3. /\ UNCHANGED <<wallet, status, transactions, commitVersion, ledger,
                     stateVersion, announced, lateVars, failures>>
      /\ request' \in [state : RequestStates, txn : Ids \cup {None}]
      /\ request'.txn = request.txn /\ overdue' \in BOOLEAN
      /\ Grows
  BY <1>8, RowsStayFacts DEF Execute, SessionInv, TypeOK, Grows
<1>4. \A d \in Ids : ledger'[d] # None => Durable(ledger[d].reply)'
  BY <1>3 DEF SessionInv, AnswersAreDurable, Durable
<1>5. CASE /\ Recognised(c, b)
           /\ work' = [work EXCEPT !.stage = "executed",
                                   !.reply = StoredReply(c, b)]
           /\ UNCHANGED <<queue, inFlight, call>>
  <2>1. request.txn \in Ids \cup {None}
    BY DEF SessionInv, TypeOK
  <2>2. StoredReply(c, b) \in Reply /\ StoredReply(c, b) # None
    BY <1>2, <2>1, NoneAssumption DEF StoredReply, Ok, Reply, Codes
  <2>3. Backed(StoredReply(c, b))
    BY <1>2, <1>5 DEF StoredReply, Ok, Recognised, Backed, SessionInv,
                      PendingAnswersAreBacked
  <2>4. /\ work' \in Work /\ work'.stage = "executed"
        /\ work'.reply = StoredReply(c, b)
    BY <1>5, <2>2 DEF SessionInv, TypeOK, Work, Stages
  <2>5. TypeOK'
    BY <1>3, <1>5, <2>4 DEF SessionInv, TypeOK, lateVars
  <2>6. Shapes'
    BY <1>5, <2>2, <2>4 DEF SessionInv, Shapes
  <2>7. PendingAnswersAreBacked'
    BY <1>3, <2>3, <2>4 DEF SessionInv, PendingAnswersAreBacked, Backed,
                            Durable, lateVars
  <2> QED BY <1>3, <1>4, <1>5, <2>5, <2>6, <2>7, WorkStep
<1>6. CASE /\ Allowed(b)
           /\ work' = [work EXCEPT !.stage = "writing",
                         !.plan = [id |-> c, body |-> b, before |-> wallet,
                                   delta |-> Delta(b)]]
           /\ UNCHANGED <<queue, inFlight, call>>
  <2> DEFINE w == [id |-> c, body |-> b, before |-> wallet, delta |-> Delta(b)]
  <2>1. wallet \in Nat
    BY DEF SessionInv, TypeOK
  <2>2. b.kind \in CommandKinds
    BY <1>2 DEF Body
  <2>3. Delta(b) \in Int /\ wallet + Delta(b) >= 0
    BY <1>6, <2>1, <2>2 DEF Allowed, Delta, CommandKinds
  <2>4. w \in Batch /\ w # None
    BY <1>2, <2>1, <2>3, NoneAssumption DEF Batch
  <2>5. work' \in Work /\ work'.stage = "writing" /\ work'.plan = w
    BY <1>6, <2>4 DEF SessionInv, TypeOK, Work, Stages
  <2>6. TypeOK'
    BY <1>3, <1>6, <2>5 DEF SessionInv, TypeOK, lateVars
  <2>7. Shapes'
    BY <1>6, <2>4, <2>5 DEF SessionInv, Shapes
  <2>8. PendingAnswersAreBacked'
    BY <1>3, <2>5 DEF SessionInv, PendingAnswersAreBacked, Backed, Durable,
                      lateVars
  <2> QED BY <1>3, <1>4, <1>6, <2>6, <2>7, <2>8, WorkStep
<1>7. CASE EndTask(Refused)
  <2>1. Refused \in Reply /\ Refused.code # "OK"
    BY DEF Refused, Reply, Codes
  <2> QED BY <1>1, <1>3, <1>7, <1>8, <2>1, EndTaskStep
<1> QED BY <1>5, <1>6, <1>7 DEF Execute

\* A batch that commits stores the transaction its answer names.
LEMMA CommitStep ==
    ASSUME SessionInv, Commit
    PROVE  SessionInv'
<1> DEFINE w == work.plan
<1>1. queue # <<>> /\ work.stage = "writing"
  BY DEF Commit, At
<1>2. w \in Batch
  BY <1>1 DEF SessionInv, TypeOK, Shapes, Work
<1>3. UNCHANGED <<ledger, stateVersion, announced, lateVars, failures>>
  BY DEF Commit
<1>4. CASE /\ Lands(w)
           /\ Write(w)
           /\ work' = [work EXCEPT !.stage = "executed",
                         !.reply = IF w.body.kind = "DECLINE"
                                   THEN Ok(None) ELSE Ok(w.id)]
           /\ UNCHANGED <<queue, inFlight, call>>
  <2> DEFINE r == IF w.body.kind = "DECLINE" THEN Ok(None) ELSE Ok(w.id)
  <2>1. w.id \in Ids
    BY <1>2 DEF Batch
  <2>2. r \in Reply /\ r # None
    BY <2>1, NoneAssumption DEF Ok, Reply, Codes
  <2>3. /\ Grows /\ Backed(request)'
        /\ \A t \in Ids : commitVersion'[t] <= stateVersion'
        /\ w.body.kind # "DECLINE" => transactions'[w.id] # None
    BY <1>2, <1>3, <1>4, WriteGrows DEF SessionInv
  <2>4. work' \in Work /\ work'.stage = "executed" /\ work'.reply = r
    BY <1>4, <2>2 DEF SessionInv, TypeOK, Work, Stages
  <2>5. TypeOK'
    BY <1>2, <1>3, <1>4, <2>4, WriteTypes DEF SessionInv, TypeOK, lateVars
  <2>6. Shapes'
    BY <1>4, <2>2, <2>4 DEF SessionInv, Shapes
  <2>7. TypeOK /\ stateVersion' \in Nat
    BY <2>5 DEF SessionInv, TypeOK
  <2>8. Backed(work.reply)'
    BY <2>3, <2>4 DEF Backed, Ok
  <2>9. \A m \in lateCompletions' : Durable(m.reply)'
    <3> SUFFICES ASSUME NEW m \in lateCompletions
                 PROVE  Durable(m.reply)'
      BY <1>3 DEF lateVars
    <3>1. m.reply \in Reply /\ Durable(m.reply)
      BY DEF SessionInv, TypeOK, Completion, PendingAnswersAreBacked
    <3> QED BY <2>3, <2>7, <3>1, DurableStays DEF Durable
  <2>10. PendingAnswersAreBacked'
    BY <2>3, <2>4, <2>8, <2>9 DEF PendingAnswersAreBacked
  <2>11. \A c \in Ids : ledger'[c] # None => Durable(ledger[c].reply)'
    <3> SUFFICES ASSUME NEW c \in Ids, ledger[c] # None
                 PROVE  Durable(ledger[c].reply)'
      BY <1>3
    <3>1. ledger[c].reply \in Reply /\ Durable(ledger[c].reply)
      BY DEF SessionInv, TypeOK, Entry, AnswersAreDurable
    <3> QED BY <1>3, <2>3, <2>7, <3>1, DurableStays DEF Durable
  <2> QED BY <1>4, <2>3, <2>5, <2>6, <2>10, <2>11, WorkStep
<1>5. CASE /\ work' = [work EXCEPT !.stage = "executed",
                                   !.reply = Ok(request.txn)]
           /\ UNCHANGED <<d1Vars, queue, inFlight, call>>
  <2>1. request.txn \in Ids \cup {None}
    BY DEF SessionInv, TypeOK
  <2>2. Ok(request.txn) \in Reply /\ Ok(request.txn) # None
    BY <2>1, NoneAssumption DEF Ok, Reply, Codes
  <2>3. Grows
    BY <1>3, <1>5 DEF SessionInv, TypeOK, Grows, d1Vars
  <2>4. /\ work' \in Work /\ work'.stage = "executed"
        /\ work'.reply = Ok(request.txn)
    BY <1>5, <2>2 DEF SessionInv, TypeOK, Work, Stages
  <2>5. TypeOK'
    BY <1>3, <1>5, <2>4 DEF SessionInv, TypeOK, d1Vars, lateVars
  <2>6. Shapes'
    BY <1>5, <2>2, <2>4 DEF SessionInv, Shapes
  <2>7. PendingAnswersAreBacked'
    BY <1>3, <1>5, <2>4 DEF SessionInv, PendingAnswersAreBacked, Backed, Ok,
                            Durable, d1Vars, lateVars
  <2>8. \A c \in Ids : ledger'[c] # None => Durable(ledger[c].reply)'
    BY <1>3, <1>5 DEF SessionInv, AnswersAreDurable, Durable, d1Vars
  <2> QED BY <1>5, <2>3, <2>5, <2>6, <2>7, <2>8, WorkStep
<1>6. CASE EndTask(Failed) /\ UNCHANGED d1Vars
  <2>1. Failed \in Reply /\ Failed.code # "OK"
    BY DEF Failed, Reply, Codes
  <2>2. RowsStay
    BY <1>6 DEF RowsStay, d1Vars
  <2> QED BY <1>1, <1>3, <1>6, <2>1, <2>2, EndTaskStep
<1> QED BY <1>4, <1>5, <1>6 DEF Commit

\* Counting the state version makes the answer under way durable, and takes
\* nothing from the answers that were durable before.
LEMMA IncrementStep ==
    ASSUME SessionInv, IncrementStateVersion
    PROVE  SessionInv'
<1>1. /\ work.stage = "executed" /\ work.reply # None /\ work \in Work
      /\ stateVersion \in Nat /\ stateVersion' = stateVersion + 1
      /\ work' = [work EXCEPT !.stage = "bumped", !.version = stateVersion + 1]
      /\ UNCHANGED <<d1Vars, ledger, queue, inFlight, call, announced,
                     lateVars, failures>>
  BY DEF IncrementStateVersion, At, SessionInv, TypeOK, Shapes
<1>2. /\ work' \in Work /\ work'.stage = "bumped" /\ work'.reply = work.reply
      /\ work.reply \in Reply
  <2>1. /\ work.reply \in Reply /\ work.plan \in Batch \cup {None}
        /\ stateVersion + 1 \in Nat
    BY <1>1 DEF Work
  <2>2. work' = [stage |-> "bumped", plan |-> work.plan, reply |-> work.reply,
                 version |-> stateVersion + 1]
    BY <1>1 DEF Work
  <2> QED BY <2>1, <2>2 DEF Work, Stages
<1>3. /\ TypeOK /\ Grows /\ stateVersion' \in Nat
      /\ \A t \in Ids : commitVersion[t] \in Nat
  BY <1>1 DEF SessionInv, TypeOK, Grows, d1Vars
<1>4. TypeOK'
  BY <1>1, <1>2 DEF SessionInv, TypeOK, d1Vars, lateVars
<1>5. Shapes'
  BY <1>1, <1>2 DEF SessionInv, Shapes
<1>6. Durable(work.reply)'
  <2>1. Backed(work.reply)
    BY <1>1 DEF SessionInv, PendingAnswersAreBacked
  <2>2. work.reply.txn # None => commitVersion[work.reply.txn] <= stateVersion
    BY <1>2 DEF SessionInv, PendingAnswersAreBacked, Reply
  <2>3. work.reply.txn # None => commitVersion[work.reply.txn] < stateVersion'
    BY <1>1, <1>2, <1>3, <2>2 DEF Reply
  <2> QED BY <1>1, <1>2, <2>1, <2>3 DEF Backed, Durable, d1Vars
<1>7. \A m \in lateCompletions' : Durable(m.reply)'
  <2> SUFFICES ASSUME NEW m \in lateCompletions
               PROVE  Durable(m.reply)'
    BY <1>1 DEF lateVars
  <2>1. m.reply \in Reply /\ Durable(m.reply)
    BY DEF SessionInv, TypeOK, Completion, PendingAnswersAreBacked
  <2> QED BY <1>3, <2>1, DurableStays DEF Durable
<1>8. \A t \in Ids : commitVersion'[t] <= stateVersion'
  <2>1. \A t \in Ids : commitVersion[t] <= stateVersion
    BY DEF SessionInv, PendingAnswersAreBacked
  <2>2. commitVersion' = commitVersion
    BY <1>1 DEF d1Vars
  <2> QED BY <1>1, <1>3, <2>1, <2>2
<1>9. Backed(request)'
  BY <1>1 DEF SessionInv, PendingAnswersAreBacked, Backed, d1Vars
<1>10. PendingAnswersAreBacked'
  BY <1>2, <1>6, <1>7, <1>8, <1>9 DEF PendingAnswersAreBacked
<1>11. \A c \in Ids : ledger'[c] # None => Durable(ledger[c].reply)'
  <2> SUFFICES ASSUME NEW c \in Ids, ledger[c] # None
               PROVE  Durable(ledger[c].reply)'
    BY <1>1
  <2>1. ledger[c].reply \in Reply /\ Durable(ledger[c].reply)
    BY DEF SessionInv, TypeOK, Entry, AnswersAreDurable
  <2> QED BY <1>1, <1>3, <2>1, DurableStays DEF Durable
<1> QED BY <1>1, <1>3, <1>4, <1>5, <1>10, <1>11, WorkStep

\* A ledger write puts a durable answer in place or changes nothing.
LEMMA CompletedFacts ==
    ASSUME TypeOK, AnswersAreDurable, NEW m \in Completion, Durable(m.reply)
    PROVE  /\ Completed(m) \in [Ids -> Entry \cup {None}]
           /\ \A c \in Ids : Completed(m)[c] # None
                             => Durable(Completed(m)[c].reply)
<1>1. /\ ledger \in [Ids -> Entry \cup {None}]
      /\ m.id \in Ids /\ m.body \in Body /\ m.reply \in Reply
  BY DEF TypeOK, Completion
<1>2. CASE ledger[m.id] # None
  BY <1>1, <1>2 DEF Completed, AnswersAreDurable
<1>3. CASE ledger[m.id] = None
  <2>1. Completed(m) = [ledger EXCEPT ![m.id] =
                          [body |-> m.body, reply |-> m.reply]]
    BY <1>3 DEF Completed
  <2>2. [body |-> m.body, reply |-> m.reply] \in Entry
    BY <1>1 DEF Entry
  <2>3. Completed(m) \in [Ids -> Entry \cup {None}]
    BY <1>1, <2>1, <2>2
  <2>4. \A c \in Ids : c # m.id => Completed(m)[c] = ledger[c]
    BY <1>1, <2>1
  <2>5. Completed(m)[m.id].reply = m.reply
    BY <1>1, <2>1
  <2> QED BY <1>1, <2>3, <2>4, <2>5 DEF AnswersAreDurable
<1> QED BY <1>2, <1>3

\* The ledger row is written only after the version was counted.
LEMMA CompleteStep ==
    ASSUME SessionInv, CompleteLedger
    PROVE  SessionInv'
<1>1. /\ queue # <<>> /\ work.stage = "bumped" /\ work.reply # None
      /\ work \in Work /\ ledger' = Completed(Completing)
      /\ work' = [work EXCEPT !.stage = "completed"]
      /\ UNCHANGED <<d1Vars, stateVersion, queue, inFlight, call, announced,
                     lateVars, failures>>
  BY DEF CompleteLedger, At, SessionInv, TypeOK, Shapes
<1>2. HeadId \in Ids /\ HeadBody \in Body
  BY <1>1, HeadFacts DEF SessionInv
<1>3. Completing \in Completion /\ Completing.reply = work.reply
  BY <1>1, <1>2 DEF Completing, Completion, Work
<1>4. Durable(Completing.reply)
  BY <1>1, <1>3 DEF SessionInv, PendingAnswersAreBacked
<1>5. /\ ledger' \in [Ids -> Entry \cup {None}]
      /\ \A c \in Ids : ledger'[c] # None => Durable(ledger'[c].reply)
  BY <1>1, <1>3, <1>4, CompletedFacts DEF SessionInv
<1>6. /\ work' \in Work /\ work'.stage = "completed"
      /\ work'.reply = work.reply
  BY <1>1 DEF Work, Stages
<1>7. TypeOK'
  BY <1>1, <1>5, <1>6 DEF SessionInv, TypeOK, d1Vars, lateVars
<1>8. Shapes'
  BY <1>1, <1>6 DEF SessionInv, Shapes
<1>9. PendingAnswersAreBacked'
  BY <1>1, <1>6 DEF SessionInv, PendingAnswersAreBacked, Backed, Durable,
                    d1Vars, lateVars
<1>10. \A c \in Ids : ledger'[c] # None => Durable(ledger[c].reply)'
  BY <1>1, <1>5 DEF Durable, d1Vars
<1>11. Grows
  BY <1>1 DEF SessionInv, TypeOK, Grows, d1Vars
<1> QED BY <1>1, <1>7, <1>8, <1>9, <1>10, <1>11, WorkStep

\* A broadcast changes nothing that an answer rests on.
LEMMA PublishStep ==
    ASSUME SessionInv, Publish
    PROVE  SessionInv'
<1>1. /\ work.stage = "completed" /\ work \in Work /\ work.reply # None
      /\ announced' = work.version
      /\ work' = [work EXCEPT !.stage = "published"]
      /\ UNCHANGED <<d1Vars, ledger, stateVersion, queue, inFlight, call,
                     lateVars, failures>>
  BY DEF Publish, At, SessionInv, TypeOK, Shapes
<1>2. /\ work' \in Work /\ work'.stage = "published"
      /\ work'.reply = work.reply /\ work.version \in Nat
  BY <1>1 DEF Work, Stages
<1>3. TypeOK'
  BY <1>1, <1>2 DEF SessionInv, TypeOK, d1Vars, lateVars
<1>4. Shapes'
  BY <1>1, <1>2 DEF SessionInv, Shapes
<1>5. PendingAnswersAreBacked'
  BY <1>1, <1>2 DEF SessionInv, PendingAnswersAreBacked, Backed, Durable,
                    d1Vars, lateVars
<1>6. \A c \in Ids : ledger'[c] # None => Durable(ledger[c].reply)'
  BY <1>1 DEF SessionInv, AnswersAreDurable, Durable, d1Vars
<1>7. Grows
  BY <1>1 DEF SessionInv, TypeOK, Grows, d1Vars
<1> QED BY <1>1, <1>3, <1>4, <1>5, <1>6, <1>7, WorkStep

\* The answer returned is the durable one that was published.
LEMMA ReturnStep ==
    ASSUME SessionInv, Return
    PROVE  SessionInv'
<1>1. /\ queue # <<>> /\ work.stage = "published" /\ work \in Work
      /\ EndTask(work.reply)
      /\ UNCHANGED <<d1Vars, ledger, stateVersion, announced, lateVars,
                     failures>>
  BY DEF Return, At, SessionInv, TypeOK
<1>2. work.reply \in Reply /\ Durable(work.reply)
  BY <1>1 DEF SessionInv, Shapes, Work, PendingAnswersAreBacked
<1>3. RowsStay
  BY <1>1 DEF RowsStay, d1Vars
<1> QED BY <1>1, <1>2, <1>3, EndTaskStep

\* A write that outlives its issuer is one that was valid when it was issued.
LEMMA AbandonFacts ==
    ASSUME SessionInv, queue # <<>>, Abandon
    PROVE  /\ lateBatches' \subseteq Batch
           /\ lateCompletions' \subseteq Completion
           /\ \A m \in lateCompletions' : Durable(m.reply)
<1>1. /\ work \in Work /\ lateBatches \subseteq Batch
      /\ lateCompletions \subseteq Completion
      /\ \A m \in lateCompletions : Durable(m.reply)
  BY DEF SessionInv, TypeOK, PendingAnswersAreBacked
<1>2. CASE UNCHANGED lateVars
  BY <1>1, <1>2 DEF lateVars
<1>3. CASE /\ work.stage = "writing"
           /\ lateBatches' = lateBatches \cup {work.plan}
           /\ UNCHANGED lateCompletions
  <2>1. work.plan \in Batch
    BY <1>1, <1>3 DEF SessionInv, Shapes, Work
  <2> QED BY <1>1, <1>3, <2>1
<1>4. CASE /\ work.stage = "bumped"
           /\ lateCompletions' = lateCompletions \cup {Completing}
           /\ UNCHANGED lateBatches
  <2>1. HeadId \in Ids /\ HeadBody \in Body
    BY HeadFacts DEF SessionInv
  <2>2. work.reply \in Reply /\ Durable(work.reply)
    BY <1>1, <1>4 DEF SessionInv, Shapes, Work, PendingAnswersAreBacked
  <2>3. Completing \in Completion /\ Completing.reply = work.reply
    BY <2>1, <2>2 DEF Completing, Completion
  <2> QED BY <1>1, <1>4, <2>2, <2>3
<1> QED BY <1>2, <1>3, <1>4 DEF Abandon

\* A task that is given up: only its write may still be on its way.
LEMMA GiveUpStep ==
    ASSUME SessionInv, queue # <<>>, Abandon,
           UNCHANGED <<d1Vars, ledger, stateVersion, announced>>,
           failures' = failures + 1, work' = Idle,
           queue' \in Seq(Ids), inFlight' \in [Ids -> Body \cup {None}],
           call' \in [Calls -> Call], OneTaskPerId', Shapes',
           \A k \in Calls : Answered(k, "OK")' => Durable(call[k].reply)'
    PROVE  SessionInv'
<1>1. /\ lateBatches' \subseteq Batch
      /\ lateCompletions' \subseteq Completion
      /\ \A m \in lateCompletions' : Durable(m.reply)
  BY AbandonFacts
<1>2. work' \in Work /\ work'.stage = "idle"
  BY DEF Idle, Work, Stages
<1>3. failures' \in Nat
  BY DEF SessionInv, TypeOK
<1>4. TypeOK'
  BY <1>1, <1>2, <1>3 DEF SessionInv, TypeOK, d1Vars
<1>5. PendingAnswersAreBacked'
  BY <1>1, <1>2 DEF SessionInv, PendingAnswersAreBacked, Backed, Durable, d1Vars
<1>6. AnswersAreDurable'
  BY DEF SessionInv, AnswersAreDurable, Durable, d1Vars
<1> QED BY <1>4, <1>5, <1>6 DEF SessionInv

\* A step that throws tells its callers nothing but that it failed.
LEMMA StepFailsStep ==
    ASSUME SessionInv, StepFails
    PROVE  SessionInv'
<1>1. /\ queue # <<>> /\ EndTask(Failed) /\ Abandon /\ failures' = failures + 1
      /\ UNCHANGED <<d1Vars, ledger, stateVersion, announced>>
  BY DEF StepFails
<1>2. Failed \in Reply /\ Failed.code # "OK"
  BY DEF Failed, Reply, Codes
<1>3. stateVersion' \in Nat /\ Grows
  BY <1>1 DEF SessionInv, TypeOK, Grows, d1Vars
<1>4. \A k \in Calls : Answered(k, "OK")' => Durable(call[k].reply)'
  BY <1>1, <1>2, <1>3, EndTaskAnswers
<1> QED BY <1>1, <1>2, <1>4, EndTaskKeeps, GiveUpStep DEF SessionInv

\* A crash empties the queue and the in-flight map together and leaves only
\* valid writes on their way.
LEMMA CrashStep ==
    ASSUME SessionInv, Crash
    PROVE  SessionInv'
<1>1. /\ queue # <<>> /\ Abandon /\ failures' = failures + 1
      /\ queue' = <<>> /\ inFlight' = [c \in Ids |-> None] /\ work' = Idle
      /\ call' = [k \in Calls |-> IF call[k].state = "waiting"
                                  THEN [call[k] EXCEPT !.state = "lost"]
                                  ELSE call[k]]
      /\ UNCHANGED <<d1Vars, ledger, stateVersion, announced>>
  BY DEF Crash
<1>2. call \in [Calls -> Call]
  BY DEF SessionInv, TypeOK
<1>3. call' \in [Calls -> Call]
  BY <1>1, <1>2 DEF Call, CallStates
<1>4. \A k \in Calls : /\ call'[k].state # "waiting"
                       /\ call'[k].req = call[k].req
                       /\ call'[k].reply = call[k].reply
                       /\ call'[k].state # "lost" => call'[k] = call[k]
                       /\ call'[k].state # "idle" => call[k].state # "idle"
  BY <1>1, <1>2 DEF Call
<1>5. OneTaskPerId'
  BY <1>1, <1>4 DEF OneTaskPerId
<1>6. Shapes'
  BY <1>1, <1>4 DEF SessionInv, Shapes, Idle
<1>7. \A k \in Calls : Answered(k, "OK")' => Durable(call[k].reply)'
  BY <1>1, <1>4 DEF SessionInv, AnswersAreDurable, Answered, Durable, d1Vars
<1>8. queue' \in Seq(Ids) /\ inFlight' \in [Ids -> Body \cup {None}]
  BY <1>1
<1> QED BY <1>1, <1>3, <1>5, <1>6, <1>7, <1>8, GiveUpStep

\* A batch that arrives after its issuer is gone lands under the same guards.
LEMMA LateBatchStep ==
    ASSUME SessionInv, NEW w \in lateBatches, LateBatchArrives(w)
    PROVE  SessionInv'
<1>1. /\ w \in Batch /\ lateBatches' = lateBatches \ {w}
      /\ IF Lands(w) THEN Write(w) ELSE UNCHANGED d1Vars
      /\ UNCHANGED <<ledger, stateVersion, instanceVars, call, announced,
                     lateCompletions, failures>>
  BY DEF LateBatchArrives, SessionInv, TypeOK
<1>2. /\ Grows /\ Backed(request)'
      /\ \A t \in Ids : commitVersion'[t] <= stateVersion'
  <2>1. CASE Lands(w)
    BY <1>1, <2>1, WriteGrows DEF SessionInv
  <2>2. CASE ~Lands(w)
    BY <1>1, <2>2 DEF SessionInv, TypeOK, PendingAnswersAreBacked, Backed,
                      Grows, d1Vars
  <2> QED BY <2>1, <2>2
<1>3. TypeOK'
  <2>1. CASE Lands(w)
    BY <1>1, <2>1, WriteTypes DEF SessionInv, TypeOK, instanceVars
  <2>2. CASE ~Lands(w)
    BY <1>1, <2>2 DEF SessionInv, TypeOK, d1Vars, instanceVars
  <2> QED BY <2>1, <2>2
<1>4. TypeOK /\ stateVersion' \in Nat
  BY <1>3 DEF SessionInv, TypeOK
<1>5. \A r \in Reply : /\ Backed(r) => Backed(r)'
                       /\ Durable(r) => Durable(r)'
  BY <1>2, <1>4, DurableStays
<1>6. Shapes'
  BY <1>1 DEF SessionInv, Shapes, instanceVars
<1>7. PendingAnswersAreBacked'
  <2>1. \A m \in lateCompletions' : Durable(m.reply)'
    BY <1>1, <1>5 DEF SessionInv, TypeOK, Completion, PendingAnswersAreBacked
  <2>2. work.stage = "executed" => Backed(work.reply)'
    <3> SUFFICES ASSUME work.stage = "executed"
                 PROVE  Backed(work.reply)'
      OBVIOUS
    <3>1. work.reply \in Reply /\ Backed(work.reply)
      BY DEF SessionInv, TypeOK, Shapes, Work, PendingAnswersAreBacked
    <3> QED BY <1>1, <1>5, <3>1 DEF Backed, instanceVars
  <2>3. work.stage \in {"bumped", "completed", "published"}
        => Durable(work.reply)'
    <3> SUFFICES ASSUME work.stage \in {"bumped", "completed", "published"}
                 PROVE  Durable(work.reply)'
      OBVIOUS
    <3>1. work.reply \in Reply /\ Durable(work.reply)
      BY DEF SessionInv, TypeOK, Shapes, Work, PendingAnswersAreBacked
    <3> QED BY <1>1, <1>5, <3>1 DEF Durable, instanceVars
  <2> QED
    BY <1>1, <1>2, <2>1, <2>2, <2>3 DEF PendingAnswersAreBacked, instanceVars
<1>8. \A c \in Ids : ledger'[c] # None => Durable(ledger[c].reply)'
  <2> SUFFICES ASSUME NEW c \in Ids, ledger[c] # None
               PROVE  Durable(ledger[c].reply)'
    BY <1>1
  <2>1. ledger[c].reply \in Reply /\ Durable(ledger[c].reply)
    BY DEF SessionInv, TypeOK, Entry, AnswersAreDurable
  <2> QED BY <1>1, <1>5, <2>1 DEF Durable
<1> QED BY <1>1, <1>2, <1>3, <1>6, <1>7, <1>8, WorkStep DEF instanceVars

\* A ledger row that arrives late was durable when it was sent and still is.
LEMMA LateCompletionStep ==
    ASSUME SessionInv, NEW m \in lateCompletions, LateCompletionArrives(m)
    PROVE  SessionInv'
<1>1. /\ m \in Completion /\ Durable(m.reply)
      /\ lateCompletions' = lateCompletions \ {m} /\ ledger' = Completed(m)
      /\ UNCHANGED <<d1Vars, stateVersion, instanceVars, call, announced,
                     lateBatches, failures>>
  BY DEF LateCompletionArrives, SessionInv, TypeOK, PendingAnswersAreBacked
<1>2. /\ ledger' \in [Ids -> Entry \cup {None}]
      /\ \A c \in Ids : ledger'[c] # None => Durable(ledger'[c].reply)
  BY <1>1, CompletedFacts DEF SessionInv
<1>3. TypeOK'
  BY <1>1, <1>2 DEF SessionInv, TypeOK, d1Vars, instanceVars
<1>4. Shapes'
  BY <1>1 DEF SessionInv, Shapes, instanceVars
<1>5. PendingAnswersAreBacked'
  BY <1>1 DEF SessionInv, PendingAnswersAreBacked, Backed, Durable, d1Vars,
              instanceVars
<1>6. \A c \in Ids : ledger'[c] # None => Durable(ledger[c].reply)'
  BY <1>1, <1>2 DEF Durable, d1Vars
<1>7. Grows
  BY <1>1 DEF SessionInv, TypeOK, Grows, d1Vars
<1> QED BY <1>1, <1>3, <1>4, <1>5, <1>6, <1>7, WorkStep DEF instanceVars

\* No answer rests on the time the request has left.
LEMMA RequestAgesStep ==
    ASSUME SessionInv, RequestFallsDue \/ RequestExpires
    PROVE  SessionInv'
<1>1. /\ RowsStay
      /\ UNCHANGED <<ledger, stateVersion, instanceVars, call, announced,
                     lateVars, failures>>
  BY DEF RequestFallsDue, RequestExpires, RowsStay
<1>2. OneTaskPerId' /\ Shapes'
  BY <1>1 DEF SessionInv, OneTaskPerId, Shapes, instanceVars
<1>3. \A k \in Calls : Answered(k, "OK")' => Durable(call[k].reply)'
  BY <1>1 DEF SessionInv, AnswersAreDurable, Answered, Durable, RowsStay
<1> QED
  BY <1>1, <1>2, <1>3, CallersStep DEF SessionInv, TypeOK, instanceVars

-----------------------------------------------------------------------------
(* The theorems *)

\* The invariant holds before anything was sent.
LEMMA InitInv == Init => SessionInv
<1> SUFFICES ASSUME Init PROVE SessionInv
  OBVIOUS
<1>4. overdue \in BOOLEAN
  BY DEF Init
<1>1. TypeOK
  BY <1>4, BalanceAssumption
     DEF Init, TypeOK, RequestStates, Idle, Work, Stages, Call, CallStates
<1>2. OneTaskPerId /\ Shapes
  BY DEF Init, OneTaskPerId, Shapes, Idle
<1>3. PendingAnswersAreBacked /\ AnswersAreDurable
  BY DEF Init, PendingAnswersAreBacked, AnswersAreDurable, Answered, Backed, Idle
<1> QED BY <1>1, <1>2, <1>3 DEF SessionInv

\* Every step of the pipeline keeps the invariant.
LEMMA StepInv == SessionInv /\ [Next]_vars => SessionInv'
<1> SUFFICES ASSUME SessionInv, [Next]_vars PROVE SessionInv'
  OBVIOUS
<1>1. CASE \E k \in Calls, r \in Requests : Send(k, r)
  BY <1>1, SendStep
<1>2. CASE \E k \in Calls : Retry(k)
  BY <1>2, RetryStep
<1>3. CASE \E k \in Calls : Deliver(k)
  BY <1>3, DeliverStep
<1>4. CASE SessionStep
  BY <1>4, ClaimStep, ExecuteStep, CommitStep, IncrementStep, CompleteStep,
     PublishStep, ReturnStep DEF SessionStep
<1>5. CASE StepFails
  BY <1>5, StepFailsStep
<1>6. CASE Crash
  BY <1>6, CrashStep
<1>7. CASE \E w \in lateBatches : LateBatchArrives(w)
  BY <1>7, LateBatchStep
<1>8. CASE \E m \in lateCompletions : LateCompletionArrives(m)
  BY <1>8, LateCompletionStep
<1>9. CASE RequestFallsDue \/ RequestExpires
  BY <1>9, RequestAgesStep
<1>10. CASE UNCHANGED vars
  <2>1. TypeOK'
    BY <1>10 DEF SessionInv, TypeOK, vars, d1Vars, instanceVars, lateVars
  <2>2. Shapes'
    BY <1>10 DEF SessionInv, Shapes, vars, instanceVars
  <2>3. PendingAnswersAreBacked'
    BY <1>10 DEF SessionInv, PendingAnswersAreBacked, Backed, Durable, vars,
                 d1Vars, instanceVars, lateVars
  <2>4. \A c \in Ids : ledger'[c] # None => Durable(ledger[c].reply)'
    BY <1>10 DEF SessionInv, AnswersAreDurable, Durable, vars, d1Vars
  <2>5. Grows
    BY <1>10 DEF SessionInv, TypeOK, Grows, vars, d1Vars
  <2> QED
    BY <1>10, <2>1, <2>2, <2>3, <2>4, <2>5, WorkStep DEF vars, instanceVars
<1> QED
  BY <1>1, <1>2, <1>3, <1>4, <1>5, <1>6, <1>7, <1>8, <1>9, <1>10 DEF Next

\* The inductive invariant of the command pipeline holds in every behaviour:
\* startCommand never lets an answer, a ledger row or a late ledger write get
\* ahead of the transaction and the state version it speaks of.
THEOREM SessionInvariant == Spec => []SessionInv
<1>1. Init => SessionInv
  BY InitInv
<1>2. SessionInv /\ [Next]_vars => SessionInv'
  BY StepInv
<1> QED BY <1>1, <1>2, PTL DEF Spec

\* Every row, key and field keeps its shape; in particular no interleaving of
\* commands, crashes and late writes takes the wallet below zero.
THEOREM TypeCorrect == Spec => []TypeOK
<1>1. SessionInv => TypeOK
  BY DEF SessionInv
<1> QED BY <1>1, SessionInvariant, PTL

\* Whatever a caller was told and whatever the ledger will replay is stored in
\* D1 and covered by the stored state version.
THEOREM DurableAnswers == Spec => []AnswersAreDurable
<1>1. SessionInv => AnswersAreDurable
  BY DEF SessionInv
<1> QED BY <1>1, SessionInvariant, PTL

\* The promise chain runs each command identifier at most once at a time, and
\* every waiting caller is attached to a task that exists.
THEOREM SingleFlight == Spec => []OneTaskPerId
<1>1. SessionInv => OneTaskPerId
  BY DEF SessionInv
<1> QED BY <1>1, SessionInvariant, PTL

\* What StoredAnswersAreFinal says of one step.
RowsKept ==
    /\ \A t \in Ids : transactions[t] # None => transactions'[t] = transactions[t]
    /\ \A c \in Ids : ledger[c] # None => ledger'[c] = ledger[c]

\* No step rewrites a stored transaction or a completed ledger row.
LEMMA StepKeepsRows == SessionInv /\ [Next]_vars => RowsKept
<1> SUFFICES ASSUME SessionInv, [Next]_vars PROVE RowsKept
  OBVIOUS
<1>1. \A m \in Completion : \A c \in Ids :
          ledger[c] # None => Completed(m)[c] = ledger[c]
  <2> SUFFICES ASSUME NEW m \in Completion, NEW c \in Ids, ledger[c] # None
               PROVE  Completed(m)[c] = ledger[c]
    OBVIOUS
  <2>1. ledger \in [Ids -> Entry \cup {None}]
    BY DEF SessionInv, TypeOK
  <2>2. CASE ledger[m.id] = None
    BY <2>1, <2>2 DEF Completed
  <2>3. CASE ledger[m.id] # None
    BY <2>3 DEF Completed
  <2> QED BY <2>2, <2>3
<1>2. \A w \in Batch : Lands(w) /\ Write(w) /\ UNCHANGED stateVersion =>
          \A t \in Ids : transactions[t] # None
                         => transactions'[t] = transactions[t]
  BY WriteGrows DEF SessionInv
<1>3. CASE \E k \in Calls, r \in Requests : Send(k, r)
  BY <1>3 DEF Send, RowsKept, d1Vars
<1>4. CASE \E k \in Calls : Retry(k) \/ Deliver(k)
  BY <1>4 DEF Retry, Deliver, RowsKept, d1Vars
<1>5. CASE Claim \/ IncrementStateVersion \/ Publish \/ Return
  BY <1>5 DEF Claim, IncrementStateVersion, Publish, Return, RowsKept, d1Vars
<1>12. CASE Execute \/ RequestFallsDue \/ RequestExpires
  BY <1>12 DEF Execute, RequestFallsDue, RequestExpires, RowsKept
<1>6. CASE Commit
  <2>1. work.stage = "writing" /\ UNCHANGED <<ledger, stateVersion>>
    BY <1>6 DEF Commit, At
  <2>2. work.plan \in Batch
    BY <2>1 DEF SessionInv, TypeOK, Shapes, Work
  <2>3. (Lands(work.plan) /\ Write(work.plan)) \/ UNCHANGED d1Vars
    BY <1>6 DEF Commit
  <2> QED BY <1>2, <2>1, <2>2, <2>3 DEF RowsKept, d1Vars
<1>7. CASE CompleteLedger
  <2>1. /\ queue # <<>> /\ work.stage = "bumped"
        /\ ledger' = Completed(Completing) /\ UNCHANGED d1Vars
    BY <1>7 DEF CompleteLedger, At
  <2>2. HeadId \in Ids /\ HeadBody \in Body
    BY <2>1, HeadFacts DEF SessionInv
  <2>3. Completing \in Completion
    BY <2>1, <2>2 DEF SessionInv, TypeOK, Shapes, Work, Completing, Completion
  <2> QED BY <1>1, <2>1, <2>3 DEF RowsKept, d1Vars
<1>8. CASE StepFails \/ Crash
  BY <1>8 DEF StepFails, Crash, RowsKept, d1Vars
<1>9. CASE \E w \in lateBatches : LateBatchArrives(w)
  <2>1. PICK w \in lateBatches : LateBatchArrives(w)
    BY <1>9
  <2>2. w \in Batch
    BY DEF SessionInv, TypeOK
  <2> QED BY <1>2, <2>1, <2>2 DEF LateBatchArrives, RowsKept, d1Vars
<1>10. CASE \E m \in lateCompletions : LateCompletionArrives(m)
  <2>1. PICK m \in lateCompletions : LateCompletionArrives(m)
    BY <1>10
  <2>2. m \in Completion
    BY DEF SessionInv, TypeOK
  <2> QED BY <1>1, <2>1, <2>2 DEF LateCompletionArrives, RowsKept, d1Vars
<1>11. CASE UNCHANGED vars
  BY <1>11 DEF RowsKept, vars, d1Vars
<1> QED
  BY <1>3, <1>4, <1>5, <1>6, <1>7, <1>8, <1>9, <1>10, <1>11, <1>12
     DEF Next, SessionStep

\* A stored transaction and a completed ledger row are never rewritten: every
\* later retry of a command hears what the first one heard.
THEOREM StoredAnswersFinal == Spec => StoredAnswersAreFinal
<1>1. SessionInv /\ [Next]_vars => RowsKept
  BY StepKeepsRows
<1>2. SessionInv /\ [Next]_vars =>
        [ /\ \A t \in Ids : transactions[t] # None
                            => transactions'[t] = transactions[t]
          /\ \A c \in Ids : ledger[c] # None => ledger'[c] = ledger[c] ]_vars
  BY <1>1 DEF RowsKept
<1> QED BY <1>2, SessionInvariant, PTL DEF Spec, StoredAnswersAreFinal

-----------------------------------------------------------------------------
(* What a step may do to D1 *)

\* The batch w lands: the one under way, or one whose issuer is gone.
LandsNow(w) ==
    /\ Lands(w) /\ Write(w)
    /\ UNCHANGED <<stateVersion, ledger>>
    /\ \/ queue # <<>> /\ work.stage = "writing" /\ w = work.plan
       \/ w \in lateBatches

\* The rows, the wallet and the request change only when a batch lands, but for
\* a request whose time passes.
LEMMA D1Step ==
    ASSUME SessionInv, [Next]_vars
    PROVE  RowsStay \/ \E w \in Batch : LandsNow(w)
<1>9. UNCHANGED d1Vars => RowsStay
  BY DEF RowsStay, d1Vars
<1>1. CASE \E k \in Calls, r \in Requests : Send(k, r)
  BY <1>1, <1>9 DEF Send
<1>2. CASE \E k \in Calls : Retry(k) \/ Deliver(k)
  BY <1>2, <1>9 DEF Retry, Deliver
<1>3. CASE Claim \/ IncrementStateVersion \/ CompleteLedger \/ Publish \/ Return
  BY <1>3, <1>9 DEF Claim, IncrementStateVersion, CompleteLedger, Publish, Return
<1>10. CASE Execute \/ RequestFallsDue \/ RequestExpires
  BY <1>10 DEF Execute, RequestFallsDue, RequestExpires, RowsStay
<1>4. CASE Commit
  <2>1. queue # <<>> /\ work.stage = "writing" /\ UNCHANGED <<ledger, stateVersion>>
    BY <1>4 DEF Commit, At
  <2>2. work.plan \in Batch
    BY <2>1 DEF SessionInv, TypeOK, Shapes, Work
  <2>3. (Lands(work.plan) /\ Write(work.plan)) \/ UNCHANGED d1Vars
    BY <1>4 DEF Commit
  <2> QED BY <1>9, <2>1, <2>2, <2>3 DEF LandsNow
<1>5. CASE StepFails \/ Crash
  BY <1>5, <1>9 DEF StepFails, Crash
<1>6. CASE \E w \in lateBatches : LateBatchArrives(w)
  <2>1. PICK w \in lateBatches : LateBatchArrives(w)
    BY <1>6
  <2>2. w \in Batch
    BY DEF SessionInv, TypeOK
  <2> QED BY <1>9, <2>1, <2>2 DEF LateBatchArrives, LandsNow
<1>7. CASE \E m \in lateCompletions : LateCompletionArrives(m)
  BY <1>7, <1>9 DEF LateCompletionArrives
<1>8. CASE UNCHANGED vars
  BY <1>8, <1>9 DEF vars
<1> QED
  BY <1>1, <1>2, <1>3, <1>4, <1>5, <1>6, <1>7, <1>8, <1>10
     DEF Next, SessionStep

\* What a batch that lands does to the transactions and to the request.
LEMMA LandingFacts ==
    ASSUME SessionInv, NEW w \in Batch, Lands(w), Write(w)
    PROVE  /\ w.id \in Ids /\ w.body \in Body /\ w.body # None
           /\ w.body.kind = "DECLINE" => transactions' = transactions
           /\ w.body.kind # "DECLINE" =>
                 /\ transactions[w.id] = None
                 /\ transactions'[w.id] = [body |-> w.body, delta |-> w.delta]
                 /\ transactions'[w.id] # None
                 /\ \A t \in Ids \ {w.id} : transactions'[t] = transactions[t]
           /\ w.body.kind = "ACCEPT" =>
                 /\ request.state = "PENDING" /\ overdue = FALSE
                 /\ \/ request' = [state |-> "ACCEPTED", txn |-> w.id]
                    \/ request' = request /\ overdue' = TRUE
           /\ w.body.kind = "DECLINE" =>
                 /\ request.state = "PENDING" /\ overdue' = overdue
                 /\ request'.state = "DECLINED" /\ request'.txn = request.txn
           /\ w.body.kind \notin {"ACCEPT", "DECLINE"} =>
                 request' = request /\ overdue' = overdue
<1>1. /\ w.id \in Ids /\ w.body \in Body /\ w.delta \in Int
      /\ transactions \in [Ids -> Row \cup {None}]
      /\ request \in [state : RequestStates, txn : Ids \cup {None}]
  BY DEF SessionInv, TypeOK, Batch
<1>2. /\ w.body # None
      /\ [body |-> w.body, delta |-> w.delta] # None
  BY <1>1, NoneAssumption DEF Row
<1>3. CASE w.body.kind = "DECLINE"
  BY <1>1, <1>2, <1>3 DEF Lands, Write
<1>4. CASE w.body.kind # "DECLINE"
  <2>1. /\ transactions[w.id] = None
        /\ transactions' = [transactions EXCEPT ![w.id] =
                              [body |-> w.body, delta |-> w.delta]]
    BY <1>4 DEF Lands, Write
  <2>2. w.body.kind = "ACCEPT" =>
          /\ request.state = "PENDING" /\ overdue = FALSE
          /\ \/ request' = [state |-> "ACCEPTED", txn |-> w.id]
             \/ request' = request /\ overdue' = TRUE
    <3> SUFFICES ASSUME w.body.kind = "ACCEPT"
                 PROVE  /\ request.state = "PENDING" /\ overdue = FALSE
                        /\ \/ request' = [state |-> "ACCEPTED", txn |-> w.id]
                           \/ request' = request /\ overdue' = TRUE
      OBVIOUS
    <3>1. Open /\ overdue \in BOOLEAN
      BY DEF Lands, SessionInv, TypeOK
    <3>2. request.state = "PENDING" /\ overdue = FALSE
      BY <3>1 DEF Open
    <3>3. overdue' = FALSE \/ overdue' = TRUE
      BY <3>2 DEF Write
    <3>4. CASE overdue' = FALSE
      BY <3>1, <3>2, <3>4 DEF Write
    <3>5. CASE overdue' = TRUE
      BY <3>2, <3>5 DEF Write
    <3> QED BY <3>2, <3>3, <3>4, <3>5
  <2>3. w.body.kind \notin {"ACCEPT", "DECLINE"} =>
          request' = request /\ overdue' = overdue
    BY DEF Write
  <2> QED BY <1>1, <1>2, <1>4, <2>1, <2>2, <2>3
<1> QED BY <1>3, <1>4

-----------------------------------------------------------------------------
(* One request, one settlement *)

\* The payments of the request grow by the batch of an accept that lands.
LEMMA PaidGrows ==
    ASSUME SessionInv, NEW w \in Batch, Lands(w), Write(w)
    PROVE  Paid' = IF w.body.kind = "ACCEPT" THEN Paid \cup {w.id} ELSE Paid
<1>1. CASE w.body.kind = "DECLINE"
  BY <1>1, LandingFacts DEF Paid
<1>2. CASE w.body.kind # "DECLINE"
  <2>1. /\ w.id \in Ids /\ transactions[w.id] = None
        /\ transactions'[w.id] # None
        /\ transactions'[w.id] = [body |-> w.body, delta |-> w.delta]
        /\ \A t \in Ids \ {w.id} : transactions'[t] = transactions[t]
    BY <1>2, LandingFacts
  <2>2. transactions'[w.id].body = w.body
    BY <2>1
  <2>3. w.id \notin Paid /\ (w.id \in Paid' <=> w.body.kind = "ACCEPT")
    BY <2>1, <2>2 DEF Paid
  <2>4. \A t \in Ids \ {w.id} : t \in Paid' <=> t \in Paid
    BY <2>1 DEF Paid
  <2>5. Paid \subseteq Ids /\ Paid' \subseteq Ids
    BY DEF Paid
  <2> QED BY <2>1, <2>3, <2>4, <2>5
<1> QED BY <1>1, <1>2

\* No step takes a settlement back, and what was paid stays paid.
Settled ==
    /\ request.state # "PENDING" => request' = request
    /\ Paid \subseteq Paid'

\* An accept, a decline, an expiry and late copies of them cannot both settle
\* the request: each batch looks at its state again.
LEMMA RequestStep ==
    ASSUME SessionInv, RequestSettledOnce, [Next]_vars
    PROVE  RequestSettledOnce' /\ Settled
<1>1. request \in [state : RequestStates, txn : Ids \cup {None}]
      /\ overdue \in BOOLEAN
  BY DEF SessionInv, TypeOK
<1>2. CASE RowsStay
  <2>1. /\ request'.txn = request.txn /\ (overdue => overdue')
        /\ request.state # "PENDING" => request' = request
        /\ request' = request \/ request'.state = "EXPIRED"
        /\ Paid' = Paid
    BY <1>2, RowsStayFacts DEF SessionInv, Paid
  <2>2. request'.state = "ACCEPTED" <=> request.state = "ACCEPTED"
    BY <2>1
  <2> QED BY <2>1, <2>2 DEF RequestSettledOnce, Settled
<1>3. ASSUME NEW w \in Batch, Lands(w), Write(w)
      PROVE  RequestSettledOnce' /\ Settled
  <2>1. Paid' = IF w.body.kind = "ACCEPT" THEN Paid \cup {w.id} ELSE Paid
    BY <1>3, PaidGrows
  <2>2. CASE w.body.kind = "DECLINE"
    <3>1. /\ request.state = "PENDING" /\ overdue' = overdue
          /\ request'.state = "DECLINED" /\ request'.txn = request.txn
      BY <1>3, <2>2, LandingFacts
    <3> QED BY <2>1, <2>2, <3>1 DEF RequestSettledOnce, Settled
  <2>3. CASE w.body.kind = "ACCEPT"
    <3>1. /\ request.state = "PENDING" /\ overdue = FALSE
          /\ \/ request' = [state |-> "ACCEPTED", txn |-> w.id]
             \/ request' = request /\ overdue' = TRUE
      BY <1>3, <2>3, LandingFacts
    <3>2. Paid = {} /\ request.txn = None
      BY <3>1 DEF RequestSettledOnce
    <3>3. Paid' = {w.id}
      BY <2>1, <2>3, <3>2
    <3>4. CASE request' = [state |-> "ACCEPTED", txn |-> w.id]
      BY <3>1, <3>2, <3>3, <3>4 DEF RequestSettledOnce, Settled
    <3>5. CASE request' = request /\ overdue' = TRUE
      BY <3>1, <3>2, <3>3, <3>5 DEF RequestSettledOnce, Settled
    <3> QED BY <3>1, <3>4, <3>5
  <2>4. CASE w.body.kind \notin {"ACCEPT", "DECLINE"}
    <3>1. request' = request /\ overdue' = overdue
      BY <1>3, <2>4, LandingFacts
    <3> QED BY <2>1, <2>4, <3>1 DEF RequestSettledOnce, Settled
  <2> QED BY <2>2, <2>3, <2>4
<1> QED BY <1>2, <1>3, D1Step DEF LandsNow

\* However many accepts, declines, expiries and late copies race, the request
\* moves money at most once; a row that says ACCEPTED names that transaction,
\* and money that moved under any other state moved while the request fell due
\* (paymentRequests.settle).
THEOREM SettledOnce == Spec => []RequestSettledOnce
<1>1. Init => RequestSettledOnce
  BY DEF Init, RequestSettledOnce, Paid
<1>2. SessionInv /\ RequestSettledOnce /\ [Next]_vars => RequestSettledOnce'
  BY RequestStep
<1> QED BY <1>1, <1>2, SessionInvariant, PTL DEF Spec

-----------------------------------------------------------------------------
(* Every announced version is new *)

\* The stored version is never behind the announced one, and the version a
\* command is about to announce lies between them.
VersionInv ==
    /\ announced <= stateVersion
    /\ work.stage \in {"bumped", "completed"}
          => announced < work.version /\ work.version <= stateVersion

\* Only one command at a time is between counting and announcing.
LEMMA VersionStep ==
    ASSUME SessionInv, VersionInv, [Next]_vars
    PROVE  VersionInv'
<1>1. announced \in Nat /\ stateVersion \in Nat /\ work \in Work
  BY DEF SessionInv, TypeOK
<1>2. CASE IncrementStateVersion
  <2>1. /\ stateVersion' = stateVersion + 1 /\ UNCHANGED announced
        /\ work'.version = stateVersion + 1
    BY <1>1, <1>2 DEF IncrementStateVersion, Work
  <2> QED BY <1>1, <2>1 DEF VersionInv
<1>3. CASE CompleteLedger
  <2>1. /\ UNCHANGED <<announced, stateVersion>> /\ work.stage = "bumped"
        /\ work'.version = work.version
    BY <1>1, <1>3 DEF CompleteLedger, At, Work
  <2> QED BY <2>1 DEF VersionInv
<1>4. CASE Publish
  <2>1. /\ work.stage = "completed" /\ announced' = work.version
        /\ UNCHANGED stateVersion /\ work'.stage = "published"
    BY <1>1, <1>4 DEF Publish, At, Work
  <2> QED BY <2>1 DEF VersionInv
<1>5. CASE /\ UNCHANGED <<announced, stateVersion>>
           /\ UNCHANGED work \/ work'.stage \in {"idle", "claimed", "writing", "executed"}
  BY <1>5 DEF VersionInv
<1>6. ASSUME NEW r, EndTask(r), UNCHANGED <<announced, stateVersion>>
      PROVE  VersionInv'
  BY <1>5, <1>6 DEF EndTask, Idle
<1>7. CASE Claim \/ Execute \/ Commit
  <2>1. UNCHANGED <<announced, stateVersion>>
    BY <1>7 DEF Claim, Execute, Commit
  <2>2. \/ \E r : EndTask(r)
        \/ work'.stage \in {"claimed", "writing", "executed"}
    BY <1>1, <1>7 DEF Claim, Execute, Commit, Work
  <2> QED BY <1>5, <1>6, <2>1, <2>2
<1>8. CASE Return \/ StepFails
  BY <1>6, <1>8 DEF Return, StepFails
<1>9. CASE Crash
  <2>1. work' = Idle /\ UNCHANGED <<announced, stateVersion>>
    BY <1>9 DEF Crash
  <2> QED BY <1>5, <2>1 DEF Idle
<1>10. CASE \/ \E k \in Calls, r \in Requests : Send(k, r)
            \/ \E k \in Calls : Retry(k)
            \/ \E k \in Calls : Deliver(k)
  BY <1>5, <1>10 DEF Retry, Deliver, Send, instanceVars
<1>11. CASE \/ \E w \in lateBatches : LateBatchArrives(w)
            \/ \E m \in lateCompletions : LateCompletionArrives(m)
            \/ RequestFallsDue \/ RequestExpires
            \/ UNCHANGED vars
  BY <1>5, <1>11 DEF LateBatchArrives, LateCompletionArrives, RequestFallsDue,
                    RequestExpires, instanceVars, vars
<1> QED
  BY <1>2, <1>3, <1>4, <1>7, <1>8, <1>9, <1>10, <1>11 DEF Next, SessionStep

\* No version is broadcast twice, whatever crashed between counting it and
\* broadcasting it, so no client takes two states for the same one
\* (incrementStateVersion, publishCommand).
THEOREM VersionsAreFresh == Spec => []PublishedVersionsAreFresh
<1>1. Init => VersionInv
  BY DEF Init, VersionInv, Idle
<1>2. SessionInv /\ VersionInv /\ [Next]_vars => VersionInv'
  BY VersionStep
<1>3. VersionInv => PublishedVersionsAreFresh
  BY DEF VersionInv, PublishedVersionsAreFresh, At
<1> QED BY <1>1, <1>2, <1>3, SessionInvariant, PTL DEF Spec

-----------------------------------------------------------------------------
(* The wallet is the sum of what was recorded *)

Stored == {t \in Ids : transactions[t] # None}

\* The sum of the deltas of the rows g over T.
DeltaSum(g, T) == MapThenSumSet(LAMBDA t : g[t].delta, T)

\* The sum of the deltas is a sum over a function with integer values.
LEMMA DeltaSumIsSum ==
    ASSUME NEW g, NEW T, IsFiniteSet(T), \A t \in T : g[t].delta \in Int
    PROVE  DeltaSum(g, T) = SumOver([t \in T |-> g[t].delta], T)
<1> DEFINE f == [t \in T |-> g[t].delta]
           Sums(k) == k = [s \in SUBSET T |->
                             IF s = {} THEN 0
                             ELSE g[CHOOSE x \in s : TRUE].delta
                                    + k[s \ {CHOOSE x \in s : TRUE}]]
           sum == CHOOSE k : Sums(k)
<1>1. \A k : Sums(k) <=> IsSum(k, f, T)
  <2>1. \A s \in SUBSET T : s # {} => f[AnyOf(s)] = g[AnyOf(s)].delta
    BY AnyOfFact
  <2> HIDE DEF f
  <2> QED BY <2>1 DEF IsSum, AnyOf
<1>2. PICK h : IsSum(h, f, T) /\ SumOver(f, T) = h[T]
  <2>1. \A t \in T : f[t] \in Int
    OBVIOUS
  <2> HIDE DEF f
  <2> QED BY <2>1, SumIsSum
<1>3. DeltaSum(g, T) = sum[T]
  BY DEF DeltaSum, MapThenSumSet, MapThenFoldSet
<1>4. IsSum(sum, f, T)
  <2> HIDE DEF Sums, f
  <2> QED BY <1>1, <1>2
<1> HIDE DEF sum, f
<1> QED BY <1>2, <1>3, <1>4, SumUnique DEF f

\* One more row adds its delta.
LEMMA DeltaSumAdds ==
    ASSUME NEW g, NEW h, NEW T, NEW t, t \notin T, IsFiniteSet(T),
           \A s \in T : g[s].delta \in Int, \A s \in T : h[s] = g[s],
           NEW d \in Int, h[t].delta = d
    PROVE  DeltaSum(h, T \cup {t}) = DeltaSum(g, T) + d
<1> DEFINE U == T \cup {t}
           f == [s \in T |-> g[s].delta]
           e == [s \in U |-> h[s].delta]
<1>1. IsFiniteSet(U) /\ U \ {t} = T
  BY FS_AddElement
<1>2. /\ \A s \in T : f[s] \in Int
      /\ \A s \in U : e[s] \in Int
      /\ \A s \in T : e[s] = f[s]
      /\ e[t] = h[t].delta
  OBVIOUS
<1>3. DeltaSum(g, T) = SumOver(f, T) /\ DeltaSum(h, U) = SumOver(e, U)
  BY <1>1, DeltaSumIsSum
<1> HIDE DEF e, f, U
<1>4. t \in U
  BY DEF U
<1>5. SumOver(e, U) = e[t] + SumOver(e, T)
  BY <1>1, <1>2, <1>4, SumSplit
<1>6. SumOver(e, T) = SumOver(f, T) /\ SumOver(f, T) \in Int
  BY <1>2, SumSame, SumType
<1> QED BY <1>2, <1>3, <1>5, <1>6 DEF U

\* What a batch owes to the command that planned it.
Planned(w) ==
    /\ [id |-> w.id, body |-> w.body] \in Requests
    /\ w.body.kind = "DECLINE" => w.delta = 0
    /\ w.body.kind = "BANKRUPT" => w.delta = -w.before

\* Queued commands were sent, batches are as planned, and where no write
\* outlives its issuer nothing moves between reading the wallet and writing it.
PlanInv ==
    /\ \A c \in Ids : inFlight[c] # None
                      => [id |-> c, body |-> inFlight[c]] \in Requests
    /\ work.stage = "writing" => Planned(work.plan)
    /\ \A w \in lateBatches : Planned(w)
    /\ ~LateWrites => lateBatches = {}
    /\ ~LateWrites /\ work.stage = "writing" => work.plan.before = wallet

\* What leaves the slot, the map and the late batches alone, or empties the slot.
LEMMA PlanFrame ==
    ASSUME PlanInv,
           \A c \in Ids : inFlight'[c] \in {None, inFlight[c]},
           lateBatches' \subseteq lateBatches,
           \/ UNCHANGED <<work, wallet>>
           \/ UNCHANGED work /\ LateWrites
           \/ work'.stage # "writing"
    PROVE  PlanInv'
BY DEF PlanInv, Planned

\* Batches are made by Execute, from the command at the head, and only move to
\* the late ones when their issuer goes.
LEMMA PlanStep ==
    ASSUME SessionInv, PlanInv, [Next]_vars
    PROVE  PlanInv'
<1> DEFINE Same == \A c \in Ids : inFlight'[c] \in {None, inFlight[c]}
<1>1. /\ inFlight \in [Ids -> Body \cup {None}] /\ work \in Work
      /\ call \in [Calls -> Call]
  BY DEF SessionInv, TypeOK
<1>2. ASSUME NEW r, EndTask(r)
      PROVE  Same /\ work'.stage # "writing"
  BY <1>1, <1>2 DEF EndTask, Idle
<1>3. ASSUME NEW k \in Calls, NEW r \in Requests, Send(k, r)
      PROVE  PlanInv'
  BY <1>3, PlanFrame DEF Send, instanceVars, lateVars, d1Vars
<1>4. ASSUME NEW k \in Calls, Retry(k)
      PROVE  PlanInv'
  BY <1>4, PlanFrame DEF Retry, instanceVars, lateVars, d1Vars
<1>5. ASSUME NEW k \in Calls, Deliver(k)
      PROVE  PlanInv'
  <2> DEFINE c == call[k].req.id
             b == call[k].req.body
  <2>1. call[k].req \in Requests
    BY <1>1, <1>5 DEF Deliver, SessionInv, Shapes, Call
  <2>2. c \in Ids /\ b \in Body /\ [id |-> c, body |-> b] \in Requests
    BY <2>1, RequestsAssumption
  <2>3. UNCHANGED <<work, wallet, lateBatches>>
    BY <1>5 DEF Deliver, d1Vars, lateVars
  <2>4. CASE inFlight' = [inFlight EXCEPT ![c] = b]
    <3>1. \A d \in Ids : inFlight'[d] # None
                         => [id |-> d, body |-> inFlight'[d]] \in Requests
      BY <1>1, <2>2, <2>4 DEF PlanInv
    <3> QED BY <2>3, <3>1 DEF PlanInv, Planned
  <2>5. CASE UNCHANGED inFlight
    BY <2>3, <2>5, PlanFrame
  <2> QED BY <1>5, <2>4, <2>5 DEF Deliver
<1>6. CASE Execute
  <2>1. queue # <<>> /\ HeadId \in Ids /\ HeadBody \in Body /\ HeadBody # None
    BY <1>6, HeadFacts, NoneAssumption DEF Execute, At, SessionInv
  <2>2. UNCHANGED <<wallet, lateBatches>>
    BY <1>6 DEF Execute, lateVars
  <2>3. CASE /\ work' = [work EXCEPT !.stage = "writing",
                           !.plan = [id |-> HeadId, body |-> HeadBody,
                                     before |-> wallet, delta |-> Delta(HeadBody)]]
             /\ UNCHANGED inFlight
    <3>1. /\ work'.stage = "writing"
          /\ work'.plan = [id |-> HeadId, body |-> HeadBody,
                           before |-> wallet, delta |-> Delta(HeadBody)]
      BY <1>1, <2>3 DEF Work
    <3>2. [id |-> HeadId, body |-> HeadBody] \in Requests
      BY <2>1 DEF PlanInv, HeadId, HeadBody
    <3>3. /\ HeadBody.kind = "DECLINE" => Delta(HeadBody) = 0
          /\ HeadBody.kind = "BANKRUPT" => Delta(HeadBody) = -wallet
      BY DEF Delta
    <3>4. Planned(work'.plan) /\ work'.plan.before = wallet
      BY <3>1, <3>2, <3>3 DEF Planned
    <3> QED BY <2>2, <2>3, <3>4 DEF PlanInv, Planned
  <2>4. CASE Same /\ work'.stage # "writing"
    BY <2>2, <2>4, PlanFrame
  <2>5. \/ /\ work'.stage = "executed"
           /\ UNCHANGED inFlight
        \/ /\ work' = [work EXCEPT !.stage = "writing",
                           !.plan = [id |-> HeadId, body |-> HeadBody,
                                     before |-> wallet, delta |-> Delta(HeadBody)]]
           /\ UNCHANGED inFlight
        \/ EndTask(Refused)
    BY <1>1, <1>6 DEF Execute, Work
  <2> QED BY <1>2, <2>3, <2>4, <2>5
<1>7. CASE Claim \/ Commit \/ IncrementStateVersion \/ CompleteLedger
           \/ Publish \/ Return
  <2>1. UNCHANGED lateBatches
    BY <1>7 DEF Claim, Commit, IncrementStateVersion, CompleteLedger, Publish,
                Return, lateVars
  <2>2. \/ UNCHANGED inFlight /\ work'.stage # "writing"
        \/ \E r : EndTask(r)
    BY <1>1, <1>7 DEF Claim, Commit, IncrementStateVersion, CompleteLedger,
                      Publish, Return, Work
  <2> QED BY <1>2, <2>1, <2>2, PlanFrame
<1>8. ASSUME Abandon, Same, work'.stage # "writing"
      PROVE  PlanInv'
  BY <1>8 DEF Abandon, lateVars, PlanInv, Planned
<1>9. CASE StepFails
  BY <1>2, <1>8, <1>9 DEF StepFails
<1>10. CASE Crash
  BY <1>8, <1>10 DEF Crash, Idle
<1>11. ASSUME NEW w \in lateBatches, LateBatchArrives(w)
       PROVE  PlanInv'
  BY <1>11, PlanFrame DEF LateBatchArrives, instanceVars, PlanInv
<1>12. ASSUME NEW m \in lateCompletions, LateCompletionArrives(m)
       PROVE  PlanInv'
  BY <1>12, PlanFrame DEF LateCompletionArrives, instanceVars, d1Vars
<1>13. CASE RequestFallsDue \/ RequestExpires
  BY <1>13, PlanFrame DEF RequestFallsDue, RequestExpires, instanceVars, lateVars
<1>14. CASE UNCHANGED vars
  BY <1>14, PlanFrame DEF vars, d1Vars, instanceVars, lateVars
<1> QED
  BY <1>3, <1>4, <1>5, <1>6, <1>7, <1>9, <1>10, <1>11, <1>12, <1>13, <1>14
     DEF Next, SessionStep

\* Every batch is as its command planned it, in every reachable state.
LEMMA PlanInvHolds == Spec => []PlanInv
<1>1. Init => PlanInv
  BY DEF Init, PlanInv, Idle
<1>2. SessionInv /\ PlanInv /\ [Next]_vars => PlanInv'
  BY PlanStep
<1> QED BY <1>1, <1>2, SessionInvariant, PTL DEF Spec

\* The inductive invariant: finitely many rows, and the wallet their sum.
MoneyInv ==
    /\ IsFiniteSet(Stored)
    /\ wallet = StartBalance + DeltaSum(transactions, Stored)

\* A batch that lands moves the wallet by the delta it records.
LEMMA LandingMoney ==
    ASSUME SessionInv, MoneyInv, NEW w \in Batch, Lands(w), Write(w), Planned(w),
           w.body.kind = "BANKRUPT" => w.before = wallet
    PROVE  MoneyInv'
<1>1. /\ wallet \in Nat /\ w.before \in Nat /\ w.delta \in Int /\ w.id \in Ids
      /\ transactions \in [Ids -> Row \cup {None}]
  BY DEF SessionInv, TypeOK, Batch
<1>2. wallet = StartBalance + DeltaSum(transactions, Stored)
  BY DEF MoneyInv
<1>4. CASE w.body.kind = "DECLINE"
  <2>1. wallet' = wallet /\ transactions' = transactions
    BY <1>1, <1>4 DEF Write, Planned
  <2>2. Stored' = Stored
    BY <2>1 DEF Stored
  <2> QED BY <1>2, <2>1, <2>2 DEF MoneyInv
<1>5. CASE w.body.kind # "DECLINE"
  <2>1. wallet' = wallet + w.delta
    BY <1>1, <1>5 DEF Write, Planned, Lands
  <2>2. /\ transactions[w.id] = None
        /\ transactions'[w.id] = [body |-> w.body, delta |-> w.delta]
        /\ transactions'[w.id] # None
        /\ \A t \in Ids \ {w.id} : transactions'[t] = transactions[t]
    BY <1>5, LandingFacts
  <2>3. w.id \notin Stored /\ Stored' = Stored \cup {w.id}
    BY <1>1, <2>2 DEF Stored
  <2>4. IsFiniteSet(Stored')
    BY <2>3, FS_AddElement DEF MoneyInv
  <2>5. \A t \in Stored : /\ transactions[t].delta \in Int
                          /\ transactions'[t] = transactions[t]
    BY <1>1, <2>2, <2>3 DEF Stored, Row
  <2>6. transactions'[w.id].delta = w.delta
    BY <2>2
  <2>7. DeltaSum(transactions', Stored \cup {w.id})
          = DeltaSum(transactions, Stored) + w.delta
    <3> DEFINE T == Stored
               g == transactions
               h == transactions'
    <3>1. /\ w.id \notin T /\ IsFiniteSet(T)
          /\ \A t \in T : g[t].delta \in Int
          /\ \A t \in T : h[t] = g[t]
          /\ w.delta \in Int /\ h[w.id].delta = w.delta
      BY <1>1, <2>3, <2>5, <2>6 DEF MoneyInv
    <3> HIDE DEF T, g, h
    <3>2. DeltaSum(h, T \cup {w.id}) = DeltaSum(g, T) + w.delta
      BY <3>1, DeltaSumAdds
    <3> QED BY <3>1, <3>2 DEF T, g, h
  <2>8. DeltaSum(transactions, Stored) \in Int
    <3>1. DeltaSum(transactions, Stored)
            = SumOver([t \in Stored |-> transactions[t].delta], Stored)
      BY <2>5, DeltaSumIsSum DEF MoneyInv
    <3> QED BY <2>5, <3>1, SumType DEF MoneyInv
  <2>9. wallet' = StartBalance + DeltaSum(transactions', Stored')
    BY <1>1, <1>2, <2>1, <2>3, <2>7, <2>8, BalanceAssumption
  <2> QED BY <2>4, <2>9 DEF MoneyInv
<1> QED BY <1>4, <1>5

\* Either no write outlives the step that issued it, or nobody goes bankrupt.
NoLateBankruptcy ==
    ~LateWrites \/ \A r \in Requests : r.body.kind # "BANKRUPT"

\* The wallet is the starting balance plus every recorded delta, for any number
\* of commands, failures and late writes (guardedBalanceUpdate).  The one batch
\* the theorem leaves out is a bankruptcy that outlives its issuer: it empties
\* the wallet without comparing the balance when it was read as zero.
THEOREM WalletIsLedger ==
    ASSUME NoLateBankruptcy
    PROVE  Spec => []WalletMatchesLedger
<1>1. Init => MoneyInv
  <2> SUFFICES ASSUME Init PROVE MoneyInv
    OBVIOUS
  <2>1. Stored = {} /\ wallet = StartBalance
    BY DEF Init, Stored
  <2>2. IsFiniteSet({}) /\ DeltaSum(transactions, {}) = 0
    <3>1. DeltaSum(transactions, {})
            = SumOver([t \in {} |-> transactions[t].delta], {})
      BY FS_EmptySet, DeltaSumIsSum
    <3> QED BY <3>1, FS_EmptySet, SumEmpty
  <2> QED
    BY <2>1, <2>2, BalanceAssumption DEF MoneyInv
<1>2. SessionInv /\ PlanInv /\ MoneyInv /\ [Next]_vars => MoneyInv'
  <2> SUFFICES ASSUME SessionInv, PlanInv, MoneyInv, [Next]_vars PROVE MoneyInv'
    OBVIOUS
  <2>1. CASE UNCHANGED <<wallet, transactions>>
    <3>1. Stored' = Stored
      BY <2>1 DEF Stored
    <3> QED BY <2>1, <3>1 DEF MoneyInv
  <2>2. ASSUME NEW w \in Batch, LandsNow(w) PROVE MoneyInv'
    <3>1. Planned(w)
      BY <2>2 DEF LandsNow, PlanInv
    <3>2. w.body.kind = "BANKRUPT" => w.before = wallet
      BY <2>2, <3>1, NoLateBankruptcy DEF LandsNow, PlanInv, Planned, NoLateBankruptcy
    <3> QED BY <2>2, <3>1, <3>2, LandingMoney DEF LandsNow
  <2> QED BY <2>1, <2>2, D1Step DEF RowsStay
<1>3. MoneyInv => WalletMatchesLedger
  BY DEF MoneyInv, WalletMatchesLedger, DeltaSum, Stored
<1> QED BY <1>1, <1>2, <1>3, SessionInvariant, PlanInvHolds, PTL DEF Spec

-----------------------------------------------------------------------------
(* Every copy of a command hears the same answer *)

\* What an OK answer to body b of command c says: the transaction of its own
\* identifier, the one that paid the request, or what the settled request says.
Truthful(c, b, reply) ==
    /\ reply.code = "OK"
    /\ b.kind \in {"DEBIT", "CREDIT", "BANKRUPT"} => reply.txn = c
    /\ b.kind = "ACCEPT" => reply.txn \in Paid
    /\ b.kind = "DECLINE" => request.state # "PENDING" /\ reply.txn = request.txn

LateStages == {"executed", "bumped", "completed", "published"}

\* Every answer given, stored or under way is that one.
OneAnswer ==
    /\ \A k \in Calls : Answered(k, "OK")
          => Truthful(call[k].req.id, call[k].req.body, call[k].reply)
    /\ \A c \in Ids : ledger[c] # None
          => Truthful(c, ledger[c].body, ledger[c].reply)
    /\ queue # <<>> /\ work.stage \in LateStages
          => Truthful(HeadId, HeadBody, work.reply)
    /\ \A m \in lateCompletions : Truthful(m.id, m.body, m.reply)
    /\ queue # <<>> /\ work.stage = "writing"
          => work.plan.id = HeadId /\ work.plan.body = HeadBody
    /\ queue = <<>> => work = Idle

\* Who waits for the task at the head sent its very command.
LEMMA WaitersAgree ==
    ASSUME SessionInv, queue # <<>>, NEW k \in Calls, Waiting(k, HeadId)
    PROVE  /\ call[k].req \in Requests /\ call[k].req # None
           /\ call[k].req.id = HeadId /\ call[k].req.body = HeadBody
<1>1. call \in [Calls -> Call] /\ call[k].state = "waiting"
  BY DEF SessionInv, TypeOK, Waiting
<1>2. call[k].req \in Requests /\ call[k].req # None
  BY <1>1 DEF SessionInv, Shapes, Call
<1>3. call[k].req.id = HeadId
  BY DEF Waiting
<1>4. call[k].req.body = inFlight[HeadId]
  BY <1>1, <1>3 DEF SessionInv, OneTaskPerId
<1> QED BY <1>2, <1>3, <1>4 DEF HeadId, HeadBody

\* The answers callers hold after a step in which no task ends.
LEMMA AnswersStay ==
    ASSUME SessionInv, OneAnswer, Settled,
           \A k \in Calls : Answered(k, "OK")' => call'[k] = call[k]
    PROVE  \A k \in Calls : Answered(k, "OK")'
              => Truthful(call[k].req.id, call[k].req.body, call[k].reply)'
<1> SUFFICES ASSUME NEW k \in Calls, Answered(k, "OK")'
             PROVE  Truthful(call[k].req.id, call[k].req.body, call[k].reply)'
  OBVIOUS
<1>1. call'[k] = call[k] /\ Answered(k, "OK")
  BY DEF Answered
<1>2. Truthful(call[k].req.id, call[k].req.body, call[k].reply)
  BY <1>1 DEF OneAnswer
<1> QED BY <1>1, <1>2 DEF Truthful, Settled

\* The answers callers hold after the task at the head has ended.
LEMMA AnswersGiven ==
    ASSUME SessionInv, OneAnswer, queue # <<>>, Settled,
           NEW r, EndTask(r),
           r.code = "OK" => Truthful(HeadId, HeadBody, r)
    PROVE  \A k \in Calls : Answered(k, "OK")'
              => Truthful(call[k].req.id, call[k].req.body, call[k].reply)'
<1> SUFFICES ASSUME NEW k \in Calls, Answered(k, "OK")'
             PROVE  Truthful(call[k].req.id, call[k].req.body, call[k].reply)'
  OBVIOUS
<1>1. call \in [Calls -> Call]
  BY DEF SessionInv, TypeOK
<1>2. CASE Waiting(k, HeadId)
  <2>1. call'[k].reply = r /\ call'[k].req = call[k].req
    BY <1>1, <1>2 DEF EndTask, Call, HeadId
  <2>2. Truthful(HeadId, HeadBody, r)
    BY <2>1 DEF Answered
  <2>3. call[k].req.id = HeadId /\ call[k].req.body = HeadBody
    BY <1>2, WaitersAgree
  <2> QED BY <2>1, <2>2, <2>3 DEF Truthful, Settled
<1>3. CASE ~Waiting(k, HeadId)
  <2>1. call'[k] = call[k]
    BY <1>1, <1>3 DEF EndTask, HeadId
  <2>2. Truthful(call[k].req.id, call[k].req.body, call[k].reply)
    BY <2>1 DEF OneAnswer, Answered
  <2> QED BY <2>1, <2>2 DEF Truthful, Settled
<1> QED BY <1>2, <1>3

\* A task that keeps its place, its plan and its reply.
SameTask ==
    /\ queue # <<>>
    /\ UNCHANGED <<HeadId, HeadBody>>
    /\ work'.reply = work.reply /\ work'.plan = work.plan
    /\ work'.stage = work.stage \/ {work.stage, work'.stage} \subseteq LateStages

\* What is not about callers, in a step that empties the slot or keeps the task.
LEMMA OneAnswerFrame ==
    ASSUME SessionInv, OneAnswer, Settled,
           \A k \in Calls : Answered(k, "OK")'
              => Truthful(call[k].req.id, call[k].req.body, call[k].reply)',
           \A c \in Ids : ledger'[c] # None =>
              \/ ledger'[c] = ledger[c]
              \/ Truthful(c, ledger'[c].body, ledger'[c].reply),
           \A m \in lateCompletions' : \/ m \in lateCompletions
                                       \/ Truthful(m.id, m.body, m.reply),
           queue' = <<>> => work' = Idle,
           work'.stage \in {"idle", "claimed"} \/ SameTask
    PROVE  OneAnswer'
<1>1. \A c \in Ids : ledger'[c] # None
          => Truthful(c, ledger[c].body, ledger[c].reply)'
  <2> SUFFICES ASSUME NEW c \in Ids, ledger'[c] # None
               PROVE  Truthful(c, ledger[c].body, ledger[c].reply)'
    OBVIOUS
  <2>1. Truthful(c, ledger'[c].body, ledger'[c].reply)
    BY DEF OneAnswer
  <2> QED BY <2>1 DEF Truthful, Settled
<1>2. \A m \in lateCompletions' : Truthful(m.id, m.body, m.reply)'
  BY DEF OneAnswer, Truthful, Settled
<1>3. queue' # <<>> /\ work'.stage \in LateStages
          => Truthful(HeadId, HeadBody, work.reply)'
  <2> SUFFICES ASSUME work'.stage \in LateStages
               PROVE  Truthful(HeadId, HeadBody, work.reply)'
    OBVIOUS
  <2>1. SameTask /\ work.stage \in LateStages
    BY DEF LateStages, SameTask
  <2>2. Truthful(HeadId, HeadBody, work.reply)
    BY <2>1 DEF OneAnswer, SameTask
  <2> QED BY <2>1, <2>2 DEF Truthful, SameTask, Settled
<1>4. queue' # <<>> /\ work'.stage = "writing"
          => work'.plan.id = HeadId' /\ work'.plan.body = HeadBody'
  BY DEF OneAnswer, SameTask, LateStages
<1> QED BY <1>1, <1>2, <1>3, <1>4 DEF OneAnswer

\* An answer is built from the stored effect.
LEMMA OneAnswerExecute ==
    ASSUME SessionInv, RequestSettledOnce, OneAnswer, Execute, Settled
    PROVE  OneAnswer'
<1>1. queue # <<>> /\ UNCHANGED <<ledger, lateCompletions>>
  BY DEF Execute, At, lateVars
<1>2. HeadId \in Ids /\ HeadBody \in Body /\ work \in Work
  BY <1>1, HeadFacts DEF SessionInv, TypeOK
<1>3. CASE EndTask(Refused)
  <2>1. \A k \in Calls : Answered(k, "OK")'
              => Truthful(call[k].req.id, call[k].req.body, call[k].reply)'
    BY <1>1, <1>3, AnswersGiven DEF Refused
  <2>2. work' = Idle
    BY <1>3 DEF EndTask
  <2> QED BY <1>1, <2>1, <2>2, OneAnswerFrame DEF Idle
<1>4. CASE ~EndTask(Refused)
  <2>1. UNCHANGED <<queue, inFlight, call>> /\ UNCHANGED <<HeadId, HeadBody>>
    BY <1>4 DEF Execute, HeadId, HeadBody
  <2>2. \/ /\ work'.stage = "executed"
           /\ work'.reply = StoredReply(HeadId, HeadBody)
           /\ Recognised(HeadId, HeadBody)
        \/ /\ work'.stage = "writing"
           /\ work'.plan.id = HeadId /\ work'.plan.body = HeadBody
    <3>1. \/ /\ Recognised(HeadId, HeadBody)
             /\ work' = [work EXCEPT !.stage = "executed",
                                     !.reply = StoredReply(HeadId, HeadBody)]
          \/ work' = [work EXCEPT !.stage = "writing",
                        !.plan = [id |-> HeadId, body |-> HeadBody,
                                  before |-> wallet, delta |-> Delta(HeadBody)]]
      BY <1>4 DEF Execute
    <3>2. CASE /\ Recognised(HeadId, HeadBody)
               /\ work' = [work EXCEPT !.stage = "executed",
                                       !.reply = StoredReply(HeadId, HeadBody)]
      BY <1>2, <3>2 DEF Work
    <3>3. CASE work' = [work EXCEPT !.stage = "writing",
                          !.plan = [id |-> HeadId, body |-> HeadBody,
                                    before |-> wallet, delta |-> Delta(HeadBody)]]
      <4>1. /\ work'.stage = "writing"
            /\ work'.plan = [id |-> HeadId, body |-> HeadBody,
                             before |-> wallet, delta |-> Delta(HeadBody)]
        BY <1>2, <3>3 DEF Work
      <4> QED BY <4>1
    <3> QED BY <3>1, <3>2, <3>3
  <2>3. \A k \in Calls : Answered(k, "OK")'
              => Truthful(call[k].req.id, call[k].req.body, call[k].reply)'
    BY <1>1, <2>1, AnswersStay
  <2>4. Recognised(HeadId, HeadBody) /\ work'.reply = StoredReply(HeadId, HeadBody)
          => Truthful(HeadId, HeadBody, work.reply)'
    <3> SUFFICES ASSUME Recognised(HeadId, HeadBody),
                        work'.reply = StoredReply(HeadId, HeadBody)
                 PROVE  Truthful(HeadId, HeadBody, work.reply)'
      OBVIOUS
    <3>1. CASE HeadBody.kind \in {"DEBIT", "CREDIT", "BANKRUPT"}
      BY <2>1, <3>1 DEF Truthful, StoredReply, Ok
    <3>2. CASE HeadBody.kind = "ACCEPT"
      <4>1. request.state = "ACCEPTED" /\ request.txn \in Paid
        BY <3>2 DEF Recognised, RequestSettledOnce
      <4> QED BY <2>1, <3>2, <4>1 DEF Truthful, StoredReply, Ok, Settled
    <3>3. CASE HeadBody.kind = "DECLINE"
      <4>1. ~Open /\ ExpirePending
        BY <3>3 DEF Recognised, Execute
      <4>2. /\ request \in [state : RequestStates, txn : Ids \cup {None}]
            /\ overdue \in BOOLEAN
        BY DEF SessionInv, TypeOK
      <4>3. request'.state # "PENDING" /\ request'.txn = request.txn
        BY <4>1, <4>2 DEF Open, ExpirePending
      <4> QED BY <2>1, <3>3, <4>3 DEF Truthful, StoredReply, Ok
    <3> QED BY <1>2, <3>1, <3>2, <3>3 DEF Body, CommandKinds
  <2>5. work'.stage \in LateStages => Truthful(HeadId, HeadBody, work.reply)'
    BY <2>2, <2>4 DEF LateStages
  <2>6. \A c \in Ids : ledger'[c] # None
          => Truthful(c, ledger[c].body, ledger[c].reply)'
    BY <1>1 DEF OneAnswer, Truthful, Settled
  <2>7. \A m \in lateCompletions' : Truthful(m.id, m.body, m.reply)'
    BY <1>1 DEF OneAnswer, Truthful, Settled
  <2> QED
    BY <1>1, <2>1, <2>2, <2>3, <2>5, <2>6, <2>7 DEF OneAnswer
<1> QED BY <1>3, <1>4

\* A batch that landed answers with what it stored; a decline that changed
\* nothing answers with what had settled the request.
LEMMA OneAnswerCommit ==
    ASSUME SessionInv, RequestSettledOnce, OneAnswer, Commit, Settled
    PROVE  OneAnswer'
<1> DEFINE w == work.plan
<1>1. /\ queue # <<>> /\ work.stage = "writing"
      /\ UNCHANGED <<ledger, lateCompletions>>
  BY DEF Commit, At, lateVars
<1>2. /\ work \in Work /\ w \in Batch /\ w.body \in Body
      /\ w.id = HeadId /\ w.body = HeadBody
  BY <1>1 DEF SessionInv, TypeOK, Shapes, Work, Batch, OneAnswer
<1>3. \A c \in Ids : ledger'[c] # None
        => Truthful(c, ledger[c].body, ledger[c].reply)'
  BY <1>1 DEF OneAnswer, Truthful, Settled
<1>4. \A m \in lateCompletions' : Truthful(m.id, m.body, m.reply)'
  BY <1>1 DEF OneAnswer, Truthful, Settled
<1>5. CASE EndTask(Failed) /\ UNCHANGED d1Vars
  <2>1. \A k \in Calls : Answered(k, "OK")'
              => Truthful(call[k].req.id, call[k].req.body, call[k].reply)'
    BY <1>1, <1>5, AnswersGiven DEF Failed, d1Vars
  <2>2. work' = Idle
    BY <1>5 DEF EndTask
  <2> QED BY <1>1, <2>1, <2>2, OneAnswerFrame DEF Idle
<1>6. ASSUME UNCHANGED <<queue, inFlight, call>>,
             work'.stage = "executed", Truthful(HeadId, HeadBody, work.reply)'
      PROVE  OneAnswer'
  <2>1. \A k \in Calls : Answered(k, "OK")'
              => Truthful(call[k].req.id, call[k].req.body, call[k].reply)'
    BY <1>6, AnswersStay
  <2>2. queue' # <<>> /\ work'.stage # "writing"
    BY <1>1, <1>6
  <2> QED BY <1>3, <1>4, <1>6, <2>1, <2>2 DEF OneAnswer
<1>7. CASE /\ Lands(w) /\ Write(w)
           /\ work' = [work EXCEPT !.stage = "executed",
                         !.reply = IF w.body.kind = "DECLINE"
                                   THEN Ok(None) ELSE Ok(w.id)]
           /\ UNCHANGED <<queue, inFlight, call>>
  <2>1. /\ work'.stage = "executed"
        /\ work'.reply = IF w.body.kind = "DECLINE" THEN Ok(None) ELSE Ok(w.id)
    BY <1>2, <1>7 DEF Work
  <2>2. HeadId' = w.id /\ HeadBody' = w.body
    BY <1>2, <1>7 DEF HeadId, HeadBody
  <2>3. CASE w.body.kind = "DECLINE"
    <3>1. request'.state = "DECLINED" /\ request'.txn = None
      BY <1>2, <1>7, <2>3, LandingFacts DEF RequestSettledOnce
    <3>2. work'.reply = Ok(None)
      BY <2>1, <2>3
    <3>3. Truthful(HeadId, HeadBody, work.reply)'
      BY <2>2, <2>3, <3>1, <3>2 DEF Truthful, Ok
    <3> QED BY <1>6, <1>7, <2>1, <3>3
  <2>4. CASE w.body.kind = "ACCEPT"
    <3>1. w.id \in Paid'
      BY <1>2, <1>7, <2>4, PaidGrows
    <3>2. work'.reply = Ok(w.id)
      BY <2>1, <2>4
    <3>3. Truthful(HeadId, HeadBody, work.reply)'
      BY <2>2, <2>4, <3>1, <3>2 DEF Truthful, Ok
    <3> QED BY <1>6, <1>7, <2>1, <3>3
  <2>5. CASE w.body.kind \notin {"ACCEPT", "DECLINE"}
    <3>1. work'.reply = Ok(w.id)
      BY <2>1, <2>5
    <3>2. Truthful(HeadId, HeadBody, work.reply)'
      BY <2>2, <2>5, <3>1 DEF Truthful, Ok
    <3> QED BY <1>6, <1>7, <2>1, <3>2
  <2> QED BY <2>3, <2>4, <2>5
<1>8. CASE /\ ~Lands(w) /\ w.body.kind = "DECLINE"
           /\ work' = [work EXCEPT !.stage = "executed", !.reply = Ok(request.txn)]
           /\ UNCHANGED <<d1Vars, queue, inFlight, call>>
  <2>1. work'.stage = "executed" /\ work'.reply = Ok(request.txn)
    BY <1>2, <1>8 DEF Work
  <2>2. HeadId' = w.id /\ HeadBody' = w.body /\ request' = request
    BY <1>2, <1>8 DEF HeadId, HeadBody, d1Vars
  <2>3. request.state # "PENDING"
    BY <1>8 DEF Lands
  <2>4. Truthful(HeadId, HeadBody, work.reply)'
    BY <1>8, <2>1, <2>2, <2>3 DEF Truthful, Ok
  <2> QED BY <1>6, <1>8, <2>1, <2>4
<1> QED BY <1>5, <1>7, <1>8 DEF Commit

\* The end of a task.
LEMMA OneAnswerEnd ==
    ASSUME SessionInv, OneAnswer, queue # <<>>, Settled, UNCHANGED ledger,
           \A m \in lateCompletions' : \/ m \in lateCompletions
                                       \/ Truthful(m.id, m.body, m.reply),
           NEW r, EndTask(r),
           r.code = "OK" => Truthful(HeadId, HeadBody, r)
    PROVE  OneAnswer'
<1>1. \A k \in Calls : Answered(k, "OK")'
          => Truthful(call[k].req.id, call[k].req.body, call[k].reply)'
  BY AnswersGiven
<1>2. work' = Idle
  BY DEF EndTask
<1> QED BY <1>1, <1>2, OneAnswerFrame DEF Idle

\* A step that leaves the slot alone leaves the task alone.
LEMMA TaskStays ==
    ASSUME OneAnswer, UNCHANGED instanceVars
    PROVE  /\ queue' = <<>> => work' = Idle
           /\ work'.stage = "idle" \/ (SameTask /\ work'.stage = work.stage)
BY DEF OneAnswer, instanceVars, SameTask, HeadId, HeadBody, Idle

\* A delivery takes its place behind the task at the head.
LEMMA DeliverTask ==
    ASSUME SessionInv, OneAnswer, NEW k \in Calls, Deliver(k)
    PROVE  /\ queue' = <<>> => work' = Idle
           /\ work'.stage = "idle" \/ (SameTask /\ work'.stage = work.stage)
<1> DEFINE c == call[k].req.id
           b == call[k].req.body
<1>1. /\ call \in [Calls -> Call] /\ queue \in Seq(Ids)
      /\ inFlight \in [Ids -> Body \cup {None}] /\ UNCHANGED work
  BY DEF Deliver, SessionInv, TypeOK
<1>2. c \in Ids
  BY <1>1, RequestsAssumption DEF Deliver, SessionInv, Shapes, Call
<1>3. CASE UNCHANGED instanceVars
  BY <1>3, TaskStays
<1>4. CASE /\ inFlight[c] = None /\ queue' = Append(queue, c)
           /\ inFlight' = [inFlight EXCEPT ![c] = b]
  <2>1. queue' # <<>>
    BY <1>1, <1>2, <1>4
  <2>2. CASE queue = <<>>
    BY <1>1, <2>1, <2>2 DEF OneAnswer, Idle
  <2>3. CASE queue # <<>>
    <3>1. Head(queue') = Head(queue)
      BY <1>1, <1>2, <1>4, <2>3
    <3>2. HeadId \in Ids /\ HeadBody \in Body
      BY <2>3, HeadFacts DEF SessionInv
    <3>3. HeadId # c
      BY <1>4, <3>2, NoneAssumption DEF HeadId, HeadBody
    <3>4. UNCHANGED <<HeadId, HeadBody>>
      BY <1>1, <1>2, <1>4, <3>1, <3>2, <3>3 DEF HeadId, HeadBody
    <3> QED BY <1>1, <2>1, <2>3, <3>4 DEF SameTask
  <2> QED BY <2>2, <2>3
<1> QED BY <1>1, <1>3, <1>4 DEF Deliver, instanceVars

\* A delivery tells nobody OK.
LEMMA DeliverTellsNobody ==
    ASSUME SessionInv, NEW k \in Calls, Deliver(k)
    PROVE  \A j \in Calls : Answered(j, "OK")' => call'[j] = call[j]
<1>1. call \in [Calls -> Call]
  BY DEF SessionInv, TypeOK
<1>2. ASSUME NEW j \in Calls, j # k PROVE call'[j] = call[j]
  BY <1>1, <1>2 DEF Deliver
<1>3. ~Answered(k, "OK")'
  <2>1. \/ call' = [call EXCEPT ![k].state = "waiting"]
        \/ call' = [call EXCEPT ![k].state = "answered", ![k].reply = Reused]
    BY DEF Deliver
  <2>2. CASE call' = [call EXCEPT ![k].state = "waiting"]
    BY <1>1, <2>2 DEF Answered, Call
  <2>3. CASE call' = [call EXCEPT ![k].state = "answered", ![k].reply = Reused]
    BY <1>1, <2>3 DEF Answered, Call, Reused
  <2> QED BY <2>1, <2>2, <2>3
<1> QED BY <1>2, <1>3

\* The ledger answers a repeated command with the answer it stored.
LEMMA OneAnswerClaim ==
    ASSUME SessionInv, OneAnswer, Claim, Settled
    PROVE  OneAnswer'
<1>1. /\ queue # <<>> /\ UNCHANGED <<ledger, lateCompletions>>
      /\ work \in Work /\ HeadId \in Ids
  BY HeadFacts DEF Claim, At, lateVars, SessionInv, TypeOK
<1>2. CASE UNCHANGED <<queue, inFlight, call>> /\ work' = [work EXCEPT !.stage = "claimed"]
  <2>1. work'.stage = "claimed"
    BY <1>1, <1>2 DEF Work
  <2>2. \A k \in Calls : Answered(k, "OK")'
          => Truthful(call[k].req.id, call[k].req.body, call[k].reply)'
    BY <1>1, <1>2, AnswersStay
  <2> QED BY <1>1, <1>2, <2>1, <2>2, OneAnswerFrame
<1>3. CASE /\ ledger[HeadId] # None /\ ledger[HeadId].body = HeadBody
           /\ EndTask(ledger[HeadId].reply)
  <2>1. Truthful(HeadId, HeadBody, ledger[HeadId].reply)
    BY <1>1, <1>3 DEF OneAnswer
  <2> QED BY <1>1, <1>3, <2>1, OneAnswerEnd
<1>4. CASE EndTask(Reused)
  BY <1>1, <1>4, OneAnswerEnd DEF Reused
<1> QED BY <1>2, <1>3, <1>4 DEF Claim

\* A completion stores a truthful answer or leaves the row that is there.
LEMMA OneAnswerComplete ==
    ASSUME SessionInv, OneAnswer, NEW m, m.id \in Ids,
           Truthful(m.id, m.body, m.reply), ledger' = Completed(m)
    PROVE  \A c \in Ids : ledger'[c] # None =>
              \/ ledger'[c] = ledger[c]
              \/ Truthful(c, ledger'[c].body, ledger'[c].reply)
<1>1. ledger \in [Ids -> Entry \cup {None}]
  BY DEF SessionInv, TypeOK
<1>2. CASE ledger[m.id] = None
  <2>1. ledger' = [ledger EXCEPT ![m.id] = [body |-> m.body, reply |-> m.reply]]
    BY <1>2 DEF Completed
  <2> QED BY <1>1, <2>1
<1>3. CASE ledger[m.id] # None
  BY <1>3 DEF Completed
<1> QED BY <1>2, <1>3

\* Every step keeps the one answer: executors build it from the stored effect,
\* and everything after them hands it on.
LEMMA OneAnswerStep ==
    ASSUME SessionInv, RequestSettledOnce, OneAnswer, [Next]_vars
    PROVE  OneAnswer'
<1>1. Settled
  BY RequestStep
<1>2. /\ work \in Work /\ call \in [Calls -> Call] /\ queue \in Seq(Ids)
      /\ inFlight \in [Ids -> Body \cup {None}]
  BY DEF SessionInv, TypeOK
<1>3. ASSUME UNCHANGED <<ledger, lateVars, call>>, UNCHANGED instanceVars
      PROVE  OneAnswer'
  <2>1. \A k \in Calls : Answered(k, "OK")'
          => Truthful(call[k].req.id, call[k].req.body, call[k].reply)'
    BY <1>1, <1>3, AnswersStay
  <2> QED BY <1>1, <1>3, <2>1, TaskStays, OneAnswerFrame DEF lateVars
<1>4. ASSUME NEW k \in Calls, NEW r \in Requests, Send(k, r)
      PROVE  OneAnswer'
  <2>1. \A j \in Calls : Answered(j, "OK")' => call'[j] = call[j]
    BY <1>2, <1>4 DEF Send, Answered, Call
  <2>2. UNCHANGED <<ledger, lateVars>> /\ UNCHANGED instanceVars
    BY <1>4 DEF Send
  <2>3. \A j \in Calls : Answered(j, "OK")'
          => Truthful(call[j].req.id, call[j].req.body, call[j].reply)'
    BY <1>1, <2>1, AnswersStay
  <2> QED BY <1>1, <2>2, <2>3, TaskStays, OneAnswerFrame DEF lateVars
<1>5. ASSUME NEW k \in Calls, Retry(k)
      PROVE  OneAnswer'
  <2>1. \A j \in Calls : Answered(j, "OK")' => call'[j] = call[j]
    BY <1>2, <1>5 DEF Retry, Answered, Call
  <2>2. UNCHANGED <<ledger, lateVars>> /\ UNCHANGED instanceVars
    BY <1>5 DEF Retry
  <2>3. \A j \in Calls : Answered(j, "OK")'
          => Truthful(call[j].req.id, call[j].req.body, call[j].reply)'
    BY <1>1, <2>1, AnswersStay
  <2> QED BY <1>1, <2>2, <2>3, TaskStays, OneAnswerFrame DEF lateVars
<1>6. ASSUME NEW k \in Calls, Deliver(k)
      PROVE  OneAnswer'
  <2>1. UNCHANGED <<ledger, lateVars>>
    BY <1>6 DEF Deliver
  <2>2. \A j \in Calls : Answered(j, "OK")' => call'[j] = call[j]
    BY <1>6, DeliverTellsNobody
  <2>3. \A j \in Calls : Answered(j, "OK")'
          => Truthful(call[j].req.id, call[j].req.body, call[j].reply)'
    BY <1>1, <2>2, AnswersStay
  <2> QED BY <1>1, <1>6, <2>1, <2>3, DeliverTask, OneAnswerFrame DEF lateVars
<1>7. CASE Claim
  BY <1>1, <1>7, OneAnswerClaim
<1>8. CASE Execute
  BY <1>1, <1>8, OneAnswerExecute
<1>9. CASE Commit
  BY <1>1, <1>9, OneAnswerCommit
<1>10. CASE IncrementStateVersion \/ CompleteLedger \/ Publish
  <2>1. /\ queue # <<>> /\ UNCHANGED <<queue, inFlight, call, lateVars>>
        /\ {work.stage, work'.stage} \subseteq LateStages
        /\ work'.reply = work.reply /\ work'.plan = work.plan
    BY <1>2, <1>10
       DEF IncrementStateVersion, CompleteLedger, Publish, At, Work, LateStages
  <2>2. SameTask
    BY <2>1 DEF SameTask, HeadId, HeadBody
  <2>3. HeadId \in Ids /\ Truthful(HeadId, HeadBody, work.reply)
    BY <2>1, HeadFacts DEF OneAnswer, SessionInv
  <2>4. \A c \in Ids : ledger'[c] # None =>
              \/ ledger'[c] = ledger[c]
              \/ Truthful(c, ledger'[c].body, ledger'[c].reply)
    <3>1. CASE UNCHANGED ledger
      BY <3>1
    <3>2. CASE ledger' = Completed(Completing)
      <4>1. /\ Completing.id = HeadId /\ Completing.body = HeadBody
            /\ Completing.reply = work.reply
        BY DEF Completing
      <4> QED BY <2>1, <2>3, <3>2, <4>1, OneAnswerComplete
    <3> QED
      BY <1>10, <3>1, <3>2 DEF IncrementStateVersion, CompleteLedger, Publish
  <2>5. \A k \in Calls : Answered(k, "OK")'
          => Truthful(call[k].req.id, call[k].req.body, call[k].reply)'
    BY <1>1, <2>1, AnswersStay
  <2> QED BY <1>1, <2>1, <2>2, <2>4, <2>5, OneAnswerFrame DEF lateVars
<1>11. CASE Return
  <2>1. /\ queue # <<>> /\ work.stage \in LateStages
        /\ UNCHANGED <<ledger, lateCompletions>> /\ EndTask(work.reply)
    BY <1>11 DEF Return, At, LateStages, lateVars
  <2> QED BY <1>1, <2>1, OneAnswerEnd DEF OneAnswer
<1>12. ASSUME queue # <<>>, Abandon
       PROVE  \A m \in lateCompletions' : \/ m \in lateCompletions
                                          \/ Truthful(m.id, m.body, m.reply)
  <2>1. work.stage = "bumped" => Truthful(HeadId, HeadBody, work.reply)
    BY <1>12 DEF OneAnswer, LateStages
  <2>2. /\ Completing.id = HeadId /\ Completing.body = HeadBody
        /\ Completing.reply = work.reply
    BY DEF Completing
  <2>3. \/ lateCompletions' = lateCompletions
        \/ work.stage = "bumped" /\ lateCompletions' = lateCompletions \cup {Completing}
    BY <1>12 DEF Abandon, lateVars
  <2> QED BY <2>1, <2>2, <2>3
<1>13. CASE StepFails
  <2>1. queue # <<>> /\ UNCHANGED ledger /\ EndTask(Failed) /\ Abandon
    BY <1>13 DEF StepFails
  <2> QED BY <1>1, <1>12, <2>1, OneAnswerEnd DEF Failed
<1>14. CASE Crash
  <2>1. queue # <<>> /\ UNCHANGED ledger /\ work' = Idle /\ Abandon
    BY <1>14 DEF Crash
  <2>2. \A k \in Calls : Answered(k, "OK")' => call'[k] = call[k]
    BY <1>2, <1>14 DEF Crash, Answered, Call
  <2>3. \A k \in Calls : Answered(k, "OK")'
          => Truthful(call[k].req.id, call[k].req.body, call[k].reply)'
    BY <1>1, <2>2, AnswersStay
  <2> QED BY <1>1, <1>12, <2>1, <2>3, OneAnswerFrame DEF Idle
<1>15. ASSUME NEW w \in lateBatches, LateBatchArrives(w)
       PROVE  OneAnswer'
  <2>1. /\ UNCHANGED <<ledger, lateCompletions, call>> /\ UNCHANGED instanceVars
    BY <1>15 DEF LateBatchArrives
  <2>2. \A k \in Calls : Answered(k, "OK")'
          => Truthful(call[k].req.id, call[k].req.body, call[k].reply)'
    BY <1>1, <2>1, AnswersStay
  <2> QED BY <1>1, <2>1, <2>2, TaskStays, OneAnswerFrame
<1>16. ASSUME NEW m \in lateCompletions, LateCompletionArrives(m)
       PROVE  OneAnswer'
  <2>1. /\ UNCHANGED call /\ UNCHANGED instanceVars
        /\ ledger' = Completed(m) /\ lateCompletions' \subseteq lateCompletions
    BY <1>16 DEF LateCompletionArrives
  <2>2. m.id \in Ids /\ Truthful(m.id, m.body, m.reply)
    BY DEF OneAnswer, SessionInv, TypeOK, Completion
  <2>3. \A c \in Ids : ledger'[c] # None =>
              \/ ledger'[c] = ledger[c]
              \/ Truthful(c, ledger'[c].body, ledger'[c].reply)
    BY <2>1, <2>2, OneAnswerComplete
  <2>4. \A k \in Calls : Answered(k, "OK")'
          => Truthful(call[k].req.id, call[k].req.body, call[k].reply)'
    BY <1>1, <2>1, AnswersStay
  <2> QED BY <1>1, <2>1, <2>3, <2>4, TaskStays, OneAnswerFrame
<1>17. CASE RequestFallsDue \/ RequestExpires
  BY <1>3, <1>17 DEF RequestFallsDue, RequestExpires
<1>18. CASE UNCHANGED vars
  BY <1>3, <1>18 DEF vars
<1> QED
  BY <1>4, <1>5, <1>6, <1>7, <1>8, <1>9, <1>10, <1>11, <1>13, <1>14, <1>15,
     <1>16, <1>17, <1>18 DEF Next, SessionStep

\* Every copy of a command hears the same answer, in every reachable state.
LEMMA OneAnswerHolds == Spec => []OneAnswer
<1>1. Init => OneAnswer
  BY DEF Init, OneAnswer, Answered, Idle
<1>2. SessionInv /\ RequestSettledOnce /\ OneAnswer /\ [Next]_vars => OneAnswer'
  BY OneAnswerStep
<1> QED BY <1>1, <1>2, SessionInvariant, SettledOnce, PTL DEF Spec

-----------------------------------------------------------------------------
(* An identifier is told OK for one command *)

\* The ledger has the outcome of body b under identifier c.
InLedger(c, b) == ledger[c] # None /\ ledger[c].body = b

BeforeRecord == {"claimed", "writing", "executed", "bumped"}
AfterRecord == {"completed", "published"}

\* Where no write outlives its issuer: whoever was told OK has a ledger row for
\* what it asked, and the command that runs has none until it is completed.
Recorded ==
    ~LateWrites =>
        /\ lateCompletions = {}
        /\ \A k \in Calls : Answered(k, "OK")
                              => InLedger(call[k].req.id, call[k].req.body)
        /\ queue # <<>> /\ work.stage \in BeforeRecord => ledger[HeadId] = None
        /\ queue # <<>> /\ work.stage \in AfterRecord => InLedger(HeadId, HeadBody)

\* The ledger stays, nobody new is told OK of what it does not have, and the task
\* ends, begins without a row, or stays on its side of the record.
LEMMA RecordedFrame ==
    ASSUME Recorded, UNCHANGED ledger, ~LateWrites => lateCompletions' = {},
           \A k \in Calls : Answered(k, "OK")' =>
              \/ call'[k] = call[k]
              \/ InLedger(call'[k].req.id, call'[k].req.body),
           \/ work'.stage = "idle"
           \/ /\ queue # <<>> /\ UNCHANGED <<HeadId, HeadBody>>
              /\ \/ work'.stage = work.stage
                 \/ {work.stage, work'.stage} \subseteq BeforeRecord
                 \/ {work.stage, work'.stage} \subseteq AfterRecord
                 \/ ledger[HeadId] = None /\ work'.stage = "claimed"
    PROVE  Recorded'
<1> SUFFICES ASSUME ~LateWrites
             PROVE  Recorded'
  BY DEF Recorded
<1>1. \A k \in Calls : Answered(k, "OK")'
                        => InLedger(call[k].req.id, call[k].req.body)'
  BY DEF Recorded, Answered, InLedger
<1>2. queue' # <<>> /\ work'.stage \in BeforeRecord => ledger'[HeadId'] = None
  BY DEF Recorded, BeforeRecord, AfterRecord
<1>3. queue' # <<>> /\ work'.stage \in AfterRecord => InLedger(HeadId, HeadBody)'
  BY DEF Recorded, BeforeRecord, AfterRecord, InLedger
<1> QED BY <1>1, <1>2, <1>3 DEF Recorded

\* Who is told what when a task ends with a reply that is not OK, or is recorded.
LEMMA RecordedEnd ==
    ASSUME SessionInv, Recorded, queue # <<>>, UNCHANGED ledger,
           ~LateWrites => lateCompletions' = {}, NEW r, EndTask(r),
           ~LateWrites /\ r.code = "OK" => InLedger(HeadId, HeadBody)
    PROVE  Recorded'
<1> SUFFICES ASSUME ~LateWrites
             PROVE  Recorded'
  BY DEF Recorded
<1>1. work'.stage = "idle"
  BY DEF EndTask, Idle
<1>2. ASSUME NEW k \in Calls, Answered(k, "OK")'
      PROVE  \/ call'[k] = call[k]
             \/ InLedger(call'[k].req.id, call'[k].req.body)
  <2>1. call \in [Calls -> Call]
    BY DEF SessionInv, TypeOK
  <2>2. CASE Waiting(k, HeadId)
    <3>1. call'[k].reply = r /\ call'[k].req = call[k].req
      BY <2>1, <2>2 DEF EndTask, Call, HeadId
    <3>2. r.code = "OK"
      BY <1>2, <3>1 DEF Answered
    <3>3. call[k].req.id = HeadId /\ call[k].req.body = HeadBody
      BY <2>2, WaitersAgree
    <3> QED BY <3>1, <3>2, <3>3
  <2>3. CASE ~Waiting(k, HeadId)
    BY <2>1, <2>3 DEF EndTask, HeadId
  <2> QED BY <2>2, <2>3
<1> QED BY <1>1, <1>2, RecordedFrame

\* Every command that is told OK has been completed in the ledger first.
LEMMA RecordedStep ==
    ASSUME SessionInv, OneAnswer, Recorded, [Next]_vars
    PROVE  Recorded'
<1> SUFFICES ASSUME ~LateWrites
             PROVE  Recorded'
  BY DEF Recorded
<1>1. /\ work \in Work /\ call \in [Calls -> Call]
      /\ ledger \in [Ids -> Entry \cup {None}] /\ lateCompletions = {}
  BY DEF SessionInv, TypeOK, Recorded
<1>2. ASSUME UNCHANGED <<ledger, lateVars, call>>, UNCHANGED instanceVars
      PROVE  Recorded'
  <2>1. work'.stage = "idle" \/ (SameTask /\ work'.stage = work.stage)
    BY <1>2, TaskStays
  <2> QED BY <1>1, <1>2, <2>1, RecordedFrame DEF lateVars, SameTask
<1>3. ASSUME NEW k \in Calls, NEW r \in Requests, Send(k, r)
      PROVE  Recorded'
  <2>1. \A j \in Calls : Answered(j, "OK")' => call'[j] = call[j]
    BY <1>1, <1>3 DEF Send, Answered, Call
  <2>2. UNCHANGED <<ledger, lateVars>> /\ UNCHANGED instanceVars
    BY <1>3 DEF Send
  <2>3. work'.stage = "idle" \/ (SameTask /\ work'.stage = work.stage)
    BY <2>2, TaskStays
  <2> QED BY <1>1, <2>1, <2>2, <2>3, RecordedFrame DEF lateVars, SameTask
<1>4. ASSUME NEW k \in Calls, Retry(k)
      PROVE  Recorded'
  <2>1. \A j \in Calls : Answered(j, "OK")' => call'[j] = call[j]
    BY <1>1, <1>4 DEF Retry, Answered, Call
  <2>2. UNCHANGED <<ledger, lateVars>> /\ UNCHANGED instanceVars
    BY <1>4 DEF Retry
  <2>3. work'.stage = "idle" \/ (SameTask /\ work'.stage = work.stage)
    BY <2>2, TaskStays
  <2> QED BY <1>1, <2>1, <2>2, <2>3, RecordedFrame DEF lateVars, SameTask
<1>5. ASSUME NEW k \in Calls, Deliver(k)
      PROVE  Recorded'
  <2>1. \A j \in Calls : Answered(j, "OK")' => call'[j] = call[j]
    BY <1>5, DeliverTellsNobody
  <2>2. UNCHANGED <<ledger, lateVars>>
    BY <1>5 DEF Deliver
  <2>3. work'.stage = "idle" \/ (SameTask /\ work'.stage = work.stage)
    BY <1>5, DeliverTask
  <2> QED BY <1>1, <2>1, <2>2, <2>3, RecordedFrame DEF lateVars, SameTask
<1>6. ASSUME queue # <<>>, UNCHANGED <<queue, inFlight, call, ledger, lateVars>>,
             \/ {work.stage, work'.stage} \subseteq BeforeRecord
             \/ {work.stage, work'.stage} \subseteq AfterRecord
             \/ ledger[HeadId] = None /\ work'.stage = "claimed"
      PROVE  Recorded'
  <2>1. UNCHANGED <<HeadId, HeadBody>>
    BY <1>6 DEF HeadId, HeadBody
  <2> QED BY <1>1, <1>6, <2>1, RecordedFrame DEF lateVars
<1>7. CASE Claim
  <2>1. /\ queue # <<>> /\ work.stage = "idle" /\ HeadId \in Ids
        /\ UNCHANGED <<ledger, lateVars>>
    BY <1>7, HeadFacts DEF Claim, At, SessionInv
  <2>2. CASE /\ ledger[HeadId] = None /\ UNCHANGED <<queue, inFlight, call>>
             /\ work' = [work EXCEPT !.stage = "claimed"]
    <3>1. work'.stage = "claimed"
      BY <1>1, <2>2 DEF Work
    <3> QED BY <1>6, <2>1, <2>2, <3>1
  <2>3. CASE /\ ledger[HeadId] # None /\ ledger[HeadId].body = HeadBody
             /\ EndTask(ledger[HeadId].reply)
    BY <1>1, <2>1, <2>3, RecordedEnd DEF InLedger, lateVars
  <2>4. CASE EndTask(Reused)
    BY <1>1, <2>1, <2>4, RecordedEnd DEF Reused, lateVars
  <2> QED BY <1>7, <2>2, <2>3, <2>4 DEF Claim
<1>8. CASE Execute
  <2>1. /\ queue # <<>> /\ work.stage = "claimed"
        /\ UNCHANGED <<ledger, lateVars>>
    BY <1>8 DEF Execute, At
  <2>2. \/ /\ UNCHANGED <<queue, inFlight, call>>
           /\ work'.stage \in {"writing", "executed"}
        \/ EndTask(Refused)
    BY <1>1, <1>8 DEF Execute, Work
  <2>3. CASE EndTask(Refused)
    BY <1>1, <2>1, <2>3, RecordedEnd DEF Refused, lateVars
  <2> QED BY <1>6, <2>1, <2>2, <2>3 DEF BeforeRecord
<1>9. CASE Commit
  <2>1. /\ queue # <<>> /\ work.stage = "writing"
        /\ UNCHANGED <<ledger, lateVars>>
    BY <1>9 DEF Commit, At
  <2>2. \/ /\ UNCHANGED <<queue, inFlight, call>> /\ work'.stage = "executed"
        \/ EndTask(Failed)
    BY <1>1, <1>9 DEF Commit, Work
  <2>3. CASE EndTask(Failed)
    BY <1>1, <2>1, <2>3, RecordedEnd DEF Failed, lateVars
  <2> QED BY <1>6, <2>1, <2>2, <2>3 DEF BeforeRecord
<1>10. CASE IncrementStateVersion
  <2>1. /\ queue # <<>> /\ work.stage = "executed" /\ work'.stage = "bumped"
        /\ UNCHANGED <<queue, inFlight, call, ledger, lateVars>>
    BY <1>1, <1>10 DEF IncrementStateVersion, At, Work
  <2> QED BY <1>6, <2>1 DEF BeforeRecord
<1>11. CASE Publish
  <2>1. /\ queue # <<>> /\ work.stage = "completed" /\ work'.stage = "published"
        /\ UNCHANGED <<queue, inFlight, call, ledger, lateVars>>
    BY <1>1, <1>11 DEF Publish, At, Work
  <2> QED BY <1>6, <2>1 DEF AfterRecord
<1>12. CASE CompleteLedger
  <2>1. /\ queue # <<>> /\ work.stage = "bumped" /\ work'.stage = "completed"
        /\ UNCHANGED <<queue, inFlight, call, lateVars>>
        /\ ledger' = Completed(Completing)
    BY <1>1, <1>12 DEF CompleteLedger, At, Work
  <2>2. HeadId \in Ids /\ HeadBody \in Body /\ ledger[HeadId] = None
    BY <2>1, HeadFacts DEF Recorded, BeforeRecord, SessionInv
  <2>3. ledger' = [ledger EXCEPT ![HeadId] =
                     [body |-> HeadBody, reply |-> work.reply]]
    BY <2>1, <2>2 DEF Completed, Completing
  <2>4. work.reply \in Reply
    BY <1>1, <2>1 DEF SessionInv, Shapes, Work
  <2>5. [body |-> HeadBody, reply |-> work.reply] # None
    BY <2>2, <2>4, NoneAssumption DEF Entry
  <2>6. InLedger(HeadId, HeadBody)'
    BY <1>1, <2>1, <2>2, <2>3, <2>5 DEF InLedger, HeadId, HeadBody
  <2>7. \A c \in Ids : ledger[c] # None => ledger'[c] = ledger[c]
    BY <1>1, <2>2, <2>3
  <2>8. \A k \in Calls : Answered(k, "OK")'
                          => InLedger(call[k].req.id, call[k].req.body)'
    <3> SUFFICES ASSUME NEW k \in Calls, Answered(k, "OK")'
                 PROVE  InLedger(call[k].req.id, call[k].req.body)'
      OBVIOUS
    <3>1. Answered(k, "OK") /\ call'[k] = call[k]
      BY <2>1 DEF Answered
    <3>2. call[k].req.id \in Ids
      BY <1>1, <3>1, RequestsAssumption DEF SessionInv, Shapes, Call, Answered
    <3>3. InLedger(call[k].req.id, call[k].req.body)
      BY <3>1 DEF Recorded
    <3> QED BY <2>7, <3>1, <3>2, <3>3 DEF InLedger
  <2> QED
    BY <1>1, <2>1, <2>6, <2>8 DEF Recorded, BeforeRecord, lateVars
<1>13. CASE Return
  <2>1. /\ queue # <<>> /\ work.stage = "published" /\ EndTask(work.reply)
        /\ UNCHANGED <<ledger, lateVars>>
    BY <1>13 DEF Return, At
  <2> QED BY <1>1, <2>1, RecordedEnd DEF Recorded, AfterRecord, lateVars
<1>14. CASE StepFails
  <2>1. /\ queue # <<>> /\ EndTask(Failed) /\ UNCHANGED <<ledger, lateVars>>
    BY <1>14 DEF StepFails, Abandon
  <2> QED BY <1>1, <2>1, RecordedEnd DEF Failed, lateVars
<1>15. CASE Crash
  <2>1. work'.stage = "idle" /\ UNCHANGED <<ledger, lateVars>>
    BY <1>15 DEF Crash, Abandon, Idle
  <2>2. \A k \in Calls : Answered(k, "OK")' => call'[k] = call[k]
    BY <1>1, <1>15 DEF Crash, Answered, Call
  <2> QED BY <1>1, <2>1, <2>2, RecordedFrame DEF lateVars
<1>16. ASSUME NEW w \in lateBatches, LateBatchArrives(w)
       PROVE  Recorded'
  <2>1. /\ UNCHANGED <<ledger, lateCompletions, call>> /\ UNCHANGED instanceVars
    BY <1>16 DEF LateBatchArrives
  <2>2. work'.stage = "idle" \/ (SameTask /\ work'.stage = work.stage)
    BY <2>1, TaskStays
  <2> QED BY <1>1, <2>1, <2>2, RecordedFrame DEF SameTask
<1>17. CASE RequestFallsDue \/ RequestExpires
  BY <1>2, <1>17 DEF RequestFallsDue, RequestExpires
<1>18. CASE UNCHANGED vars
  BY <1>2, <1>18 DEF vars
<1>19. ~\E m \in lateCompletions : LateCompletionArrives(m)
  BY <1>1
<1> QED
  BY <1>3, <1>4, <1>5, <1>7, <1>8, <1>9, <1>10, <1>11, <1>12, <1>13, <1>14,
     <1>15, <1>16, <1>17, <1>18, <1>19 DEF Next, SessionStep

\* In every reachable state.
LEMMA RecordedHolds == Spec => []Recorded
<1>1. Init => Recorded
  BY DEF Init, Recorded, Answered
<1>2. SessionInv /\ OneAnswer /\ Recorded /\ [Next]_vars => Recorded'
  BY RecordedStep
<1> QED BY <1>1, <1>2, SessionInvariant, OneAnswerHolds, PTL DEF Spec

-----------------------------------------------------------------------------
(* The pipeline implements CommandPromise *)

\* The variables of CommandPromise, as KeepsPromise maps them.
Done == [t \in Ids |-> IF transactions[t] = None THEN None
                       ELSE transactions[t].body]
Told == [k \in Calls |->
           IF call[k].state = "answered" /\ call[k].reply # Failed
           THEN [id |-> call[k].req.id, body |-> call[k].req.body,
                 code |-> call[k].reply.code, txn |-> call[k].reply.txn]
           ELSE None]

\* Everybody in S, who sent command c with body b, is told reply r.
Tell(S, c, b, r) ==
    /\ S \subseteq Calls /\ \A k \in S : Told[k] = None
    /\ Told' = [k \in Calls |->
                  IF k \in S
                  THEN [id |-> c, body |-> b, code |-> r.code, txn |-> r.txn]
                  ELSE Told[k]]
    /\ Done' = Done /\ Forgotten' = Forgotten

\* One more transaction is a step of CommandPromise, forgotten or not.
LEMMA PerformIsNext ==
    ASSUME NEW t \in Ids, NEW b \in Body, Done[t] = None,
           Done' = [Done EXCEPT ![t] = b], Told' = Told,
           \/ Forgotten' = Forgotten
           \/ b.kind \in {"ACCEPT", "BANKRUPT"} /\ Forgotten' = Forgotten \cup {t}
    PROVE  Promise!Next
BY DEF Promise!Next, Promise!Perform, Done, Told

\* Telling an outcome is, if it is stored and the one told before, and nobody who
\* asked for something else under that identifier was told OK.
LEMMA OkIsNext ==
    ASSUME NEW S, NEW c \in Ids, NEW b \in Body, NEW r \in Reply, r.code = "OK",
           Tell(S, c, b, r), r.txn # None => Done[r.txn] # None,
           \A k \in Calls : Told[k] # None /\ Told[k].id = c /\ Told[k].code = "OK"
                            => IF Told[k].body = b THEN Told[k].txn = r.txn
                                                   ELSE LateWrites
    PROVE  Promise!Next
<1>1. r.txn \in Ids \cup {None} /\ S \in SUBSET Calls
  BY DEF Reply, Tell
<1>2. Told' = [k \in Calls |->
                 IF k \in S
                 THEN [id |-> c, body |-> b, code |-> "OK", txn |-> r.txn]
                 ELSE Told[k]]
  BY DEF Tell
<1>3. \A k \in Calls : Promise!ToldOk(k, c) =>
          IF Told[k].body = b THEN Told[k].txn = r.txn ELSE LateWrites
  BY DEF Promise!ToldOk, Told
<1>4. Promise!AnswerOk(S, c, b)
  <2> DEFINE t == r.txn
  <2>1. t \in Ids \cup {None} /\ (t # None => Done[t] # None)
    BY <1>1
  <2>2. /\ \A k \in Calls : Promise!ToldOk(k, c) =>
              IF Told[k].body = b THEN Told[k].txn = t ELSE LateWrites
        /\ Told' = [k \in Calls |->
                     IF k \in S
                     THEN [id |-> c, body |-> b, code |-> "OK", txn |-> t]
                     ELSE Told[k]]
    BY <1>2, <1>3
  <2> HIDE DEF t
  <2> QED BY <2>1, <2>2 DEF Promise!AnswerOk, Told, Done
<1> QED
  BY <1>1, <1>4 DEF Tell, Promise!Next, Promise!Answer, Told, Done

\* So is a refusal of what has not happened or was forgotten, or of a reused
\* identifier.
LEMMA NoIsNext ==
    ASSUME NEW S, NEW c \in Ids, NEW b \in Body, NEW r \in {Refused, Reused},
           Tell(S, c, b, r), r = Refused => Done[c] # b \/ c \in Forgotten
    PROVE  Promise!Next
<1>1. S \in SUBSET Calls /\ r.txn = None /\ r.code \in {"REFUSED", "REUSED"}
      /\ (r.code = "REFUSED" => r = Refused)
  BY DEF Tell, Refused, Reused
<1>2. Promise!AnswerNo(S, c, b, r.code)
  BY <1>1 DEF Tell, Promise!AnswerNo, Told, Done
<1>3. \E code \in {"REFUSED", "REUSED"} : Promise!AnswerNo(S, c, b, code)
  <2> DEFINE code == r.code
  <2>1. code \in {"REFUSED", "REUSED"} /\ Promise!AnswerNo(S, c, b, code)
    BY <1>1, <1>2
  <2> HIDE DEF code
  <2> QED BY <2>1
<1>4. Promise!Answer(S)
  BY <1>3 DEF Tell, Promise!Answer, Told, Done
<1> QED
  BY <1>1, <1>4 DEF Promise!Next

\* What the callers of the task at the head are told when it ends.
LEMMA EndTaskTells ==
    ASSUME SessionInv, queue # <<>>, NEW r \in Reply, EndTask(r),
           UNCHANGED transactions, request'.txn = request.txn
    PROVE  /\ r # Failed => Tell({k \in Calls : Waiting(k, HeadId)}, HeadId, HeadBody, r)
           /\ r = Failed => Told' = Told /\ Done' = Done /\ Forgotten' = Forgotten
<1> DEFINE S == {k \in Calls : Waiting(k, HeadId)}
<1>1. call \in [Calls -> Call]
  BY DEF SessionInv, TypeOK
<1>2. Done' = Done /\ Forgotten' = Forgotten
  BY DEF Done, Forgotten, Paid
<1>3. \A k \in S : Told[k] = None
  BY DEF Told, Waiting
<1>4. \A k \in Calls \ S : Told'[k] = Told[k]
  BY <1>1 DEF Told, EndTask, HeadId
<1>5. ASSUME NEW k \in S
      PROVE  Told'[k] = IF r # Failed
                        THEN [id |-> HeadId, body |-> HeadBody,
                              code |-> r.code, txn |-> r.txn]
                        ELSE None
  <2>1. call'[k] = [call[k] EXCEPT !.state = "answered", !.reply = r]
    BY <1>1 DEF EndTask, HeadId
  <2>2. /\ call'[k].state = "answered" /\ call'[k].reply = r
        /\ call'[k].req = call[k].req
    BY <1>1, <2>1 DEF Call
  <2>3. call[k].req.id = HeadId /\ call[k].req.body = HeadBody
    BY WaitersAgree
  <2> QED BY <2>2, <2>3 DEF Told
<1>6. r # Failed =>
        Told' = [k \in Calls |->
                   IF k \in S
                   THEN [id |-> HeadId, body |-> HeadBody,
                         code |-> r.code, txn |-> r.txn]
                   ELSE Told[k]]
  BY <1>4, <1>5 DEF Told
<1>7. r = Failed => Told' = Told
  BY <1>3, <1>4, <1>5 DEF Told
<1> QED BY <1>2, <1>3, <1>6, <1>7 DEF Tell

\* An outcome that was told before, to anybody who sent this very command: the
\* request has at most one payment and keeps its settlement.
LEMMA SameOutcome ==
    ASSUME SessionInv, RequestSettledOnce, OneAnswer, NEW c \in Ids, NEW b \in Body,
           NEW r, Truthful(c, b, r), NEW k \in Calls, Told[k] # None,
           Told[k].id = c, Told[k].body = b, Told[k].code = "OK"
    PROVE  Told[k].txn = r.txn
<1>1. /\ Answered(k, "OK") /\ call[k].req.id = c /\ call[k].req.body = b
      /\ Told[k].txn = call[k].reply.txn
  BY DEF Told, Answered
<1>2. Truthful(c, b, call[k].reply)
  BY <1>1 DEF OneAnswer
<1>3. b.kind \in {"DEBIT", "CREDIT", "BANKRUPT"} \/ b.kind = "DECLINE"
      \/ b.kind = "ACCEPT"
  BY DEF Body, CommandKinds
<1>4. CASE b.kind = "ACCEPT"
  BY <1>1, <1>2, <1>4 DEF Truthful, RequestSettledOnce
<1> QED BY <1>1, <1>2, <1>3, <1>4 DEF Truthful

\* A batch that lands is one Perform, a decline none.  What cannot be told from
\* no effect is decided here: a bankruptcy, and a payment that was not marked.
LEMMA LandingPerforms ==
    ASSUME SessionInv, RequestSettledOnce, NEW w \in Batch, Lands(w), Write(w),
           UNCHANGED call
    PROVE  Promise!Next \/ (Done' = Done /\ Told' = Told /\ Forgotten' = Forgotten)
<1>1. Told' = Told
  BY DEF Told
<1>2. CASE w.body.kind = "DECLINE"
  <2>1. transactions' = transactions /\ request'.txn = request.txn
    BY <1>2, LandingFacts
  <2> QED BY <1>1, <2>1 DEF Done, Forgotten, Paid
<1>3. CASE w.body.kind # "DECLINE"
  <2>1. /\ w.id \in Ids /\ w.body \in Body /\ w.body # None
        /\ transactions[w.id] = None
        /\ transactions'[w.id] = [body |-> w.body, delta |-> w.delta]
        /\ transactions'[w.id] # None
        /\ \A t \in Ids \ {w.id} : transactions'[t] = transactions[t]
    BY <1>3, LandingFacts
  <2>2. Done[w.id] = None /\ Done' = [Done EXCEPT ![w.id] = w.body]
    BY <2>1 DEF Done
  <2>3. /\ Paid' = IF w.body.kind = "ACCEPT" THEN Paid \cup {w.id} ELSE Paid
        /\ transactions'[w.id].body = w.body /\ w.id \notin Forgotten
        /\ w.id \notin Paid
    BY <2>1, PaidGrows DEF Forgotten, Paid
  <2>4. Forgotten \subseteq Ids /\ Forgotten' \subseteq Ids
    BY DEF Forgotten
  <2>5. CASE w.body.kind \in {"DEBIT", "CREDIT"}
    <3>1. request' = request /\ Paid' = Paid
      BY <2>3, <2>5, LandingFacts
    <3>2. \A t \in Ids : t \in Forgotten' <=> t \in Forgotten
      BY <2>1, <2>3, <2>5, <3>1 DEF Forgotten
    <3>3. Forgotten' = Forgotten
      BY <2>4, <3>2
    <3> QED BY <1>1, <2>1, <2>2, <3>3, PerformIsNext
  <2>6. CASE w.body.kind = "BANKRUPT"
    <3>1. request' = request /\ Paid' = Paid
      BY <2>3, <2>6, LandingFacts
    <3>2. \A t \in Ids : t \in Forgotten' <=> t \in Forgotten \/ t = w.id
      BY <2>1, <2>3, <2>6, <3>1 DEF Forgotten
    <3>3. Forgotten' = Forgotten \cup {w.id}
      BY <2>1, <2>4, <3>2
    <3> QED BY <1>1, <2>1, <2>2, <2>6, <3>3, PerformIsNext
  <2>7. CASE w.body.kind = "ACCEPT"
    <3>1. /\ request.state = "PENDING" /\ overdue = FALSE
          /\ \/ request' = [state |-> "ACCEPTED", txn |-> w.id]
             \/ request' = request /\ overdue' = TRUE
      BY <2>7, LandingFacts
    <3>2. Paid = {} /\ request.txn = None
      BY <3>1 DEF RequestSettledOnce
    <3>3. Paid' = {w.id}
      BY <2>3, <2>7, <3>2
    <3>4. CASE request' = [state |-> "ACCEPTED", txn |-> w.id]
      <4>1. request'.txn = w.id
        BY <3>4
      <4>2. \A t \in Ids : t \in Forgotten' <=> t \in Forgotten
        BY <2>1, <2>3, <2>7, <3>2, <3>3, <4>1 DEF Forgotten
      <4>3. Forgotten' = Forgotten
        BY <2>4, <4>2
      <4> QED BY <1>1, <2>1, <2>2, <4>3, PerformIsNext
    <3>5. CASE request' = request
      <4>1. request'.txn # w.id
        BY <2>1, <3>2, <3>5, NoneAssumption
      <4>2. \A t \in Ids : t \in Forgotten' <=> t \in Forgotten \/ t = w.id
        BY <2>1, <2>3, <2>7, <3>2, <3>3, <4>1 DEF Forgotten
      <4>3. Forgotten' = Forgotten \cup {w.id}
        BY <2>1, <2>4, <4>2
      <4> QED BY <1>1, <2>1, <2>2, <2>7, <4>3, PerformIsNext
    <3> QED BY <3>1, <3>4, <3>5
  <2> QED BY <1>3, <2>1, <2>5, <2>6, <2>7 DEF Body, CommandKinds
<1> QED BY <1>2, <1>3

\* An answer OK is a step of CommandPromise.
LEMMA OkAnswers ==
    ASSUME SessionInv, RequestSettledOnce, OneAnswer, Recorded, queue # <<>>,
           NEW r \in Reply, EndTask(r),
           UNCHANGED transactions, request'.txn = request.txn,
           Truthful(HeadId, HeadBody, r), Durable(r),
           ~LateWrites => InLedger(HeadId, HeadBody)
    PROVE  Promise!Next
<1>1. HeadId \in Ids /\ HeadBody \in Body
  BY HeadFacts DEF SessionInv
<1>2. r.code = "OK" /\ r # Failed
  BY DEF Truthful, Failed
<1>3. Tell({k \in Calls : Waiting(k, HeadId)}, HeadId, HeadBody, r)
  BY <1>2, EndTaskTells
<1>4. r.txn # None => Done[r.txn] # None
  <2> SUFFICES ASSUME r.txn # None PROVE Done[r.txn] # None
    OBVIOUS
  <2>1. r.txn \in Ids /\ transactions[r.txn] # None
    BY DEF Reply, Durable
  <2>2. transactions[r.txn] \in Row
    BY <2>1 DEF SessionInv, TypeOK
  <2>3. transactions[r.txn].body # None
    BY <2>2, NoneAssumption DEF Row
  <2> QED BY <2>1, <2>3 DEF Done
<1>5. ASSUME NEW k \in Calls, Told[k] # None, Told[k].id = HeadId,
             Told[k].code = "OK"
      PROVE  IF Told[k].body = HeadBody THEN Told[k].txn = r.txn ELSE LateWrites
  <2>1. CASE Told[k].body = HeadBody
    BY <1>1, <1>5, <2>1, SameOutcome
  <2>2. CASE LateWrites
    BY <2>1, <2>2
  <2>3. CASE ~LateWrites
    <3>1. /\ Answered(k, "OK") /\ call[k].req.id = HeadId
          /\ Told[k].body = call[k].req.body
      BY <1>5 DEF Told, Answered
    <3>2. InLedger(HeadId, Told[k].body)
      BY <2>3, <3>1 DEF Recorded
    <3>3. Told[k].body = HeadBody
      BY <2>3, <3>2 DEF InLedger
    <3> QED BY <2>1, <3>3
  <2> QED BY <2>2, <2>3
<1> QED BY <1>1, <1>2, <1>3, <1>4, <1>5, OkIsNext

\* Whoever is refused has had no effect, or one of those that are forgotten.
LEMMA RefusalIsNext ==
    ASSUME SessionInv, RequestSettledOnce, queue # <<>>,
           ~Recognised(HeadId, HeadBody), ~Allowed(HeadBody), EndTask(Refused),
           UNCHANGED transactions, request'.txn = request.txn
    PROVE  Promise!Next
<1> DEFINE c == HeadId
           b == HeadBody
<1>1. c \in Ids /\ b \in Body /\ b # None
  BY HeadFacts, NoneAssumption DEF SessionInv
<1>2. b.kind \in {"DEBIT", "CREDIT", "BANKRUPT", "ACCEPT"}
  BY <1>1 DEF Body, CommandKinds, Allowed
<1>3. Done[c] # b \/ c \in Forgotten
  <2> SUFFICES ASSUME transactions[c] # None, transactions[c].body = b
               PROVE  c \in Forgotten
    BY <1>1 DEF Done
  <2>1. CASE b.kind \in {"DEBIT", "CREDIT"}
    BY <2>1 DEF Recognised
  <2>2. CASE b.kind = "BANKRUPT"
    BY <1>1, <2>2 DEF Forgotten
  <2>3. CASE b.kind = "ACCEPT"
    <3>1. request.state # "ACCEPTED"
      BY <2>3 DEF Recognised
    <3>2. request.txn = None
      BY <3>1 DEF RequestSettledOnce
    <3>3. c \in Paid /\ request.txn # c
      BY <1>1, <2>3, <3>2, NoneAssumption DEF Paid
    <3> QED BY <1>1, <3>3 DEF Forgotten
  <2> QED BY <1>2, <2>1, <2>2, <2>3
<1>4. Refused \in Reply /\ Refused # Failed /\ Refused \in {Refused, Reused}
  BY DEF Refused, Failed, Reply, Codes
<1>5. Tell({k \in Calls : Waiting(k, HeadId)}, c, b, Refused)
  BY <1>4, EndTaskTells
<1> QED BY <1>1, <1>3, <1>4, <1>5, NoIsNext

\* So is a conflict.
LEMMA ConflictIsNext ==
    ASSUME SessionInv, queue # <<>>, EndTask(Reused), UNCHANGED transactions,
           request'.txn = request.txn
    PROVE  Promise!Next
<1>1. HeadId \in Ids /\ HeadBody \in Body
  BY HeadFacts DEF SessionInv
<1>2. /\ Reused \in Reply /\ Reused # Failed /\ Reused # Refused
      /\ Reused \in {Refused, Reused}
  BY DEF Reused, Refused, Failed, Reply, Codes
<1>3. Tell({k \in Calls : Waiting(k, HeadId)}, HeadId, HeadBody, Reused)
  BY <1>2, EndTaskTells
<1> QED BY <1>1, <1>2, <1>3, NoIsNext

\* A delivery tells nothing, or tells its caller that the identifier is taken.
LEMMA DeliverPromise ==
    ASSUME SessionInv, NEW k \in Calls, Deliver(k)
    PROVE  Promise!Next \/ (Done' = Done /\ Told' = Told /\ Forgotten' = Forgotten)
<1>1. call \in [Calls -> Call] /\ call[k].state = "sent"
  BY DEF SessionInv, TypeOK, Deliver
<1>2. call[k].req \in Requests
  BY <1>1 DEF SessionInv, Shapes, Call
<1>3. call[k].req.id \in Ids /\ call[k].req.body \in Body
  BY <1>2, RequestsAssumption
<1>4. Done' = Done /\ Forgotten' = Forgotten
  BY DEF Deliver, d1Vars, Done, Forgotten, Paid
<1>5. Told[k] = None /\ \A j \in Calls \ {k} : Told'[j] = Told[j]
  BY <1>1 DEF Deliver, Told
<1>6. CASE call' = [call EXCEPT ![k].state = "waiting"]
  <2>1. Told'[k] = None
    BY <1>1, <1>6 DEF Told, Call
  <2> QED BY <1>4, <1>5, <2>1 DEF Told
<1>7. CASE call' = [call EXCEPT ![k].state = "answered", ![k].reply = Reused]
  <2>1. /\ call'[k].state = "answered" /\ call'[k].reply = Reused
        /\ call'[k].req = call[k].req
    BY <1>1, <1>7 DEF Call
  <2>2. Told'[k] = [id |-> call[k].req.id, body |-> call[k].req.body,
                    code |-> Reused.code, txn |-> Reused.txn]
    BY <2>1 DEF Told, Reused, Failed
  <2>3. Tell({k}, call[k].req.id, call[k].req.body, Reused)
    BY <1>4, <1>5, <2>2 DEF Tell, Told
  <2>4. Reused # Refused
    BY DEF Reused, Refused
  <2> QED BY <1>3, <2>3, <2>4, NoIsNext
<1> QED BY <1>6, <1>7 DEF Deliver

\* A step that CommandPromise cannot see.
Silent == Done' = Done /\ Told' = Told /\ Forgotten' = Forgotten

\* Every step is a step of CommandPromise or changes nothing it can see.
LEMMA PromiseStep ==
    ASSUME SessionInv, RequestSettledOnce, OneAnswer, Recorded, [Next]_vars
    PROVE  Promise!Next \/ Silent
<1>1. /\ work \in Work /\ call \in [Calls -> Call]
      /\ ledger \in [Ids -> Entry \cup {None}]
  BY DEF SessionInv, TypeOK
<1>2. ASSUME UNCHANGED transactions, request'.txn = request.txn, UNCHANGED call
      PROVE  Silent
  BY <1>2 DEF Silent, Done, Told, Forgotten, Paid
<1>3. ASSUME NEW k \in Calls, NEW r \in Requests, Send(k, r)
      PROVE  Silent
  BY <1>1, <1>3 DEF Silent, Send, Done, Told, Forgotten, Paid, Call, d1Vars
<1>4. ASSUME NEW k \in Calls, Retry(k)
      PROVE  Silent
  BY <1>1, <1>4 DEF Silent, Retry, Done, Told, Forgotten, Paid, Call, d1Vars
<1>5. ASSUME NEW k \in Calls, Deliver(k)
      PROVE  Promise!Next \/ Silent
  BY <1>5, DeliverPromise DEF Silent
<1>6. CASE Claim
  <2>1. /\ queue # <<>> /\ UNCHANGED <<transactions, request>>
        /\ HeadId \in Ids
    BY <1>6, HeadFacts DEF Claim, At, d1Vars, SessionInv
  <2>2. CASE UNCHANGED call
    BY <1>2, <2>1, <2>2
  <2>3. CASE /\ ledger[HeadId] # None /\ ledger[HeadId].body = HeadBody
             /\ EndTask(ledger[HeadId].reply)
    <3>1. ledger[HeadId].reply \in Reply
      BY <1>1, <2>1, <2>3 DEF Entry
    <3>2. /\ Truthful(HeadId, HeadBody, ledger[HeadId].reply)
          /\ Durable(ledger[HeadId].reply)
      BY <2>1, <2>3 DEF OneAnswer, SessionInv, AnswersAreDurable
    <3> QED BY <2>1, <2>3, <3>1, <3>2, OkAnswers DEF InLedger
  <2>4. CASE EndTask(Reused)
    BY <2>1, <2>4, ConflictIsNext
  <2> QED BY <1>6, <2>2, <2>3, <2>4 DEF Claim
<1>7. CASE Execute
  <2>1. /\ queue # <<>> /\ UNCHANGED transactions /\ RowsStay
        /\ request'.txn = request.txn
    <3>1. RowsStay
      BY <1>7 DEF Execute, RowsStay
    <3> QED BY <1>7, <3>1, RowsStayFacts DEF Execute, At, SessionInv
  <2>2. \/ UNCHANGED call
        \/ /\ ~Recognised(HeadId, HeadBody) /\ ~Allowed(HeadBody)
           /\ EndTask(Refused)
    BY <1>7 DEF Execute
  <2> QED BY <1>2, <2>1, <2>2, RefusalIsNext
<1>8. CASE Commit
  <2>1. queue # <<>> /\ work.plan \in Batch
    BY <1>1, <1>8 DEF Commit, At, SessionInv, Shapes, Work
  <2>2. \/ Lands(work.plan) /\ Write(work.plan) /\ UNCHANGED call
        \/ UNCHANGED <<transactions, request, call>>
        \/ EndTask(Failed) /\ UNCHANGED <<transactions, request>>
    BY <1>8 DEF Commit, d1Vars
  <2>3. Failed \in Reply
    BY DEF Failed, Reply, Codes
  <2>4. Lands(work.plan) /\ Write(work.plan) /\ UNCHANGED call
          => Promise!Next \/ Silent
    BY <2>1, LandingPerforms DEF Silent
  <2> QED BY <1>2, <2>1, <2>2, <2>3, <2>4, EndTaskTells DEF Silent
<1>9. CASE IncrementStateVersion \/ CompleteLedger \/ Publish
  BY <1>2, <1>9 DEF IncrementStateVersion, CompleteLedger, Publish, d1Vars
<1>10. CASE Return
  <2>1. /\ queue # <<>> /\ work.stage = "published" /\ EndTask(work.reply)
        /\ UNCHANGED <<transactions, request>>
    BY <1>10 DEF Return, At, d1Vars
  <2>2. /\ work.reply \in Reply /\ Durable(work.reply)
        /\ Truthful(HeadId, HeadBody, work.reply)
    BY <1>1, <2>1 DEF SessionInv, Shapes, PendingAnswersAreBacked, OneAnswer,
                      LateStages, Work
  <2> QED BY <2>1, <2>2, OkAnswers DEF Recorded, AfterRecord
<1>11. CASE StepFails
  <2>1. Failed \in Reply
    BY DEF Failed, Reply, Codes
  <2> QED BY <1>11, <2>1, EndTaskTells DEF StepFails, Silent, d1Vars
<1>12. CASE Crash
  BY <1>1, <1>12 DEF Silent, Crash, Done, Told, Forgotten, Paid, Call, d1Vars
<1>13. ASSUME NEW w \in lateBatches, LateBatchArrives(w)
       PROVE  Promise!Next \/ Silent
  <2>1. w \in Batch
    BY DEF SessionInv, TypeOK
  <2> QED
    BY <1>2, <1>13, <2>1, LandingPerforms DEF LateBatchArrives, Silent, d1Vars
<1>14. CASE \/ \E m \in lateCompletions : LateCompletionArrives(m)
            \/ UNCHANGED vars
  BY <1>2, <1>14 DEF LateCompletionArrives, vars, d1Vars
<1>15. CASE RequestFallsDue \/ RequestExpires
  <2>1. RowsStay /\ UNCHANGED call
    BY <1>15 DEF RequestFallsDue, RequestExpires, RowsStay
  <2> QED BY <1>2, <2>1, RowsStayFacts DEF SessionInv
<1> QED
  BY <1>3, <1>4, <1>5, <1>6, <1>7, <1>8, <1>9, <1>10, <1>11, <1>12, <1>13,
     <1>14, <1>15 DEF Next, SessionStep

\* The pipeline keeps the promise of CommandPromise for any number of calls,
\* commands, crashes, failed steps and late writes: a command takes effect at
\* most once, every copy of it that is told OK hears of the same stored effect,
\* one identifier is told OK for one command unless a ledger row came late, and a
\* refused one has had no effect but a bankruptcy or a payment whose request was
\* not marked (serialize, startCommand, command-ledger.ts).
THEOREM PipelineKeepsPromise == Spec => KeepsPromise
<1>1. Init => Promise!Init
  BY DEF Init, Promise!Init, Forgotten
<1>2. SessionInv /\ RequestSettledOnce /\ OneAnswer /\ Recorded /\ [Next]_vars
        => [Promise!Next]_(Promise!vars)
  BY PromiseStep DEF Promise!vars, Silent, Done, Told
<1> QED
  BY <1>1, <1>2, SessionInvariant, SettledOnce, OneAnswerHolds, RecordedHolds,
     PTL DEF Spec, KeepsPromise, Promise!Spec
=============================================================================
