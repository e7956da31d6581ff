---------------------------- MODULE LobbyProofs ----------------------------
(***************************************************************************)
(* Proofs about Lobby for any accounts, any number of requests, any limit  *)
(* of players, any number of failures, and with or without late writes.    *)
(* At the end, that what AccountsProofs proves of an account alone holds   *)
(* in the specification of MCPeople, where it stands beside a table.       *)
(***************************************************************************)
EXTENDS MCPeople, FiniteSetTheorems, TLAPS

-----------------------------------------------------------------------------
(* Facts about writes and commands *)

\* What a write of each kind carries.
LEMMA WriteKinds ==
    ASSUME NEW w \in Writes
    PROVE  /\ w.kind \in {"activate", "close", "seat", "unseat", "snapshot", "record"}
           /\ w.kind = "seat" => w.user \in Users /\ w.seat \in Calls
           /\ w.kind = "unseat" => w.seat \in Seats
           /\ w.kind = "snapshot" => w.winners \in {{OwnerSeat}, {LocalSeat}}
           /\ w.kind = "record" => w.user \in Users /\ w.won \in BOOLEAN
           /\ w = Close <=> w.kind = "close"
BY DEF Writes, Activate, Close, Seat, Unseat, Snap, Record

\* What a command of each kind carries, and what it writes first.
LEMMA CommandKinds ==
    ASSUME NEW c \in Commands, NEW k \in Calls
    PROVE  /\ c.kind \in {"START", "JOIN", "REMOVE", "FINISH"}
           /\ c.kind = "JOIN" => c.user \in Users \ {Owner}
           /\ c.kind = "FINISH" => c.winners \in {{OwnerSeat}, {LocalSeat}}
           /\ FirstWrite(k, c) \in Writes
           /\ c.kind = "START" => FirstWrite(k, c).kind = "activate"
           /\ c.kind = "JOIN" => FirstWrite(k, c) = Seat(c.user, k)
           /\ c.kind = "REMOVE" => FirstWrite(k, c).kind = "unseat"
           /\ c.kind = "FINISH" => FirstWrite(k, c) = Snap(c.winners)
<1>1. CASE c = Start
  BY <1>1 DEF Start, FirstWrite, Writes, Activate
<1>2. ASSUME NEW u \in Users \ {Owner}, c = Join(u)
      PROVE  c.kind = "JOIN" /\ c.user = u /\ FirstWrite(k, c) = Seat(u, k)
  BY <1>2 DEF Join, FirstWrite
<1>3. ASSUME NEW s \in Seats, c = Remove(s)
      PROVE  c.kind = "REMOVE" /\ FirstWrite(k, c) = Unseat(s)
  BY <1>3 DEF Remove, FirstWrite
<1>4. ASSUME NEW s \in {OwnerSeat, LocalSeat}, c = Finish({s})
      PROVE  c.kind = "FINISH" /\ c.winners = {s} /\ FirstWrite(k, c) = Snap({s})
  BY <1>4 DEF Finish, FirstWrite
<1> QED
  BY <1>1, <1>2, <1>3, <1>4 DEF Commands, Writes, Unseat

\* What a batch does to the rows, case by case.
LEMMA ApplyCases ==
    ASSUME NEW w \in Writes, Apply(w)
    PROVE  \/ UNCHANGED <<d1Vars, finish>>
           \/ /\ w.kind = "activate" /\ status = "LOBBY" /\ status' = "ACTIVE"
              /\ UNCHANGED <<removal, seatVars, resultVars, finish>>
           \/ /\ w.kind = "close" /\ status = "ACTIVE" /\ status' = "ARCHIVED"
              /\ finish' = "CLOSED"
              /\ UNCHANGED <<removal, seatVars, resultVars>>
           \/ /\ w.kind = "seat" /\ status = "LOBBY" /\ members[w.user] = None
              /\ Cardinality(players) < MaxLobbyPlayers
              /\ TakeSeat(w) /\ UNCHANGED <<gameVars, resultVars, finish>>
           \/ /\ w.kind = "unseat" /\ status = "LOBBY" /\ w.seat \in players
              /\ w.seat # members[Owner]
              /\ LeaveSeat(w) /\ UNCHANGED <<gameVars, resultVars, finish>>
           \/ /\ w.kind = "snapshot" /\ status # "GONE" /\ snapshot = None
              /\ snapshot' = w.winners
              /\ UNCHANGED <<gameVars, seatVars, completions, finish>>
           \/ /\ w.kind = "record" /\ status # "GONE" /\ completions[w.user] = None
              /\ completions' = [completions EXCEPT ![w.user] = w.won]
              /\ UNCHANGED <<gameVars, seatVars, snapshot, finish>>
<1>1. CASE ~Lands(w)
  BY <1>1 DEF Apply, d1Vars
<1>2. ASSUME w.kind # "close" PROVE w # Close
  BY <1>2, WriteKinds
<1>3. ASSUME w.kind = "close" PROVE w = Close
  BY <1>3, WriteKinds
<1>4. CASE Lands(w)
  <2>1. CASE w.kind = "activate"
    BY <1>2, <1>4, <2>1 DEF Apply, Lands
  <2>2. CASE w.kind = "close"
    BY <1>3, <1>4, <2>2 DEF Apply, Lands
  <2>3. CASE w.kind = "seat"
    BY <1>2, <1>4, <2>3 DEF Apply, Lands
  <2>4. CASE w.kind = "unseat"
    BY <1>2, <1>4, <2>4 DEF Apply, Lands
  <2>5. CASE w.kind = "snapshot"
    BY <1>2, <1>4, <2>5 DEF Apply, Lands
  <2>6. CASE w.kind = "record"
    BY <1>2, <1>4, <2>6 DEF Apply, Lands
  <2> QED BY <2>1, <2>2, <2>3, <2>4, <2>5, <2>6, WriteKinds
<1> QED BY <1>1, <1>4

\* A batch leaves every row and the history well formed.
LEMMA ApplyTypes ==
    ASSUME TypeOK, NEW w \in Writes, Apply(w)
    PROVE  /\ status' \in {"LOBBY", "ACTIVE", "ARCHIVED", "GONE"}
           /\ removal' = removal
           /\ players' \subseteq Seats
           /\ members' \in [Users -> Seats \cup {None}]
           /\ controllers' \in [Seats -> Users \cup {None}]
           /\ snapshot' \in {None} \cup {{OwnerSeat}, {LocalSeat}}
           /\ completions' \in [Users -> BOOLEAN \cup {None}]
           /\ finish' \in {"NONE", "CLOSED", "CLEARED"}
<1>1. CASE UNCHANGED <<d1Vars, finish>>
  BY <1>1 DEF TypeOK, d1Vars, gameVars, seatVars, resultVars
<1>2. CASE w.kind = "seat" /\ TakeSeat(w) /\ UNCHANGED <<gameVars, resultVars, finish>>
  BY <1>2, WriteKinds DEF TypeOK, TakeSeat, gameVars, resultVars, Seats
<1>3. CASE w.kind = "unseat" /\ LeaveSeat(w) /\ UNCHANGED <<gameVars, resultVars, finish>>
  BY <1>3, WriteKinds DEF TypeOK, LeaveSeat, gameVars, resultVars
<1>4. CASE /\ w.kind = "snapshot" /\ snapshot' = w.winners
           /\ UNCHANGED <<gameVars, seatVars, completions, finish>>
  BY <1>4, WriteKinds DEF TypeOK, gameVars, seatVars
<1>5. CASE /\ w.kind = "record"
           /\ completions' = [completions EXCEPT ![w.user] = w.won]
           /\ UNCHANGED <<gameVars, seatVars, snapshot, finish>>
  BY <1>5, WriteKinds DEF TypeOK, gameVars, seatVars
<1>6. CASE /\ status' \in {"ACTIVE", "ARCHIVED"} /\ finish' \in {finish, "CLOSED"}
           /\ UNCHANGED <<removal, seatVars, resultVars>>
  BY <1>6 DEF TypeOK, seatVars, resultVars
<1> QED BY <1>1, <1>2, <1>3, <1>4, <1>5, <1>6, ApplyCases

-----------------------------------------------------------------------------
(* Types, and what the slot holds at each stage *)

\* A call under way carries a command; the slot belongs to a taken call and
\* holds the write its stage calls for.
WorkShape ==
    /\ \A k \in Calls : call[k].state # "free" => call[k].cmd \in Commands
    /\ work.stage = "idle" => work = Idle
    /\ work # Idle => work.call \in Calls /\ call[work.call].state = "taken"
    /\ work.stage = "writing" => work.write = FirstWrite(work.call, Running)
    /\ work.stage \in {"snapped", "closed", "recorded"}
          => Running.kind = "FINISH"
    /\ work.stage = "snapped" => work.write \in {None, Close}
    /\ work.stage = "closed" => work.write = None
    /\ work.stage = "recorded" /\ work.write # None
          => work.write \in Writes /\ work.write.kind = "record"

QueueInv == TypeOK /\ WorkShape

\* What the end of a task leaves behind.
LEMMA AnswerFacts ==
    ASSUME QueueInv, NEW k \in Calls, NEW code \in Codes, Answer(k, code),
           call[k].state # "free"
    PROVE  /\ work' = Idle
           /\ work' \in [call : Calls \cup {None}, stage : Stages,
                         write : Writes \cup {None}]
           /\ call' \in [Calls -> [state : {"free", "sent", "taken", "answered"},
                                   cmd : Commands \cup {None},
                                   code : Codes \cup {None}]]
           /\ call'[k].state = "answered" /\ call'[k].code = code
           /\ call'[k].cmd = call[k].cmd
           /\ \A j \in Calls \ {k} : call'[j] = call[j]
           /\ WorkShape'
<1>1. call \in [Calls -> [state : {"free", "sent", "taken", "answered"},
                          cmd : Commands \cup {None}, code : Codes \cup {None}]]
  BY DEF QueueInv, TypeOK
<1>2. work' = Idle /\ call' = [call EXCEPT ![k].state = "answered", ![k].code = code]
  BY DEF Answer
<1>3. /\ call' \in [Calls -> [state : {"free", "sent", "taken", "answered"},
                              cmd : Commands \cup {None}, code : Codes \cup {None}]]
      /\ call'[k].state = "answered" /\ call'[k].code = code
      /\ call'[k].cmd = call[k].cmd
      /\ \A j \in Calls \ {k} : call'[j] = call[j]
  BY <1>1, <1>2
<1>4. /\ Idle \in [call : Calls \cup {None}, stage : Stages,
                   write : Writes \cup {None}]
      /\ Idle.stage = "idle"
  BY DEF Idle, Stages
<1>5. \A j \in Calls : call'[j].state # "free" => call'[j].cmd \in Commands
  BY <1>3 DEF QueueInv, WorkShape
<1>6. WorkShape'
  BY <1>2, <1>4, <1>5 DEF WorkShape
<1> QED BY <1>2, <1>3, <1>4, <1>6

\* What the next stage of a FINISH_GAME leaves behind.
LEMMA ThenFacts ==
    ASSUME QueueInv, work.stage \in {"writing", "snapped", "closed", "recorded"},
           Running.kind = "FINISH",
           NEW stage \in {"snapped", "closed", "recorded"}, NEW w, Then(stage, w),
           w # None => w \in Writes,
           stage = "snapped" => w \in {None, Close},
           stage = "closed" => w = None,
           stage = "recorded" /\ w # None => w.kind = "record"
    PROVE  /\ work' \in [call : Calls \cup {None}, stage : Stages,
                         write : Writes \cup {None}]
           /\ work'.stage = stage /\ work'.write = w /\ work'.call = work.call
           /\ UNCHANGED <<call, Running>>
           /\ work.call \in Calls
           /\ WorkShape'
<1>1. /\ work \in [call : Calls \cup {None}, stage : Stages,
                   write : Writes \cup {None}]
      /\ work # Idle
  BY DEF QueueInv, TypeOK, Idle
<1>2. work' = [work EXCEPT !.stage = stage, !.write = w] /\ call' = call
  BY DEF Then
<1>3. /\ work'.stage = stage /\ work'.write = w /\ work'.call = work.call
      /\ work' \in [call : Calls \cup {None}, stage : Stages,
                    write : Writes \cup {None}]
  BY <1>1, <1>2 DEF Stages
<1>4. UNCHANGED Running
  BY <1>2, <1>3 DEF Running
<1>5. work.call \in Calls /\ call[work.call].state = "taken"
  BY <1>1 DEF QueueInv, WorkShape
<1>6. WorkShape'
  BY <1>2, <1>3, <1>4, <1>5 DEF QueueInv, WorkShape
<1> QED BY <1>2, <1>3, <1>4, <1>5, <1>6

\* The command in the slot.
LEMMA RunningFacts ==
    ASSUME QueueInv, work.stage # "idle"
    PROVE  /\ work.call \in Calls /\ call[work.call].state = "taken"
           /\ Running \in Commands
           /\ work.stage = "writing" => work.write = FirstWrite(work.call, Running)
                                        /\ work.write \in Writes
<1>1. work # Idle
  BY DEF Idle
<1>2. work.call \in Calls /\ call[work.call].state = "taken"
  BY <1>1 DEF QueueInv, WorkShape
<1>3. Running \in Commands
  BY <1>2 DEF QueueInv, WorkShape, Running
<1> QED BY <1>2, <1>3, CommandKinds DEF QueueInv, WorkShape

\* The rows as they are.
LEMMA TypesStay ==
    ASSUME TypeOK, UNCHANGED <<d1Vars, finish>>
    PROVE  /\ status' \in {"LOBBY", "ACTIVE", "ARCHIVED", "GONE"}
           /\ removal' \in {"NONE", "RECENT", "OLD"}
           /\ players' \subseteq Seats
           /\ members' \in [Users -> Seats \cup {None}]
           /\ controllers' \in [Seats -> Users \cup {None}]
           /\ snapshot' \in {None} \cup {{OwnerSeat}, {LocalSeat}}
           /\ completions' \in [Users -> BOOLEAN \cup {None}]
           /\ finish' \in {"NONE", "CLOSED", "CLEARED"}
BY DEF TypeOK, d1Vars, gameVars, seatVars, resultVars

\* What a step of the command in the slot does to D1 and to the slot.
LEMMA QueueStepFacts ==
    ASSUME QueueInv, QueueStep
    PROVE  /\ UNCHANGED faultVars
           /\ \/ UNCHANGED d1Vars
              \/ work # Idle /\ work.write \in Writes /\ Apply(work.write)
           /\ \/ StoreRoll
              \/ /\ UNCHANGED rolling /\ work # Idle
                 /\ \/ \E code \in Codes : Answer(work.call, code)
                    \/ WorkShape' /\ UNCHANGED <<call, Running>>
                       /\ work'.call = work.call /\ work'.stage # "writing"
                       /\ work' \in [call : Calls \cup {None}, stage : Stages,
                                     write : Writes \cup {None}]
<1>1. /\ Close \in Writes /\ None \notin Writes
      /\ \A u \in Users, won \in BOOLEAN :
            Record(u, won) \in Writes /\ Record(u, won).kind = "record"
  <2>1. Close \in Writes /\ None \notin Writes
    BY NoneAssumption DEF Writes
  <2>2. ASSUME NEW u \in Users, NEW won \in BOOLEAN
        PROVE  Record(u, won) \in Writes /\ Record(u, won).kind = "record"
    <3>1. Record(u, won) \in Writes
      BY DEF Writes
    <3> QED BY <3>1 DEF Record
  <2> QED BY <2>1, <2>2
<1>2. {"OK", "REFUSED", "FAILED"} \subseteq Codes
  BY DEF Codes
<1>3. CASE CommitCommand
  <2>1. work.stage = "writing" /\ work # Idle /\ UNCHANGED <<rolling, faultVars>>
    BY <1>3 DEF CommitCommand, Idle
  <2>2. \E code \in Codes : Answer(work.call, code)
    BY <1>2, <1>3 DEF CommitCommand
  <2> QED BY <1>3, <2>1, <2>2, RunningFacts DEF CommitCommand
<1>4. CASE CommitSnapshot
  <2>1. /\ work.stage = "writing" /\ work # Idle /\ UNCHANGED <<rolling, faultVars>>
        /\ Running.kind = "FINISH" /\ Apply(work.write)
        /\ Answer(work.call, "FAILED") \/ Then("snapped", None)
    BY <1>4 DEF CommitSnapshot, Idle
  <2> QED BY <1>1, <1>2, <2>1, RunningFacts, ThenFacts
<1>5. CASE ReadForClose
  <2>1. /\ work.stage = "snapped" /\ work # Idle /\ UNCHANGED <<rolling, faultVars, d1Vars>>
        /\ Answer(work.call, "REFUSED") \/ Then("snapped", Close)
    BY <1>5 DEF ReadForClose, Idle
  <2>2. Running.kind = "FINISH"
    BY <2>1 DEF QueueInv, WorkShape
  <2> QED BY <1>1, <1>2, <2>1, <2>2, ThenFacts
<1>6. CASE CommitClose
  <2>1. /\ work.stage = "snapped" /\ work # Idle /\ UNCHANGED <<rolling, faultVars>>
        /\ work.write = Close /\ Apply(work.write)
        /\ Answer(work.call, "REFUSED") \/ Then("closed", None)
    BY <1>6 DEF CommitClose, Idle
  <2>2. Running.kind = "FINISH"
    BY <2>1 DEF QueueInv, WorkShape
  <2> QED BY <1>1, <1>2, <2>1, <2>2, ThenFacts
<1>7. CASE ReadForRecord
  <2>1. /\ work.stage = "closed" /\ work # Idle /\ UNCHANGED <<rolling, faultVars, d1Vars>>
        /\ \/ Answer(work.call, "FAILED")
           \/ Then("recorded", None)
           \/ \E u \in Users :
                 Then("recorded", Record(u, members[u] \in Running.winners))
    BY <1>7 DEF ReadForRecord, Idle, Unrecorded
  <2>2. Running.kind = "FINISH"
    BY <2>1 DEF QueueInv, WorkShape
  <2>3. ASSUME NEW u \in Users,
               Then("recorded", Record(u, members[u] \in Running.winners))
        PROVE  /\ WorkShape' /\ UNCHANGED <<call, Running>>
               /\ work'.call = work.call /\ work'.stage # "writing"
               /\ work' \in [call : Calls \cup {None}, stage : Stages,
                             write : Writes \cup {None}]
    <3> DEFINE won == members[u] \in Running.winners
               w == Record(u, won)
    <3>1. won \in BOOLEAN
      OBVIOUS
    <3> HIDE DEF won
    <3>2. w \in Writes /\ w.kind = "record"
      BY <1>1, <3>1
    <3> HIDE DEF w
    <3> QED BY <2>1, <2>2, <2>3, <3>2, ThenFacts DEF w, won
  <2>4. CASE Then("recorded", None)
    BY <2>1, <2>2, <2>4, ThenFacts
  <2> QED BY <1>2, <2>1, <2>2, <2>3, <2>4
<1>8. CASE CommitRecord
  <2>1. /\ work.stage = "recorded" /\ work # Idle /\ UNCHANGED <<rolling, faultVars>>
        /\ work.write # None /\ Apply(work.write)
        /\ \/ Answer(work.call, "FAILED")
           \/ Then("recorded", None)
           \/ \E u \in Users :
                 Then("recorded", Record(u, members[u] \in Running.winners))
    BY <1>8 DEF CommitRecord, Idle, Unrecorded
  <2>2. Running.kind = "FINISH" /\ work.write \in Writes
    BY <2>1 DEF QueueInv, WorkShape
  <2>3. ASSUME NEW u \in Users,
               Then("recorded", Record(u, members[u] \in Running.winners))
        PROVE  /\ WorkShape' /\ UNCHANGED <<call, Running>>
               /\ work'.call = work.call /\ work'.stage # "writing"
               /\ work' \in [call : Calls \cup {None}, stage : Stages,
                             write : Writes \cup {None}]
    <3> DEFINE won == members[u] \in Running.winners
               w == Record(u, won)
    <3>1. won \in BOOLEAN
      OBVIOUS
    <3> HIDE DEF won
    <3>2. w \in Writes /\ w.kind = "record"
      BY <1>1, <3>1
    <3> HIDE DEF w
    <3> QED BY <2>1, <2>2, <2>3, <3>2, ThenFacts DEF w, won
  <2>4. CASE Then("recorded", None)
    BY <2>1, <2>2, <2>4, ThenFacts
  <2> QED BY <1>2, <2>1, <2>2, <2>3, <2>4
<1>9. CASE ClearDice
  <2>1. work # Idle
    BY <1>9 DEF ClearDice, Idle
  <2> QED BY <1>2, <1>9, <2>1 DEF ClearDice
<1>10. CASE StoreRoll
  BY <1>10 DEF StoreRoll
<1> QED
  BY <1>3, <1>4, <1>5, <1>6, <1>7, <1>8, <1>9, <1>10 DEF QueueStep

\* Types and shape, for steps that leave the slot and the callers alone.
LEMMA QueueStays ==
    ASSUME QueueInv, UNCHANGED <<instanceVars, call>>
    PROVE  /\ work' \in [call : Calls \cup {None}, stage : Stages,
                         write : Writes \cup {None}]
           /\ rolling' \in Seats \cup {None}
           /\ call' \in [Calls -> [state : {"free", "sent", "taken", "answered"},
                                   cmd : Commands \cup {None},
                                   code : Codes \cup {None}]]
           /\ work' = Idle \/ rolling' = None
           /\ WorkShape'
<1>1. UNCHANGED <<work, rolling, call, Running>>
  BY DEF instanceVars, Running
<1> QED BY <1>1 DEF QueueInv, TypeOK, WorkShape

\* A write whose issuer goes away stays a write.
LEMMA AbandonFacts ==
    ASSUME QueueInv, Abandon
    PROVE  late' \subseteq Writes
BY DEF QueueInv, TypeOK, Abandon

\* Every step keeps the queue as it is said to be: one holder of its slot, and a
\* write only of the stage that issues it.
LEMMA QueueInvStep ==
    ASSUME QueueInv, [Next]_vars
    PROVE  QueueInv'
<1> DEFINE WorkType == [call : Calls \cup {None}, stage : Stages,
                        write : Writes \cup {None}]
           CallType == [state : {"free", "sent", "taken", "answered"},
                        cmd : Commands \cup {None}, code : Codes \cup {None}]
<1>1. /\ work \in WorkType /\ call \in [Calls -> CallType]
      /\ rolling \in Seats \cup {None} /\ late \subseteq Writes
      /\ failures \in 0..MaxFailures /\ dice \subseteq Seats
  BY DEF QueueInv, TypeOK
<1>2. {"OK", "REFUSED", "FAILED", "LOST"} = Codes /\ Idle \in WorkType
  BY DEF Codes, Idle, Stages
<1>3. ASSUME UNCHANGED <<d1Vars, finish, dice, faultVars>>,
             work' \in WorkType, call' \in [Calls -> CallType],
             rolling' \in Seats \cup {None}, work' = Idle \/ rolling' = None,
             WorkShape'
      PROVE  QueueInv'
  BY <1>1, <1>3, TypesStay DEF QueueInv, TypeOK, faultVars
<1>4. ASSUME NEW k \in Calls, NEW c \in Commands, Send(k, c)
      PROVE  QueueInv'
  <2>1. call' = [call EXCEPT ![k] = Sent(c)] /\ call[k] = Free
    BY <1>4 DEF Send
  <2>2. call' \in [Calls -> CallType]
    BY <1>1, <2>1 DEF Sent
  <2>3. WorkShape'
    <3>1. UNCHANGED work
      BY <1>4 DEF Send, instanceVars
    <3>2. work # Idle => UNCHANGED Running /\ call'[work.call].state = "taken"
      BY <1>1, <2>1, <3>1 DEF QueueInv, WorkShape, Running, Free
    <3>3. \A j \in Calls : call'[j].state # "free" => call'[j].cmd \in Commands
      BY <1>1, <2>1 DEF QueueInv, WorkShape, Sent
    <3>4. work = Idle => work.stage = "idle"
      BY DEF Idle
    <3> QED BY <3>1, <3>2, <3>3, <3>4 DEF QueueInv, WorkShape
  <2> QED
    BY <1>3, <1>4, <2>2, <2>3 DEF Send, instanceVars, QueueInv, TypeOK
<1>5. ASSUME NEW k \in Calls, Hear(k)
      PROVE  QueueInv'
  <2>1. call' = [call EXCEPT ![k] = Free] /\ call[k].state = "answered"
    BY <1>5 DEF Hear
  <2>2. call' \in [Calls -> CallType]
    BY <1>1, <2>1 DEF Free
  <2>3. WorkShape'
    <3>1. UNCHANGED work
      BY <1>5 DEF Hear, instanceVars
    <3>2. work # Idle => UNCHANGED Running /\ call'[work.call].state = "taken"
      BY <1>1, <2>1, <3>1 DEF QueueInv, WorkShape, Running
    <3>3. \A j \in Calls : call'[j].state # "free" => call'[j].cmd \in Commands
      BY <1>1, <2>1 DEF QueueInv, WorkShape, Free
    <3>4. work = Idle => work.stage = "idle"
      BY DEF Idle
    <3> QED BY <3>1, <3>2, <3>3, <3>4 DEF QueueInv, WorkShape
  <2> QED
    BY <1>3, <1>5, <2>2, <2>3 DEF Hear, instanceVars, QueueInv, TypeOK
<1>6. ASSUME NEW k \in Calls, Take(k)
      PROVE  QueueInv'
  <2>1. /\ work = Idle /\ rolling = None /\ call[k].state = "sent"
        /\ UNCHANGED <<d1Vars, dice, rolling, faultVars, finish>>
    BY <1>6 DEF Take, SlotFree
  <2>2. call[k].cmd \in Commands
    BY <2>1 DEF QueueInv, WorkShape
  <2>3. CASE Answer(k, "REFUSED") \/ Answer(k, "OK")
    <3>1. PICK code \in Codes : Answer(k, code)
      BY <1>2, <2>3
    <3> QED BY <1>1, <1>3, <2>1, <3>1, AnswerFacts
  <2>4. CASE /\ work' = [call |-> k, stage |-> "writing",
                         write |-> FirstWrite(k, call[k].cmd)]
             /\ call' = [call EXCEPT ![k].state = "taken"]
    <3>1. call' \in [Calls -> CallType]
      BY <1>1, <2>4
    <3>2. FirstWrite(k, call[k].cmd) \in Writes
      BY <2>2, CommandKinds
    <3>3. work' \in WorkType
      BY <2>4, <3>2 DEF Stages
    <3>4. call'[k].state = "taken" /\ call'[k].cmd = call[k].cmd
      BY <1>1, <2>4
    <3>5. WorkShape'
      <4>1. \A j \in Calls : call'[j].state # "free" => call'[j].cmd \in Commands
        BY <1>1, <2>2, <2>4, <3>4 DEF QueueInv, WorkShape
      <4>2. /\ work'.call = k /\ work'.stage = "writing"
            /\ work'.write = FirstWrite(k, call[k].cmd)
            /\ Running' = call[k].cmd
        BY <2>4, <3>4 DEF Running
      <4> QED BY <3>4, <4>1, <4>2 DEF WorkShape
    <3> QED BY <1>1, <1>3, <2>1, <3>1, <3>3, <3>5
  <2> QED BY <1>6, <2>3, <2>4 DEF Take
<1>7. ASSUME NEW s \in Seats, Roll(s)
      PROVE  QueueInv'
  <2>1. work = Idle /\ rolling' = s /\ UNCHANGED <<work, call>>
    BY <1>7 DEF Roll, SlotFree
  <2>2. WorkShape'
    BY <2>1 DEF QueueInv, WorkShape, Running
  <2> QED BY <1>1, <1>3, <1>7, <2>1, <2>2 DEF Roll
<1>8. CASE QueueStep
  <2>1. CASE StoreRoll
    <3>1. /\ UNCHANGED <<work, call, d1Vars, faultVars, finish>>
          /\ rolling \in Seats /\ rolling' = None /\ dice' = dice \cup {rolling}
      BY <1>1, <2>1 DEF StoreRoll
    <3>2. WorkShape'
      BY <3>1 DEF QueueInv, WorkShape, Running
    <3> QED BY <1>1, <3>1, <3>2, TypesStay DEF QueueInv, TypeOK, faultVars
  <2>2. CASE ~StoreRoll
    <3>1. /\ UNCHANGED <<faultVars, rolling>> /\ work # Idle
          /\ work' \in WorkType /\ call' \in [Calls -> CallType] /\ WorkShape'
      <4>1. /\ UNCHANGED <<faultVars, rolling>> /\ work # Idle
            /\ \/ \E code \in Codes : Answer(work.call, code)
               \/ WorkShape' /\ UNCHANGED call /\ work' \in WorkType
        BY <1>8, <2>2, QueueStepFacts
      <4>2. work.call \in Calls /\ call[work.call].state = "taken"
        BY <4>1 DEF QueueInv, WorkShape
      <4> QED BY <1>1, <4>1, <4>2, AnswerFacts
    <3>2. rolling' = None
      BY <3>1 DEF QueueInv, TypeOK
    <3>3. dice' \subseteq Seats
      BY <1>1, <1>8, <2>2
         DEF QueueStep, CommitCommand, CommitSnapshot, ReadForClose, CommitClose,
             ReadForRecord, CommitRecord, ClearDice
    <3>4. /\ status' \in {"LOBBY", "ACTIVE", "ARCHIVED", "GONE"}
          /\ removal' \in {"NONE", "RECENT", "OLD"}
          /\ players' \subseteq Seats
          /\ members' \in [Users -> Seats \cup {None}]
          /\ controllers' \in [Seats -> Users \cup {None}]
          /\ snapshot' \in {None} \cup {{OwnerSeat}, {LocalSeat}}
          /\ completions' \in [Users -> BOOLEAN \cup {None}]
          /\ finish' \in {"NONE", "CLOSED", "CLEARED"}
      <4>1. CASE ClearDice
        BY <4>1 DEF ClearDice, QueueInv, TypeOK, d1Vars, gameVars, seatVars, resultVars
      <4>2. CASE ReadForClose \/ ReadForRecord
        BY <4>2, TypesStay DEF ReadForClose, ReadForRecord, QueueInv
      <4>3. CASE CommitCommand \/ CommitSnapshot \/ CommitClose \/ CommitRecord
        <5>1. Apply(work.write) /\ work.stage # "idle"
          BY <4>3 DEF CommitCommand, CommitSnapshot, CommitClose, CommitRecord
        <5>2. work.write \in Writes
          <6>1. CASE work.stage = "writing"
            BY <6>1, RunningFacts
          <6>2. CASE work.stage # "writing"
            <7>1. work.write = Close \/ (work.stage = "recorded" /\ work.write # None)
              BY <4>3, <6>2 DEF CommitCommand, CommitSnapshot, CommitClose, CommitRecord
            <7>2. Close \in Writes
              BY DEF Writes
            <7> QED BY <7>1, <7>2 DEF QueueInv, WorkShape
          <6> QED BY <6>1, <6>2
        <5> QED BY <5>1, <5>2, ApplyTypes DEF QueueInv, TypeOK
      <4> QED BY <1>8, <2>2, <4>1, <4>2, <4>3 DEF QueueStep
    <3> QED BY <1>1, <3>1, <3>2, <3>3, <3>4 DEF QueueInv, TypeOK, faultVars
  <2> QED BY <2>1, <2>2
<1>9. CASE DeleteGame \/ RestoreGame \/ ThirtyDaysPass
  <2>1. /\ UNCHANGED <<seatVars, resultVars, dice, instanceVars, call, faultVars, finish>>
        /\ status' \in {status, "ARCHIVED"} /\ removal' \in {"NONE", "RECENT", "OLD"}
    BY <1>9 DEF DeleteGame, RestoreGame, ThirtyDaysPass
  <2> QED
    BY <2>1, QueueStays
       DEF QueueInv, TypeOK, seatVars, resultVars, faultVars
<1>10. CASE Purge
  <2>1. /\ UNCHANGED <<removal, dice, instanceVars, call, faultVars, finish>>
        /\ status' = "GONE" /\ players' = {} /\ snapshot' = None
        /\ members' = [u \in Users |-> None]
        /\ controllers' = [s \in Seats |-> None]
        /\ completions' = [u \in Users |-> None]
    BY <1>10 DEF Purge
  <2> QED
    BY <2>1, QueueStays DEF QueueInv, TypeOK, faultVars
<1>11. CASE StepFails
  <2>1. /\ work # Idle /\ failures < MaxFailures /\ failures' = failures + 1
        /\ Answer(work.call, "FAILED") /\ Abandon
        /\ UNCHANGED <<d1Vars, dice, rolling, finish>>
    BY <1>11 DEF StepFails
  <2>2. work.call \in Calls /\ call[work.call].state = "taken"
    BY <2>1 DEF QueueInv, WorkShape
  <2>3. /\ work' = Idle /\ WorkShape' /\ call' \in [Calls -> CallType]
    BY <1>2, <2>1, <2>2, AnswerFacts
  <2>4. failures' \in 0..MaxFailures
    BY <1>1, <2>1, LobbyAssumption
  <2> QED
    BY <1>1, <1>2, <2>1, <2>3, <2>4, AbandonFacts, TypesStay DEF QueueInv, TypeOK
<1>12. CASE Crash
  <2>1. /\ failures < MaxFailures /\ failures' = failures + 1
        /\ work' = Idle /\ rolling' = None /\ Abandon
        /\ UNCHANGED <<d1Vars, dice, finish>>
        /\ call' = [k \in Calls |->
                      IF call[k].state = "taken"
                      THEN [call[k] EXCEPT !.state = "answered", !.code = "LOST"]
                      ELSE call[k]]
    BY <1>12 DEF Crash
  <2>2. call' \in [Calls -> CallType]
    <3>1. ASSUME NEW k \in Calls PROVE call'[k] \in CallType
      <4>1. call'[k] = IF call[k].state = "taken"
                       THEN [call[k] EXCEPT !.state = "answered", !.code = "LOST"]
                       ELSE call[k]
        BY <2>1
      <4>2. call[k] \in CallType /\ "LOST" \in Codes
        BY <1>1, <1>2
      <4> QED BY <4>1, <4>2
    <3> HIDE DEF CallType
    <3> QED BY <2>1, <3>1
  <2>3. WorkShape'
    <3>1. \A j \in Calls : call'[j].state # "free" => call'[j].cmd \in Commands
      BY <1>1, <2>1 DEF QueueInv, WorkShape
    <3> QED BY <2>1, <3>1 DEF WorkShape, Idle
  <2>4. failures' \in 0..MaxFailures
    <3>1. failures \in 0..MaxFailures /\ MaxFailures \in Nat
      BY <1>1, LobbyAssumption
    <3>2. failures < MaxFailures /\ failures' = failures + 1
      BY <2>1
    <3> QED BY <3>1, <3>2
  <2> QED
    BY <1>1, <1>2, <2>1, <2>2, <2>3, <2>4, AbandonFacts, TypesStay DEF QueueInv, TypeOK
<1>13. ASSUME NEW w \in late, LateWriteArrives(w)
       PROVE  QueueInv'
  <2>1. /\ Apply(w) /\ w \in Writes /\ late' \subseteq Writes
        /\ UNCHANGED <<dice, instanceVars, call, failures>>
    BY <1>1, <1>13 DEF LateWriteArrives
  <2> QED BY <1>1, <2>1, QueueStays, ApplyTypes DEF QueueInv, TypeOK
<1>14. CASE UNCHANGED vars
  BY <1>1, <1>3, <1>14, QueueStays DEF vars
<1> QED
  BY <1>4, <1>5, <1>6, <1>7, <1>8, <1>9, <1>10, <1>11, <1>12, <1>13, <1>14
     DEF Next

\* The queue and its one holder are so in every reachable state.
LEMMA QueueInvHolds == Spec => []QueueInv
<1>1. Init => QueueInv
  <2> SUFFICES ASSUME Init PROVE QueueInv
    OBVIOUS
  <2>1. TypeOK
    BY LobbyAssumption
       DEF Init, TypeOK, Idle, Stages, Free, Seats
  <2>2. WorkShape
    BY DEF Init, WorkShape, Idle, Free
  <2> QED BY <2>1, <2>2 DEF QueueInv
<1>2. QueueInv /\ [Next]_vars => QueueInv'
  BY QueueInvStep
<1> QED BY <1>1, <1>2, PTL DEF Spec

-----------------------------------------------------------------------------
(* What a step may do to the rows *)

\* Rows change when a write lands, under way or late, when the game is deleted,
\* restored or forgotten, and when it is purged.
LEMMA RowStep ==
    ASSUME QueueInv, [Next]_vars
    PROVE  \/ UNCHANGED d1Vars
           \/ \E w \in Writes : /\ Apply(w)
                                /\ w \in late \/ (work # Idle /\ w = work.write)
           \/ /\ status # "GONE" /\ status' = "ARCHIVED"
              /\ UNCHANGED <<seatVars, resultVars>>
           \/ UNCHANGED <<status, seatVars, resultVars>>
           \/ Purge
<1>1. CASE QueueStep
  BY <1>1, QueueStepFacts
<1>2. CASE \E w \in late : LateWriteArrives(w)
  BY <1>2 DEF LateWriteArrives, QueueInv, TypeOK
<1>3. CASE DeleteGame \/ RestoreGame \/ ThirtyDaysPass \/ Purge
  BY <1>3 DEF DeleteGame, RestoreGame, ThirtyDaysPass, Readable
<1>4. CASE \/ \E k \in Calls, c \in Commands : Send(k, c)
           \/ \E k \in Calls : Hear(k)
           \/ \E k \in Calls : Take(k)
           \/ \E s \in Seats : Roll(s)
  BY <1>4 DEF Send, Hear, Take, Roll
<1>5. CASE StepFails \/ Crash
  BY <1>5 DEF StepFails, Crash
<1>6. CASE UNCHANGED vars
  BY <1>6 DEF vars
<1> QED BY <1>1, <1>2, <1>3, <1>4, <1>5, <1>6 DEF Next

\* A finished or deleted game is never played again, whoever had read the lobby
\* or the active game before (transitionStatus, softDelete).
THEOREM GamesFinishForGood == Spec => FinishedForGood
<1>1. QueueInv /\ [Next]_vars
        => /\ status \in {"ARCHIVED", "GONE"} => status' \in {"ARCHIVED", "GONE"}
           /\ status = "ACTIVE" => status' # "LOBBY"
  <2> SUFFICES ASSUME QueueInv, [Next]_vars
               PROVE  /\ status \in {"ARCHIVED", "GONE"} => status' \in {"ARCHIVED", "GONE"}
                      /\ status = "ACTIVE" => status' # "LOBBY"
    OBVIOUS
  <2>1. ASSUME NEW w \in Writes, Apply(w)
        PROVE  \/ UNCHANGED status
               \/ status = "LOBBY" /\ status' = "ACTIVE"
               \/ status = "ACTIVE" /\ status' = "ARCHIVED"
    BY <2>1, ApplyCases DEF d1Vars, gameVars
  <2>2. CASE Purge
    BY <2>2 DEF Purge
  <2> QED BY <2>1, <2>2, RowStep DEF d1Vars, gameVars
<1> QED BY <1>1, QueueInvHolds, PTL DEF Spec, FinishedForGood

\* Whoever is at the table when it leaves the lobby stays until the purge, however
\* late a join or a removal lands (the guards of joinLobby, removeLobbyPlayer).
THEOREM RosterFrozen == Spec => RosterIsFrozen
<1>1. QueueInv /\ [Next]_vars
        => (status \in {"ACTIVE", "ARCHIVED"} /\ status' # "GONE" => UNCHANGED seatVars)
  <2> SUFFICES ASSUME QueueInv, [Next]_vars,
                      status \in {"ACTIVE", "ARCHIVED"}, status' # "GONE"
               PROVE  UNCHANGED seatVars
    OBVIOUS
  <2>1. ASSUME NEW w \in Writes, Apply(w)
        PROVE  UNCHANGED seatVars
    BY <2>1, ApplyCases DEF d1Vars
  <2>2. ~Purge
    BY DEF Purge
  <2> QED BY <2>1, <2>2, RowStep DEF d1Vars
<1> QED BY <1>1, QueueInvHolds, PTL DEF Spec, RosterIsFrozen

-----------------------------------------------------------------------------
(* Players, members and controllers *)

\* A join that has not written yet.
Joining(k) == call[k].state \in {"sent", "taken"} /\ call[k].cmd.kind = "JOIN"

\* The seat a join brings is nobody's until the join lands, and at most one
\* write for it is on its way.
SeatsAreFresh ==
    /\ \A k \in Calls : Joining(k)
          => k \notin players /\ \A w \in late : w.kind = "seat" => w.seat # k
    /\ \A w \in late : w.kind = "seat" => w.seat \notin players
    /\ \A v, w \in late : v.kind = "seat" /\ w.kind = "seat" /\ v.seat = w.seat
                          => v = w

\* The inductive invariant of the table.
TableInv == IsFiniteSet(players) /\ SeatsAgree /\ SeatsAreFresh

\* The join in the slot brings the seat of its call.
LEMMA SeatWriter ==
    ASSUME QueueInv, work # Idle, work.write \in Writes, work.write.kind = "seat"
    PROVE  work.write.seat = work.call /\ work.call \in Calls /\ Joining(work.call)
<1>1. work.stage \in Stages /\ work.stage # "idle"
  BY DEF QueueInv, TypeOK, WorkShape
<1>2. work.write # None /\ work.write # Close
  BY NoneAssumption DEF Close
<1>3. work.stage = "writing"
  BY <1>1, <1>2 DEF QueueInv, WorkShape, Stages
<1>4. /\ work.call \in Calls /\ call[work.call].state = "taken"
      /\ Running \in Commands /\ work.write = FirstWrite(work.call, Running)
  BY <1>1, <1>3, RunningFacts
<1>5. CASE Running.kind = "JOIN"
  <2>1. work.write = Seat(Running.user, work.call)
    BY <1>4, <1>5, CommandKinds
  <2> QED BY <1>4, <1>5, <2>1 DEF Seat, Joining, Running
<1>6. CASE Running.kind # "JOIN"
  BY <1>4, <1>6, CommandKinds DEF Snap
<1> QED BY <1>5, <1>6

\* A batch keeps the three tables in agreement and the table within its limit.
LEMMA ApplyKeepsTable ==
    ASSUME TypeOK, IsFiniteSet(players), SeatsAgree, NEW w \in Writes, Apply(w),
           w.kind = "seat" => w.seat \notin players
    PROVE  /\ IsFiniteSet(players') /\ SeatsAgree'
           /\ w.kind = "seat" => players' \subseteq players \cup {w.seat}
           /\ w.kind # "seat" => players' \subseteq players
<1>1. CASE UNCHANGED seatVars /\ (status' = "GONE" <=> status = "GONE")
  BY <1>1 DEF seatVars, SeatsAgree
<1>2. CASE /\ w.kind = "seat" /\ status = "LOBBY" /\ members[w.user] = None
           /\ Cardinality(players) < MaxLobbyPlayers
           /\ TakeSeat(w) /\ UNCHANGED status
  <2> DEFINE u == w.user
             s == w.seat
  <2>1. /\ u \in Users /\ s \in Seats /\ s \notin players /\ s # None /\ u # None
        /\ members \in [Users -> Seats \cup {None}]
        /\ controllers \in [Seats -> Users \cup {None}]
    BY <1>2, WriteKinds, NoneAssumption DEF TypeOK, Seats
  <2>2. /\ players' = players \cup {s}
        /\ members' = [members EXCEPT ![u] = s]
        /\ controllers' = [controllers EXCEPT ![s] = u]
    BY <1>2 DEF TakeSeat
  <2>3. IsFiniteSet(players') /\ Cardinality(players') = Cardinality(players) + 1
    BY <2>1, <2>2, FS_AddElement
  <2>4. Cardinality(players') <= MaxLobbyPlayers
    BY <1>2, <2>3, LobbyAssumption, FS_CardinalityType
  <2>5. controllers[s] = None
    BY <2>1 DEF SeatsAgree
  <2>6. \A v \in Users : members'[v] # None =>
            members'[v] \in players' /\ controllers'[members'[v]] = v
    <3> SUFFICES ASSUME NEW v \in Users, members'[v] # None
                 PROVE  members'[v] \in players' /\ controllers'[members'[v]] = v
      OBVIOUS
    <3>1. CASE v = u
      BY <2>1, <2>2, <3>1
    <3>2. CASE v # u
      <4>1. members'[v] = members[v] /\ members[v] \in players /\ controllers[members[v]] = v
        BY <2>1, <2>2, <3>2 DEF SeatsAgree
      <4>2. members[v] # s /\ members[v] \in Seats
        BY <2>1, <4>1 DEF TypeOK
      <4> QED BY <2>1, <2>2, <4>1, <4>2
    <3> QED BY <3>1, <3>2
  <2>7. \A t \in Seats : controllers'[t] # None => members'[controllers'[t]] = t
    <3> SUFFICES ASSUME NEW t \in Seats, controllers'[t] # None
                 PROVE  members'[controllers'[t]] = t
      OBVIOUS
    <3>1. CASE t = s
      BY <2>1, <2>2, <3>1
    <3>2. CASE t # s
      <4>1. controllers'[t] = controllers[t] /\ members[controllers[t]] = t
        BY <2>1, <2>2, <3>2 DEF SeatsAgree
      <4>2. controllers[t] \in Users /\ controllers[t] # u
        BY <1>2, <2>1, <2>2, <4>1, NoneAssumption
      <4> QED BY <2>1, <2>2, <4>1, <4>2
    <3> QED BY <3>1, <3>2
  <2>8. status' # "GONE" => members'[Owner] = OwnerSeat
    <3>1. Owner # u
      BY <1>2, NoneAssumption DEF SeatsAgree, Seats
    <3> QED BY <1>2, <2>1, <2>2, <3>1, LobbyAssumption DEF SeatsAgree
  <2> QED BY <1>2, <2>2, <2>3, <2>4, <2>6, <2>7, <2>8 DEF SeatsAgree
<1>3. CASE /\ w.kind = "unseat" /\ w.seat \in players /\ w.seat # members[Owner]
           /\ LeaveSeat(w) /\ UNCHANGED status
  <2> DEFINE s == w.seat
  <2>1. /\ s \in Seats /\ s # None
        /\ members \in [Users -> Seats \cup {None}]
        /\ controllers \in [Seats -> Users \cup {None}]
    BY <1>3, NoneAssumption DEF TypeOK
  <2>2. /\ players' = players \ {s}
        /\ members' = [u \in Users |-> IF members[u] = s THEN None ELSE members[u]]
        /\ controllers' = [controllers EXCEPT ![s] = None]
    BY <1>3 DEF LeaveSeat
  <2>3. /\ IsFiniteSet(players') /\ Cardinality(players') <= Cardinality(players)
        /\ Cardinality(players) \in Nat /\ Cardinality(players') \in Nat
    BY <2>2, FS_Subset, FS_CardinalityType
  <2>4. Cardinality(players') <= MaxLobbyPlayers
    BY <2>3, LobbyAssumption DEF SeatsAgree
  <2>5. \A v \in Users : members'[v] # None =>
            members'[v] \in players' /\ controllers'[members'[v]] = v
    BY <2>1, <2>2 DEF SeatsAgree
  <2>6. \A t \in Seats : controllers'[t] # None => members'[controllers'[t]] = t
    BY <2>1, <2>2 DEF SeatsAgree
  <2>7. status' # "GONE" => members'[Owner] = OwnerSeat
    BY <1>3, <2>1, <2>2, LobbyAssumption DEF SeatsAgree
  <2> QED BY <1>3, <2>2, <2>3, <2>4, <2>5, <2>6, <2>7 DEF SeatsAgree
<1>4. CASE UNCHANGED seatVars
           /\ (status' \in {"ACTIVE", "ARCHIVED"} /\ status # "GONE")
  BY <1>4 DEF seatVars, SeatsAgree
<1> QED
  BY <1>1, <1>2, <1>3, <1>4, ApplyCases DEF d1Vars, gameVars, seatVars

\* A step that adds no seat, no late write and no JOIN_LOBBY to the queue leaves the
\* seats on their way fresh.
LEMMA FreshFrame ==
    ASSUME SeatsAreFresh, players' \subseteq players, late' \subseteq late,
           \A k \in Calls : Joining(k)' => Joining(k)
    PROVE  SeatsAreFresh'
BY DEF SeatsAreFresh

\* Every step keeps the seats, the controllers and the members of one game in
\* agreement, the seat of a JOIN_LOBBY on its way included.
LEMMA TableStep ==
    ASSUME QueueInv, TableInv, [Next]_vars
    PROVE  TableInv'
<1> USE DEF TableInv
<1>1. call \in [Calls -> [state : {"free", "sent", "taken", "answered"},
                          cmd : Commands \cup {None}, code : Codes \cup {None}]]
      /\ late \subseteq Writes
  BY DEF QueueInv, TypeOK
<1>2. IsFiniteSet(players') /\ SeatsAgree'
  <2>1. CASE UNCHANGED <<seatVars, status>>
    BY <2>1 DEF seatVars, SeatsAgree
  <2>2. ASSUME NEW w \in Writes, Apply(w), w \in late \/ (work # Idle /\ w = work.write)
        PROVE  IsFiniteSet(players') /\ SeatsAgree'
    <3>1. w.kind = "seat" => w.seat \notin players
      BY <2>2, SeatWriter DEF SeatsAreFresh
    <3> QED BY <2>2, <3>1, ApplyKeepsTable DEF QueueInv
  <2>3. CASE status # "GONE" /\ status' = "ARCHIVED" /\ UNCHANGED seatVars
    BY <2>3 DEF seatVars, SeatsAgree
  <2>4. CASE Purge
    <3>1. /\ status' = "GONE" /\ players' = {}
          /\ members' = [u \in Users |-> None]
          /\ controllers' = [s \in Seats |-> None]
      BY <2>4 DEF Purge
    <3>2. IsFiniteSet({}) /\ Cardinality({}) = 0
      BY FS_EmptySet
    <3> QED BY <3>1, <3>2, LobbyAssumption DEF SeatsAgree
  <2> QED BY <2>1, <2>2, <2>3, <2>4, RowStep DEF d1Vars, gameVars, seatVars
<1>3. SeatsAreFresh'
  <2>1. ASSUME NEW k \in Calls, NEW c \in Commands, Send(k, c)
        PROVE  SeatsAreFresh'
    <3>1. call' = [call EXCEPT ![k] = Sent(c)] /\ UNCHANGED <<players, late>>
      BY <2>1 DEF Send, d1Vars, seatVars, faultVars
    <3>2. \A j \in Calls \ {k} : Joining(j)' => Joining(j)
      BY <1>1, <3>1 DEF Joining
    <3>3. Joining(k)' => FreshSeat(k)
      BY <1>1, <2>1, <3>1 DEF Joining, Send, Sent
    <3> QED BY <3>1, <3>2, <3>3 DEF SeatsAreFresh, FreshSeat
  <2>2. ASSUME NEW k \in Calls, Hear(k)
        PROVE  SeatsAreFresh'
    <3>1. call' = [call EXCEPT ![k] = Free] /\ UNCHANGED <<players, late>>
      BY <2>2 DEF Hear, d1Vars, seatVars, faultVars
    <3>2. \A j \in Calls : Joining(j)' => Joining(j)
      BY <1>1, <3>1 DEF Joining, Free
    <3> QED BY <3>1, <3>2, FreshFrame
  <2>3. ASSUME NEW k \in Calls, Take(k)
        PROVE  SeatsAreFresh'
    <3>1. /\ UNCHANGED <<players, late>> /\ call[k].state = "sent"
          /\ \/ call' = [call EXCEPT ![k].state = "taken"]
             \/ \E code : call' = [call EXCEPT ![k].state = "answered", ![k].code = code]
      BY <2>3 DEF Take, Answer, d1Vars, seatVars, faultVars
    <3>2. \A j \in Calls : Joining(j)' => Joining(j)
      BY <1>1, <3>1 DEF Joining
    <3> QED BY <3>1, <3>2, FreshFrame
  <2>4. CASE QueueStep
    <3>1. /\ UNCHANGED late
          /\ \/ UNCHANGED players
             \/ work # Idle /\ work.write \in Writes /\ Apply(work.write)
      BY <2>4, QueueStepFacts DEF faultVars, d1Vars, seatVars
    <3>2. \A j \in Calls : Joining(j)' => Joining(j)
      <4>1. CASE UNCHANGED call
        BY <4>1 DEF Joining
      <4>2. ASSUME NEW code \in Codes, work # Idle, Answer(work.call, code)
            PROVE  \A j \in Calls : Joining(j)' => Joining(j)
        <5>1. work.call \in Calls /\ call[work.call].state # "free"
          BY <4>2 DEF QueueInv, WorkShape
        <5> QED BY <4>2, <5>1, AnswerFacts DEF Joining
      <4>3. CASE StoreRoll
        BY <4>1, <4>3 DEF StoreRoll
      <4> QED BY <2>4, <4>1, <4>2, <4>3, QueueStepFacts
    <3>3. CASE UNCHANGED players
      BY <3>1, <3>2, <3>3, FreshFrame
    <3>4. CASE work # Idle /\ work.write \in Writes /\ Apply(work.write)
      <4>1. CASE work.write.kind # "seat"
        <5>1. work.write.kind = "seat" => work.write.seat \notin players
          BY <4>1
        <5>2. players' \subseteq players
          BY <3>4, <4>1, <5>1, ApplyKeepsTable DEF QueueInv
        <5> QED BY <3>1, <3>2, <5>2, FreshFrame
      <4>2. CASE work.write.kind = "seat"
        <5>1. /\ work.write.seat = work.call /\ work.call \in Calls
              /\ Joining(work.call) /\ work.call \notin players
          BY <3>4, <4>2, SeatWriter DEF SeatsAreFresh
        <5>2. players' \subseteq players \cup {work.call}
          BY <3>4, <4>2, <5>1, ApplyKeepsTable DEF QueueInv
        <5>3. \A j \in Calls : j = work.call => ~Joining(j)'
          <6>1. work.stage = "writing" /\ Running.kind = "JOIN"
            <7>1. work.stage \in Stages /\ work.stage # "idle"
              BY <3>4 DEF QueueInv, TypeOK, WorkShape
            <7>2. work.write # None /\ work.write # Close
              BY <3>4, <4>2, NoneAssumption DEF Close
            <7> QED
              BY <4>2, <5>1, <7>1, <7>2 DEF QueueInv, WorkShape, Stages, Joining, Running
          <6>2. \E code \in Codes : Answer(work.call, code)
            BY <2>4, <3>4, <6>1
               DEF QueueStep, CommitCommand, CommitSnapshot, ReadForClose, CommitClose,
                   ReadForRecord, CommitRecord, ClearDice, StoreRoll, Codes,
                   QueueInv, TypeOK
          <6>3. call[work.call].state # "free"
            BY <5>1 DEF Joining
          <6> QED BY <5>1, <6>2, <6>3, AnswerFacts DEF Joining
        <5> QED BY <3>1, <3>2, <5>1, <5>2, <5>3 DEF SeatsAreFresh
      <4> QED BY <4>1, <4>2
    <3> QED BY <3>1, <3>3, <3>4
  <2>5. ASSUME Abandon, UNCHANGED players,
               \A j \in Calls : Joining(j)' => Joining(j),
               \A j \in Calls : work # Idle /\ j = work.call => ~Joining(j)'
        PROVE  SeatsAreFresh'
    <3>1. CASE UNCHANGED late
      BY <2>5, <3>1, FreshFrame
    <3>2. CASE work.write # None /\ late' = late \cup {work.write}
      <4>1. work # Idle /\ work.write \in Writes
        BY <3>2 DEF Idle, QueueInv, TypeOK
      <4>2. CASE work.write.kind # "seat"
        BY <2>5, <3>2, <4>2 DEF SeatsAreFresh
      <4>3. CASE work.write.kind = "seat"
        <5>1. /\ work.write.seat = work.call /\ Joining(work.call)
              /\ work.call \in Calls
              /\ \A j \in Calls : j = work.call => ~Joining(j)'
          BY <2>5, <4>1, <4>3, SeatWriter
        <5>2. /\ work.call \notin players
              /\ \A w \in late : w.kind = "seat" => w.seat # work.call
          BY <5>1 DEF SeatsAreFresh
        <5> QED BY <2>5, <3>2, <5>1, <5>2 DEF SeatsAreFresh
      <4> QED BY <4>2, <4>3
    <3> QED BY <2>5, <3>1, <3>2 DEF Abandon
  <2>6. CASE StepFails
    <3>1. /\ work # Idle /\ Answer(work.call, "FAILED") /\ Abandon
          /\ UNCHANGED players
      BY <2>6 DEF StepFails, d1Vars, seatVars
    <3>2. work.call \in Calls /\ call[work.call].state = "taken" /\ "FAILED" \in Codes
      BY <3>1 DEF QueueInv, WorkShape, Codes
    <3>3. \A j \in Calls : /\ Joining(j)' => Joining(j)
                           /\ j = work.call => ~Joining(j)'
      BY <3>1, <3>2, AnswerFacts DEF Joining
    <3> QED BY <2>5, <3>1, <3>2, <3>3
  <2>7. CASE Crash
    <3>1. /\ Abandon /\ UNCHANGED players
          /\ call' = [k \in Calls |->
                        IF call[k].state = "taken"
                        THEN [call[k] EXCEPT !.state = "answered", !.code = "LOST"]
                        ELSE call[k]]
      BY <2>7 DEF Crash, d1Vars, seatVars
    <3>2. \A j \in Calls : /\ Joining(j)' => Joining(j)
                           /\ call[j].state = "taken" => ~Joining(j)'
      BY <1>1, <3>1 DEF Joining
    <3>3. work # Idle => work.call \in Calls /\ call[work.call].state = "taken"
      BY DEF QueueInv, WorkShape
    <3> QED BY <2>5, <3>1, <3>2, <3>3
  <2>8. ASSUME NEW w \in late, LateWriteArrives(w)
        PROVE  SeatsAreFresh'
    <3>1. /\ w \in Writes /\ Apply(w) /\ late' = late \ {w} /\ UNCHANGED call
      BY <1>1, <2>8 DEF LateWriteArrives
    <3>2. w.kind = "seat" => w.seat \notin players
      BY DEF SeatsAreFresh
    <3>3. \A j \in Calls : Joining(j)' => Joining(j)
      BY <3>1 DEF Joining
    <3>4. CASE w.kind # "seat"
      <4>1. players' \subseteq players
        BY <3>1, <3>2, <3>4, ApplyKeepsTable DEF QueueInv
      <4> QED BY <3>1, <3>3, <4>1, FreshFrame
    <3>5. CASE w.kind = "seat"
      <4>1. players' \subseteq players \cup {w.seat}
        BY <3>1, <3>2, <3>5, ApplyKeepsTable DEF QueueInv
      <4>2. \A j \in Calls : Joining(j)' => j # w.seat
        BY <3>3, <3>5 DEF SeatsAreFresh
      <4>3. \A v \in late' : v.kind = "seat" => v.seat # w.seat
        BY <3>1, <3>5 DEF SeatsAreFresh
      <4> QED BY <3>1, <3>3, <4>1, <4>2, <4>3 DEF SeatsAreFresh
    <3> QED BY <3>4, <3>5
  <2>9. ASSUME UNCHANGED <<late, call>>, players' \subseteq players
        PROVE  SeatsAreFresh'
    BY <2>9, FreshFrame DEF Joining
  <2>10. CASE DeleteGame \/ RestoreGame \/ ThirtyDaysPass \/ Purge
              \/ (\E s \in Seats : Roll(s)) \/ UNCHANGED vars
    BY <2>9, <2>10 DEF DeleteGame, RestoreGame, ThirtyDaysPass, Purge, Roll, vars,
                       seatVars, d1Vars, faultVars
  <2> QED
    BY <2>1, <2>2, <2>3, <2>4, <2>6, <2>7, <2>8, <2>10 DEF Next
<1> QED BY <1>2, <1>3

\* The two tables of seats agree in every reachable state.
LEMMA TableInvHolds == Spec => []TableInv
<1>1. Init => TableInv
  <2> SUFFICES ASSUME Init PROVE TableInv
    OBVIOUS
  <2>1. IsFiniteSet({OwnerSeat, LocalSeat}) /\ Cardinality({OwnerSeat, LocalSeat}) <= 2
    <3>1. /\ IsFiniteSet({OwnerSeat}) /\ Cardinality({OwnerSeat}) = 1
          /\ IsFiniteSet({OwnerSeat} \cup {LocalSeat})
          /\ Cardinality({OwnerSeat} \cup {LocalSeat})
               = Cardinality({OwnerSeat}) + 1
      BY FS_Singleton, FS_AddElement, LobbyAssumption
    <3> QED BY <3>1
  <2>2. IsFiniteSet({OwnerSeat}) /\ Cardinality({OwnerSeat}) = 1
    BY FS_Singleton
  <2>3. IsFiniteSet(players) /\ Cardinality(players) <= MaxLobbyPlayers
    <3>1. \A n \in Nat : n <= 2 => n <= MaxLobbyPlayers
      BY LobbyAssumption
    <3>2. Cardinality({OwnerSeat, LocalSeat}) \in Nat
      BY <2>1, FS_CardinalityType
    <3> QED BY <2>1, <2>2, <3>1, <3>2 DEF Init
  <2>4. SeatsAgree
    BY <2>3, LobbyAssumption, NoneAssumption DEF Init, SeatsAgree, Seats
  <2>5. SeatsAreFresh
    BY DEF Init, SeatsAreFresh, Joining, Free
  <2> QED BY <2>3, <2>4, <2>5 DEF TableInv
<1>2. QueueInv /\ TableInv /\ [Next]_vars => TableInv'
  BY TableStep
<1> QED BY <1>1, <1>2, QueueInvHolds, PTL DEF Spec

\* Every variable keeps its shape and the queue's slot has one holder.
THEOREM LobbyTypes == Spec => []TypeOK
<1>1. QueueInv => TypeOK
  BY DEF QueueInv
<1> QED BY <1>1, QueueInvHolds, PTL

\* players, game_members and player_controllers agree and the table keeps its
\* limit, whoever joins, leaves, starts, deletes or crashes in between
\* (joinLobby, removeLobbyPlayer).
THEOREM SeatsAlwaysAgree == Spec => []SeatsAgree
<1>1. TableInv => SeatsAgree
  BY DEF TableInv
<1> QED BY <1>1, TableInvHolds, PTL

-----------------------------------------------------------------------------
(* The record of a finished game *)

\* The result of a game that was finished with winners W is stored.
Recorded(W) ==
    /\ snapshot # None
    /\ \A u \in Users : members[u] # None => completions[u] = (members[u] \in W)

\* What is stored so far says that W won.
Agrees(W) ==
    \A u \in Users : members[u] # None /\ completions[u] # None
                     => completions[u] = (members[u] \in W)

FinishedOk(k) ==
    call[k].cmd \in {Finish({s}) : s \in Seats} /\ call[k].code = "OK"

\* Only the FINISH_GAME that closed the game records results, and it records
\* them from an empty table.
RecorderHolds ==
    /\ work.stage \in {"snapped", "closed", "recorded"}
          => snapshot # None \/ status = "GONE"
    /\ work.stage \in {"closed", "recorded"} =>
          /\ finish = "CLOSED"
          /\ \A w \in late : w.kind # "record"
          /\ status # "GONE" => Agrees(Running.winners)
    /\ work.stage = "recorded" /\ status # "GONE" =>
          IF work.write = None THEN Recorded(Running.winners)
          ELSE LET u == work.write.user
               IN members[u] # None
                  /\ work.write.won = (members[u] \in Running.winners)

\* Results are stored only once the game was closed, and an answer OK says that
\* all of them are.
ResultInv ==
    /\ finish # "NONE" => status \in {"ARCHIVED", "GONE"}
    /\ finish = "NONE" => /\ \A u \in Users : completions[u] = None
                          /\ \A w \in late : w.kind # "record"
    /\ finish = "CLEARED" => rolling = None /\ dice = {}
    /\ \A k \in Calls : FinishedOk(k)
          => finish = "CLEARED" /\ (status # "GONE" => Recorded(call[k].cmd.winners))

\* The inductive invariant of the finish.
FinishInv == ResultInv /\ RecorderHolds

\* Who was told that a game is finished was told so before.
NoNewFinish ==
    \A k \in Calls : FinishedOk(k)' => FinishedOk(k) /\ call'[k].cmd = call[k].cmd

\* The slot is given up, given to a command that has not written, or kept.
SlotKept ==
    \/ work'.stage \in {"idle", "writing"}
    \/ UNCHANGED work /\ UNCHANGED Running

\* A step that stores no result.
LEMMA QuietFinish ==
    ASSUME QueueInv, FinishInv, NoNewFinish, SlotKept,
           UNCHANGED <<members, resultVars, finish>>,
           status' = status \/ (status # "GONE" /\ status' = "ARCHIVED"),
           finish = "CLEARED" => dice' = {} /\ rolling' = None,
           \/ late' \subseteq late
           \/ work'.stage = "idle" /\ late' = late \cup {work.write}
              /\ work.write \in Writes
    PROVE  FinishInv'
<1>1. \A W : Recorded(W)' = Recorded(W) /\ Agrees(W)' = Agrees(W)
  BY DEF Recorded, Agrees, resultVars
<1>2. finish' # "NONE" => status' \in {"ARCHIVED", "GONE"}
  BY DEF FinishInv, ResultInv
<1>3. finish' = "NONE" => /\ \A u \in Users : completions'[u] = None
                          /\ \A w \in late' : w.kind # "record"
  <2>1. finish = "NONE" /\ work.write \in Writes => work.write.kind # "record"
    <3> SUFFICES ASSUME finish = "NONE", work.write \in Writes,
                        work.write.kind = "record"
                 PROVE  FALSE
      OBVIOUS
    <3>1. work.stage \notin {"closed", "recorded"} /\ work.stage \in Stages
      BY DEF FinishInv, ResultInv, RecorderHolds, QueueInv, TypeOK
    <3>2. work.write # None /\ work.write # Close
      BY NoneAssumption DEF Close
    <3>3. work.stage = "writing"
      BY <3>1, <3>2 DEF Stages, QueueInv, WorkShape, Idle
    <3> QED
      BY <3>3, RunningFacts, CommandKinds DEF Snap, Seat
  <2> QED BY <2>1 DEF FinishInv, ResultInv, resultVars
<1>4. \A k \in Calls : FinishedOk(k)'
          => finish' = "CLEARED" /\ (status' # "GONE" => Recorded(call[k].cmd.winners)')
  <2> SUFFICES ASSUME NEW k \in Calls, FinishedOk(k)'
               PROVE  finish' = "CLEARED" /\ (status' # "GONE" => Recorded(call[k].cmd.winners)')
    OBVIOUS
  <2>1. FinishedOk(k) /\ call'[k].cmd = call[k].cmd
    BY DEF NoNewFinish
  <2>2. finish = "CLEARED" /\ (status # "GONE" => Recorded(call[k].cmd.winners))
    BY <2>1 DEF FinishInv, ResultInv
  <2> QED BY <2>1, <2>2 DEF Recorded, resultVars
<1>5. RecorderHolds'
  <2>1. CASE work'.stage \in {"idle", "writing"}
    BY <2>1 DEF RecorderHolds
  <2>2. CASE UNCHANGED work /\ UNCHANGED Running /\ late' \subseteq late
    BY <2>2 DEF FinishInv, ResultInv, RecorderHolds, Recorded, Agrees, resultVars
  <2>3. CASE UNCHANGED work /\ UNCHANGED Running /\ work'.stage = "idle"
    BY <2>1, <2>3
  <2> QED BY <2>1, <2>2, <2>3 DEF SlotKept
<1> QED BY <1>2, <1>3, <1>4, <1>5 DEF FinishInv, ResultInv

\* What a write leaves alone once the game is finished.
LEMMA ApplyKeepsResults ==
    ASSUME QueueInv, NEW w \in Writes, Apply(w)
    PROVE  /\ status \in {"ARCHIVED", "GONE"}
                 => UNCHANGED <<status, finish, members>>
           /\ status' # "GONE" => status # "GONE"
           /\ status = "GONE" => status' = "GONE"
           /\ finish' # finish => /\ finish' = "CLOSED" /\ status' = "ARCHIVED"
                                  /\ status = "ACTIVE" /\ w.kind = "close"
           /\ snapshot # None => snapshot' = snapshot
           /\ \A u \in Users : completions[u] # None => completions'[u] = completions[u]
           /\ w.kind # "record" => completions' = completions
           /\ w.kind = "record" => \A u \in Users \ {w.user} : completions'[u] = completions[u]
           /\ w.kind = "record" => /\ UNCHANGED <<status, members, finish, snapshot>>
                                   /\ status # "GONE" /\ completions[w.user] = None
                                         => completions'[w.user] = w.won
<1>0. completions \in [Users -> BOOLEAN \cup {None}]
  BY DEF QueueInv, TypeOK
<1>1. CASE w.kind = "record"
  <2>1. Lands(w) <=> status # "GONE" /\ completions[w.user] = None
    BY <1>1 DEF Lands
  <2>2. w # Close
    BY <1>1, WriteKinds
  <2>3. CASE ~Lands(w)
    BY <1>0, <1>1, <2>1, <2>3 DEF Apply, d1Vars, gameVars, seatVars, resultVars
  <2>4. CASE Lands(w)
    <3>1. /\ completions' = [completions EXCEPT ![w.user] = w.won]
          /\ UNCHANGED <<gameVars, seatVars, snapshot, finish>>
      BY <1>1, <2>2, <2>4 DEF Apply
    <3> QED BY <1>0, <1>1, <2>1, <2>4, <3>1, WriteKinds DEF gameVars, seatVars
  <2> QED BY <2>3, <2>4
<1>2. CASE w.kind # "record"
  <2>1. CASE UNCHANGED <<d1Vars, finish>>
    BY <1>2, <2>1 DEF d1Vars, gameVars, seatVars, resultVars
  <2>2. CASE ~UNCHANGED <<d1Vars, finish>>
    BY <1>2, <2>2, ApplyCases DEF gameVars, seatVars, resultVars
  <2> QED BY <2>1, <2>2
<1> QED BY <1>1, <1>2

\* A result on its way to D1 means that the game was closed; the recorder at
\* work is the only one that has such a write.
LEMMA RecordsAreOfClosedGames ==
    ASSUME QueueInv, FinishInv, NEW w \in Writes, w.kind = "record",
           w \in late \/ (work # Idle /\ w = work.write)
    PROVE  /\ finish # "NONE" /\ status \in {"ARCHIVED", "GONE"}
           /\ w \in late => work.stage \notin {"closed", "recorded"}
           /\ w \notin late => work.stage = "recorded"
<1>1. CASE w \in late
  BY <1>1 DEF FinishInv, ResultInv, RecorderHolds
<1>2. CASE w \notin late
  <2>1. work # Idle /\ w = work.write /\ w # None /\ w # Close /\ work.stage \in Stages
    BY <1>2, NoneAssumption DEF Close, QueueInv, TypeOK
  <2>2. work.stage # "writing"
    BY <2>1, RunningFacts, CommandKinds DEF Snap, Seat
  <2>3. work.stage = "recorded"
    BY <2>1, <2>2 DEF Stages, QueueInv, WorkShape
  <2> QED BY <1>2, <2>3 DEF FinishInv, ResultInv, RecorderHolds
<1> QED BY <1>1, <1>2

\* Where every linked member is recorded, it stays so.
LEMMA RecordedStays ==
    ASSUME QueueInv, NEW w \in Writes, Apply(w),
           status \in {"ARCHIVED", "GONE"}, NEW W, Recorded(W)
    PROVE  Recorded(W)'
<1>1. /\ UNCHANGED members /\ snapshot' = snapshot
      /\ \A u \in Users : completions[u] # None => completions'[u] = completions[u]
  BY ApplyKeepsResults DEF Recorded
<1>2. \A u \in Users : members[u] # None => completions[u] # None
  <2> SUFFICES ASSUME NEW u \in Users, members[u] # None PROVE completions[u] # None
    OBVIOUS
  <2>1. completions[u] = (members[u] \in W)
    BY DEF Recorded
  <2>2. (members[u] \in W) \in BOOLEAN
    OBVIOUS
  <2> QED BY <2>1, <2>2, NoneAssumption
<1> QED BY <1>1, <1>2 DEF Recorded

\* A write that lands keeps what is said of the results.
LEMMA ApplyResults ==
    ASSUME QueueInv, FinishInv, NEW w \in Writes, Apply(w),
           w \in late \/ (work # Idle /\ w = work.write),
           late' \subseteq late, NoNewFinish, UNCHANGED <<dice, rolling>>
    PROVE  ResultInv'
<1>1. /\ status \in {"ARCHIVED", "GONE"} => UNCHANGED <<status, finish, members>>
      /\ finish' # finish => /\ finish' = "CLOSED" /\ status' = "ARCHIVED"
                             /\ status = "ACTIVE"
      /\ w.kind # "record" => completions' = completions
  BY ApplyKeepsResults
<1>2. finish # "NONE" => status \in {"ARCHIVED", "GONE"}
  BY DEF FinishInv, ResultInv
<1>3. finish' # "NONE" => status' \in {"ARCHIVED", "GONE"}
  BY <1>1, <1>2
<1>4. finish' = "NONE" => /\ \A u \in Users : completions'[u] = None
                          /\ \A v \in late' : v.kind # "record"
  <2> SUFFICES ASSUME finish' = "NONE"
               PROVE  /\ \A u \in Users : completions'[u] = None
                      /\ \A v \in late' : v.kind # "record"
    OBVIOUS
  <2>1. finish = "NONE"
    BY <1>1
  <2>2. w.kind # "record"
    BY <2>1, RecordsAreOfClosedGames
  <2> QED BY <1>1, <2>1, <2>2 DEF FinishInv, ResultInv
<1>5. finish' = "CLEARED" => rolling' = None /\ dice' = {}
  BY <1>1 DEF FinishInv, ResultInv
<1>6. \A k \in Calls : FinishedOk(k)'
          => finish' = "CLEARED" /\ (status' # "GONE" => Recorded(call[k].cmd.winners)')
  <2> SUFFICES ASSUME NEW k \in Calls, FinishedOk(k)'
               PROVE  finish' = "CLEARED" /\ (status' # "GONE" => Recorded(call[k].cmd.winners)')
    OBVIOUS
  <2>1. FinishedOk(k) /\ call'[k].cmd = call[k].cmd
    BY DEF NoNewFinish
  <2>2. finish = "CLEARED" /\ (status # "GONE" => Recorded(call[k].cmd.winners))
    BY <2>1 DEF FinishInv, ResultInv
  <2>3. UNCHANGED <<status, finish>>
    BY <1>1, <1>2, <2>2
  <2>4. status # "GONE" => Recorded(call[k].cmd.winners)'
    <3> DEFINE W == call[k].cmd.winners
    <3>1. W' = W
      BY <2>1
    <3>2. ASSUME status # "GONE" PROVE \A V : V = W => Recorded(V)'
      BY <1>2, <2>2, <3>2, RecordedStays
    <3> QED BY <3>1, <3>2 DEF Recorded
  <2> QED BY <2>2, <2>3, <2>4
<1> QED BY <1>3, <1>4, <1>5, <1>6 DEF ResultInv

\* A write that lands while its issuer is gone, or with which its command ends.
LEMMA ApplyFinish ==
    ASSUME QueueInv, FinishInv, NEW w \in Writes, Apply(w),
           late' \subseteq late, NoNewFinish, UNCHANGED <<dice, rolling>>,
           \/ work # Idle /\ w = work.write /\ work'.stage = "idle"
           \/ w \in late /\ UNCHANGED work /\ UNCHANGED Running
    PROVE  FinishInv'
<1>1. ResultInv'
  BY ApplyResults
<1>2. CASE work'.stage = "idle"
  BY <1>1, <1>2 DEF FinishInv, RecorderHolds
<1>3. CASE w \in late /\ UNCHANGED work /\ UNCHANGED Running
  <2>1. /\ status = "GONE" => status' = "GONE"
        /\ snapshot # None => snapshot' = snapshot
    BY ApplyKeepsResults
  <2>2. work.stage \in {"snapped", "closed", "recorded"}
          => snapshot' # None \/ status' = "GONE"
    BY <2>1 DEF FinishInv, RecorderHolds
  <2>3. work.stage \in {"closed", "recorded"} =>
          /\ w.kind # "record"
          /\ UNCHANGED <<status, finish, members, completions>>
    <3> SUFFICES ASSUME work.stage \in {"closed", "recorded"}
                 PROVE  /\ w.kind # "record"
                        /\ UNCHANGED <<status, finish, members, completions>>
      OBVIOUS
    <3>1. w.kind # "record" /\ status \in {"ARCHIVED", "GONE"}
      BY <1>3 DEF FinishInv, ResultInv, RecorderHolds
    <3> QED BY <3>1, ApplyKeepsResults
  <2>4. RecorderHolds'
    BY <1>3, <2>1, <2>2, <2>3 DEF FinishInv, RecorderHolds, Recorded, Agrees
  <2> QED BY <1>1, <2>4 DEF FinishInv
<1> QED BY <1>2, <1>3

\* A FINISH_GAME goes on to its next stage.
LEMMA RecorderStep ==
    ASSUME QueueInv, FinishInv, UNCHANGED <<faultVars, rolling, dice>>,
           \/ CommitSnapshot /\ ~Breaks(work.write)
           \/ ReadForClose /\ Then("snapped", Close)
           \/ CommitClose /\ Lands(Close)
           \/ ReadForRecord /\ Readable
           \/ CommitRecord /\ ~Breaks(work.write)
    PROVE  FinishInv'
<1>1. /\ work \in [call : Calls \cup {None}, stage : Stages,
                   write : Writes \cup {None}]
      /\ completions \in [Users -> BOOLEAN \cup {None}]
      /\ UNCHANGED late
  BY DEF QueueInv, TypeOK, faultVars
<1>2. ASSUME UNCHANGED call PROVE NoNewFinish
  BY <1>2 DEF NoNewFinish, FinishedOk
<1>3. ASSUME NEW stage, NEW w, Then(stage, w), stage \in Stages, w \in Writes \cup {None}
      PROVE  /\ work'.stage = stage /\ work'.write = w /\ UNCHANGED <<call, Running>>
  BY <1>1, <1>3 DEF Then, Running
<1>4. Close \in Writes /\ {"snapped", "closed", "recorded"} \subseteq Stages /\ Close # None
  BY NoneAssumption DEF Writes, Stages
<1>5. CASE CommitSnapshot /\ ~Breaks(work.write)
  <2>1. /\ work.stage = "writing" /\ Running.kind = "FINISH" /\ Apply(work.write)
        /\ Then("snapped", None)
    BY <1>5 DEF CommitSnapshot
  <2>2. /\ work.write = Snap(Running.winners) /\ work.write \in Writes
    BY <2>1, RunningFacts, CommandKinds
  <2>3. /\ work'.stage = "snapped" /\ work'.write = None /\ UNCHANGED call
    BY <1>3, <1>4, <2>1
  <2>4. ResultInv'
    BY <1>1, <1>2, <2>1, <2>2, <2>3, ApplyResults DEF Idle
  <2>5. snapshot' # None \/ status' = "GONE"
    <3>1. work.write.kind = "snapshot" /\ work.write # Close /\ status # "GONE"
      BY <1>5, <2>2 DEF Snap, Close, Breaks
    <3>2. CASE snapshot # None
      BY <2>1, <2>2, <3>2, ApplyKeepsResults
    <3>3. CASE snapshot = None
      <4>1. snapshot' = work.write.winners
        BY <2>1, <3>1, <3>3 DEF Apply, Lands
      <4>2. work.write.winners \in {{OwnerSeat}, {LocalSeat}}
        BY <2>2, <3>1, WriteKinds
      <4> QED BY <4>1, <4>2, NoneAssumption
    <3> QED BY <3>2, <3>3
  <2> QED BY <2>3, <2>4, <2>5 DEF FinishInv, RecorderHolds
<1>6. CASE ReadForClose /\ Then("snapped", Close)
  <2>1. /\ work.stage = "snapped" /\ UNCHANGED d1Vars /\ UNCHANGED finish
        /\ work'.stage = "snapped" /\ UNCHANGED call
    BY <1>3, <1>4, <1>6 DEF ReadForClose
  <2>2. ResultInv'
    BY <1>1, <2>1 DEF FinishInv, ResultInv, FinishedOk, Recorded, d1Vars, gameVars,
                      seatVars, resultVars
  <2> QED BY <2>1, <2>2 DEF FinishInv, RecorderHolds, d1Vars, gameVars, resultVars
<1>7. CASE CommitClose /\ Lands(Close)
  <2>1. /\ work.stage = "snapped" /\ work.write = Close /\ Apply(Close)
        /\ Then("closed", None)
    BY <1>7 DEF CommitClose
  <2>2. /\ work'.stage = "closed" /\ UNCHANGED call
    BY <1>3, <1>4, <2>1
  <2>3. ResultInv'
    BY <1>1, <1>2, <1>4, <2>1, <2>2, ApplyResults DEF Idle
  <2>4. status = "ACTIVE" /\ Close.kind = "close"
    BY <1>7 DEF Lands, Close
  <2>5. /\ finish = "NONE" /\ finish' = "CLOSED" /\ completions' = completions
        /\ snapshot # None => snapshot' = snapshot
    BY <1>4, <1>7, <2>1, <2>4, ApplyKeepsResults DEF FinishInv, ResultInv, Apply
  <2>6. /\ \A u \in Users : completions'[u] = None
        /\ \A v \in late' : v.kind # "record"
    BY <1>1, <2>5 DEF FinishInv, ResultInv
  <2>7. snapshot' # None
    BY <2>1, <2>4, <2>5 DEF FinishInv, RecorderHolds
  <2> QED BY <2>2, <2>3, <2>5, <2>6, <2>7 DEF FinishInv, RecorderHolds, Agrees
<1>8. CASE ReadForRecord /\ Readable
  <2>1. /\ work.stage = "closed" /\ UNCHANGED d1Vars /\ UNCHANGED finish
        /\ \/ Unrecorded = {} /\ Then("recorded", None)
           \/ \E u \in Unrecorded :
                Then("recorded", Record(u, members[u] \in Running.winners))
    BY <1>8 DEF ReadForRecord
  <2>2. /\ snapshot # None \/ status = "GONE"
        /\ finish = "CLOSED" /\ \A v \in late : v.kind # "record"
        /\ status # "GONE" => Agrees(Running.winners)
    BY <2>1 DEF FinishInv, RecorderHolds
  <2>3. ASSUME UNCHANGED call PROVE ResultInv'
    BY <1>1, <2>1, <2>3 DEF FinishInv, ResultInv, FinishedOk, Recorded, d1Vars,
                            gameVars, seatVars, resultVars
  <2>4. CASE Unrecorded = {} /\ Then("recorded", None)
    <3>1. /\ work'.stage = "recorded" /\ work'.write = None /\ UNCHANGED <<call, Running>>
      BY <1>3, <1>4, <2>4
    <3>2. status # "GONE" => Recorded(Running.winners)
      BY <2>2, <2>4 DEF Agrees, Recorded, Unrecorded
    <3>3. RecorderHolds'
      BY <1>1, <2>1, <2>2, <3>1, <3>2
         DEF RecorderHolds, Recorded, Agrees, d1Vars, gameVars, seatVars, resultVars
    <3> QED BY <2>3, <3>1, <3>3 DEF FinishInv
  <2>5. ASSUME NEW u \in Unrecorded,
               Then("recorded", Record(u, members[u] \in Running.winners))
        PROVE  FinishInv'
    <3> DEFINE won == members[u] \in Running.winners
               w == Record(u, won)
    <3>1. won \in BOOLEAN /\ u \in Users /\ members[u] # None
      BY DEF Unrecorded
    <3> HIDE DEF won
    <3>2. w \in Writes /\ w.user = u /\ w.won = won
      <4>1. w \in Writes
        BY <3>1 DEF Writes
      <4> QED BY <4>1 DEF Record
    <3>3. w # None
      BY <3>2, NoneAssumption
    <3> HIDE DEF w
    <3>4. /\ work'.stage = "recorded" /\ work'.write = w /\ UNCHANGED <<call, Running>>
      BY <1>3, <1>4, <2>5, <3>2 DEF w, won
    <3>5. RecorderHolds'
      BY <1>1, <2>1, <2>2, <3>1, <3>2, <3>3, <3>4
         DEF won, RecorderHolds, Agrees, d1Vars, gameVars, seatVars, resultVars
    <3> QED BY <2>3, <3>4, <3>5 DEF FinishInv
  <2> QED BY <2>1, <2>4, <2>5
<1>9. CASE CommitRecord /\ ~Breaks(work.write)
  <2> DEFINE r == work.write
             p == r.user
             W == Running.winners
             left == Unrecorded \ {p}
  <2>1. /\ work.stage = "recorded" /\ r # None /\ Apply(r)
        /\ \/ left = {} /\ Then("recorded", None)
           \/ \E u \in left :
                Then("recorded", Record(u, members[u] \in W))
    BY <1>9 DEF CommitRecord
  <2>2. /\ r \in Writes /\ r.kind = "record" /\ p \in Users /\ status # "GONE"
    BY <1>9, <2>1, WriteKinds DEF QueueInv, WorkShape, Breaks
  <2>3. /\ snapshot # None /\ finish = "CLOSED" /\ Agrees(W)
        /\ \A v \in late : v.kind # "record"
        /\ members[p] # None /\ r.won = (members[p] \in W)
    BY <2>1, <2>2 DEF FinishInv, RecorderHolds
  <2>4. /\ UNCHANGED <<status, finish, members, snapshot>>
        /\ \A u \in Users \ {p} : completions'[u] = completions[u]
    BY <2>1, <2>2, ApplyKeepsResults
  <2>5. completions'[p] = (members[p] \in W)
    <3>1. CASE completions[p] = None
      BY <2>1, <2>2, <2>3, <3>1, ApplyKeepsResults
    <3>2. CASE completions[p] # None
      <4>1. completions'[p] = completions[p]
        BY <2>1, <2>2, <3>2, ApplyKeepsResults
      <4> QED BY <2>2, <2>3, <3>2, <4>1 DEF Agrees
    <3> QED BY <3>1, <3>2
  <2>6. \A u \in Users : members[u] # None /\ completions'[u] # None
                         => completions'[u] = (members[u] \in W)
    BY <2>3, <2>4, <2>5 DEF Agrees
  <2>7. ASSUME UNCHANGED call PROVE ResultInv'
    BY <1>1, <1>2, <2>1, <2>2, <2>7, ApplyResults DEF Idle
  <2>8. CASE left = {} /\ Then("recorded", None)
    <3>1. /\ work'.stage = "recorded" /\ work'.write = None /\ UNCHANGED <<call, Running>>
      BY <1>3, <1>4, <2>8
    <3>2. \A u \in Users : members[u] # None => completions'[u] = (members[u] \in W)
      <4> SUFFICES ASSUME NEW u \in Users, members[u] # None
                   PROVE  completions'[u] = (members[u] \in W)
        OBVIOUS
      <4>1. CASE u = p
        BY <2>5, <4>1
      <4>2. CASE u # p
        <5>1. completions[u] # None
          BY <2>8, <4>2 DEF Unrecorded
        <5> QED BY <2>4, <2>6, <4>2, <5>1
      <4> QED BY <4>1, <4>2
    <3>3. W' = W
      BY <3>1
    <3> HIDE DEF W
    <3>4. RecorderHolds'
      BY <1>1, <2>3, <2>4, <2>6, <3>1, <3>2, <3>3
         DEF RecorderHolds, Recorded, Agrees, W
    <3> QED BY <2>7, <3>1, <3>4 DEF FinishInv
  <2>9. ASSUME NEW u \in left, Then("recorded", Record(u, members[u] \in W))
        PROVE  FinishInv'
    <3> DEFINE won == members[u] \in W
               w == Record(u, won)
    <3>1. won \in BOOLEAN /\ u \in Users /\ members[u] # None
      BY DEF Unrecorded
    <3> HIDE DEF won
    <3>2. w \in Writes /\ w.user = u /\ w.won = won
      <4>1. w \in Writes
        BY <3>1 DEF Writes
      <4> QED BY <4>1 DEF Record
    <3>3. w # None
      BY <3>2, NoneAssumption
    <3> HIDE DEF w
    <3>4. /\ work'.stage = "recorded" /\ work'.write = w /\ UNCHANGED <<call, Running>>
      BY <1>3, <1>4, <2>9, <3>2 DEF w, won
    <3>5. RecorderHolds'
      BY <1>1, <2>3, <2>4, <2>6, <3>1, <3>2, <3>3, <3>4
         DEF won, RecorderHolds, Agrees
    <3> QED BY <2>7, <3>4, <3>5 DEF FinishInv
  <2> QED BY <2>1, <2>8, <2>9
<1> QED BY <1>5, <1>6, <1>7, <1>8, <1>9

\* Every step keeps what is said of a finished game and of the recorder at work.
LEMMA FinishStep ==
    ASSUME QueueInv, FinishInv, [Next]_vars
    PROVE  FinishInv'
<1>1. /\ call \in [Calls -> [state : {"free", "sent", "taken", "answered"},
                             cmd : Commands \cup {None}, code : Codes \cup {None}]]
      /\ rolling \in Seats \cup {None} /\ late \subseteq Writes
      /\ work \in [call : Calls \cup {None}, stage : Stages,
                   write : Writes \cup {None}]
  BY DEF QueueInv, TypeOK
<1>2. ASSUME UNCHANGED call PROVE NoNewFinish
  BY <1>2 DEF NoNewFinish, FinishedOk
<1>3. ASSUME NEW k \in Calls, NEW code \in Codes, Answer(k, code),
             call[k].state # "free",
             code # "OK" \/ call[k].cmd.kind # "FINISH"
      PROVE  NoNewFinish /\ SlotKept /\ work'.stage = "idle"
  <2>1. /\ work' = Idle /\ call'[k].cmd = call[k].cmd /\ call'[k].code = code
        /\ \A j \in Calls \ {k} : call'[j] = call[j]
    BY <1>3, AnswerFacts
  <2>2. FinishedOk(k)' => code = "OK" /\ call[k].cmd.kind = "FINISH"
    BY <2>1 DEF FinishedOk, Finish
  <2> QED BY <1>3, <2>1, <2>2 DEF NoNewFinish, FinishedOk, SlotKept, Idle
<1>4. ASSUME NEW k \in Calls, NEW c \in Commands, Send(k, c)
      PROVE  FinishInv'
  <2>1. call' = [call EXCEPT ![k] = Sent(c)] /\ call[k] = Free /\ UNCHANGED <<d1Vars, dice, instanceVars, faultVars, finish>>
    BY <1>4 DEF Send
  <2>2. NoNewFinish
    <3>1. ~FinishedOk(k)'
      BY <1>1, <2>1, NoneAssumption DEF FinishedOk, Sent, Codes
    <3> QED BY <1>1, <2>1, <3>1 DEF NoNewFinish, FinishedOk
  <2>3. SlotKept
    <3>1. work.call # k \/ work = Idle
      BY <2>1 DEF QueueInv, WorkShape, Free
    <3> QED BY <1>1, <2>1, <3>1 DEF SlotKept, instanceVars, Running, Idle, QueueInv, WorkShape
  <2> QED
    BY <2>1, <2>2, <2>3, QuietFinish
       DEF FinishInv, ResultInv, d1Vars, gameVars, seatVars, instanceVars, faultVars
<1>5. ASSUME NEW k \in Calls, Hear(k)
      PROVE  FinishInv'
  <2>1. call' = [call EXCEPT ![k] = Free] /\ call[k].state = "answered" /\ UNCHANGED <<d1Vars, dice, instanceVars, faultVars, finish>>
    BY <1>5 DEF Hear
  <2>2. NoNewFinish
    <3>1. ~FinishedOk(k)'
      BY <1>1, <2>1, NoneAssumption DEF FinishedOk, Free, Codes
    <3> QED BY <1>1, <2>1, <3>1 DEF NoNewFinish, FinishedOk
  <2>3. SlotKept
    <3>1. work.call # k \/ work = Idle
      BY <2>1 DEF QueueInv, WorkShape
    <3> QED BY <1>1, <2>1, <3>1 DEF SlotKept, instanceVars, Running, Idle, QueueInv, WorkShape
  <2> QED
    BY <2>1, <2>2, <2>3, QuietFinish
       DEF FinishInv, ResultInv, d1Vars, gameVars, seatVars, instanceVars, faultVars
<1>6. ASSUME NEW k \in Calls, Take(k)
      PROVE  FinishInv'
  <2>1. /\ UNCHANGED <<d1Vars, dice, rolling, faultVars, finish>> /\ call[k].state = "sent"
        /\ \/ Answer(k, "REFUSED")
           \/ call[k].cmd.kind = "JOIN" /\ Answer(k, "OK")
           \/ call' = [call EXCEPT ![k].state = "taken"] /\ work'.stage = "writing"
    BY <1>6 DEF Take
  <2>2. NoNewFinish /\ SlotKept
    <3>1. CASE Answer(k, "REFUSED")
      BY <1>3, <2>1, <3>1 DEF Codes
    <3>2. CASE call[k].cmd.kind = "JOIN" /\ Answer(k, "OK")
      BY <1>3, <2>1, <3>2 DEF Codes
    <3>3. CASE call' = [call EXCEPT ![k].state = "taken"] /\ work'.stage = "writing"
      BY <1>1, <3>3 DEF NoNewFinish, FinishedOk, SlotKept
    <3> QED BY <2>1, <3>1, <3>2, <3>3
  <2> QED
    BY <2>1, <2>2, QuietFinish
       DEF FinishInv, ResultInv, d1Vars, gameVars, seatVars, faultVars
<1>7. ASSUME NEW s \in Seats, Roll(s)
      PROVE  FinishInv'
  <2>1. /\ UNCHANGED <<d1Vars, dice, work, call, faultVars, finish>>
        /\ status = "ACTIVE"
    BY <1>7 DEF Roll
  <2>2. finish # "CLEARED"
    BY <2>1 DEF FinishInv, ResultInv
  <2> QED
    BY <1>2, <2>1, <2>2, QuietFinish
       DEF SlotKept, Running, d1Vars, gameVars, seatVars, faultVars
<1>8. CASE QueueStep
  <2>1. CASE StoreRoll
    <3>1. /\ UNCHANGED <<d1Vars, work, call, faultVars, finish>>
          /\ rolling # None
      BY <2>1 DEF StoreRoll
    <3>2. finish # "CLEARED"
      BY <3>1 DEF FinishInv, ResultInv
    <3> QED
      BY <1>2, <3>1, <3>2, QuietFinish
         DEF SlotKept, Running, d1Vars, gameVars, seatVars, faultVars
  <2>2. CASE ClearDice
    <3>1. /\ work.stage = "recorded" /\ work.write = None /\ dice' = {}
          /\ finish' = "CLEARED" /\ Answer(work.call, "OK")
          /\ UNCHANGED <<d1Vars, rolling, faultVars>>
      BY <2>2 DEF ClearDice
    <3>2. work.call \in Calls /\ call[work.call].state = "taken" /\ "OK" \in Codes
      BY <3>1, RunningFacts DEF Codes
    <3>3. /\ work' = Idle /\ \A j \in Calls \ {work.call} : call'[j] = call[j]
          /\ call'[work.call].cmd = Running
      BY <3>1, <3>2, AnswerFacts DEF Running
    <3>4. /\ finish = "CLOSED" /\ status \in {"ARCHIVED", "GONE"}
          /\ status # "GONE" => Recorded(Running.winners)
          /\ rolling = None
      BY <3>1 DEF FinishInv, ResultInv, RecorderHolds, QueueInv, TypeOK, Idle
    <3>5. \A k \in Calls : FinishedOk(k)'
            => (status' # "GONE" => Recorded(call[k].cmd.winners)')
      <4> SUFFICES ASSUME NEW k \in Calls, FinishedOk(k)', status' # "GONE"
                   PROVE  Recorded(call[k].cmd.winners)'
        OBVIOUS
      <4>1. UNCHANGED <<status, members, snapshot, completions>>
        BY <3>1 DEF d1Vars, gameVars, seatVars, resultVars
      <4>2. CASE k = work.call
        BY <3>3, <3>4, <4>1, <4>2 DEF Recorded
      <4>3. CASE k # work.call
        <5>1. FinishedOk(k)
          BY <3>3, <4>3 DEF FinishedOk
        <5> QED BY <3>4, <5>1 DEF FinishInv, ResultInv
      <4> QED BY <4>2, <4>3
    <3> QED
      BY <3>1, <3>3, <3>4, <3>5
         DEF FinishInv, ResultInv, RecorderHolds, Idle, d1Vars, gameVars
  <2>3. ASSUME NEW code \in {"FAILED", "REFUSED", "OK"}, work # Idle,
               Answer(work.call, code), code # "OK" \/ Running.kind # "FINISH"
        PROVE  NoNewFinish /\ SlotKept /\ work'.stage = "idle"
    <3>1. work.call \in Calls /\ call[work.call].state = "taken" /\ code \in Codes
      BY <2>3 DEF QueueInv, WorkShape, Codes
    <3>2. code # "OK" \/ call[work.call].cmd.kind # "FINISH"
      BY <2>3 DEF Running
    <3>3. call[work.call].state # "free"
      BY <3>1
    <3> HIDE DEF NoNewFinish, SlotKept
    <3> QED BY <1>3, <2>3, <3>1, <3>2, <3>3
  <2>4. CASE CommitCommand
    <3>1. /\ work.stage = "writing" /\ work # Idle /\ Apply(work.write)
          /\ Running.kind # "FINISH"
          /\ UNCHANGED <<dice, rolling, faultVars>>
          /\ \E code \in {"FAILED", "REFUSED", "OK"} : Answer(work.call, code)
      BY <2>4 DEF CommitCommand, Idle
    <3>2. NoNewFinish /\ work'.stage = "idle" /\ work.write \in Writes
      BY <2>3, <3>1, RunningFacts
    <3> QED BY <3>1, <3>2, ApplyFinish DEF faultVars
  <2>5. CASE /\ CommitSnapshot \/ CommitClose \/ CommitRecord
             /\ Answer(work.call, "FAILED") \/ Answer(work.call, "REFUSED")
    <3>1. /\ work # Idle /\ Apply(work.write) /\ UNCHANGED <<dice, rolling, faultVars>>
      BY <2>5 DEF CommitSnapshot, CommitClose, CommitRecord, Idle
    <3>2. work.write \in Writes
      <4>1. Close \in Writes
        BY DEF Writes
      <4> QED
        BY <2>5, <4>1, RunningFacts
           DEF CommitSnapshot, CommitClose, CommitRecord, QueueInv, WorkShape
    <3>3. NoNewFinish /\ work'.stage = "idle"
      BY <2>3, <2>5, <3>1
    <3> QED BY <3>1, <3>2, <3>3, ApplyFinish DEF faultVars
  <2>6. CASE /\ ReadForClose \/ ReadForRecord
             /\ Answer(work.call, "FAILED") \/ Answer(work.call, "REFUSED")
    <3>1. /\ work # Idle /\ UNCHANGED <<d1Vars, dice, rolling, faultVars, finish>>
      BY <2>6 DEF ReadForClose, ReadForRecord, Idle
    <3>2. NoNewFinish /\ SlotKept
      BY <2>3, <2>6, <3>1
    <3> QED
      BY <3>1, <3>2, QuietFinish
         DEF FinishInv, ResultInv, d1Vars, gameVars, seatVars, faultVars
  <2>7. CASE \/ CommitSnapshot /\ ~Breaks(work.write)
             \/ ReadForClose /\ Then("snapped", Close)
             \/ CommitClose /\ Lands(Close)
             \/ ReadForRecord /\ Readable
             \/ CommitRecord /\ ~Breaks(work.write)
    <3>1. UNCHANGED <<faultVars, rolling, dice>>
      BY <2>7 DEF CommitSnapshot, ReadForClose, CommitClose, ReadForRecord, CommitRecord
    <3> QED BY <2>7, <3>1, RecorderStep
  <2>8. CommitSnapshot => Answer(work.call, "FAILED") \/ ~Breaks(work.write)
    BY DEF CommitSnapshot
  <2>9. ReadForClose => Answer(work.call, "REFUSED") \/ Then("snapped", Close)
    BY DEF ReadForClose
  <2>10. CommitClose => Answer(work.call, "REFUSED") \/ Lands(Close)
    BY DEF CommitClose
  <2>11. ReadForRecord => Answer(work.call, "FAILED") \/ Readable
    BY DEF ReadForRecord
  <2>12. CommitRecord => Answer(work.call, "FAILED") \/ ~Breaks(work.write)
    BY DEF CommitRecord
  <2> QED
    BY <1>8, <2>1, <2>2, <2>4, <2>5, <2>6, <2>7, <2>8, <2>9, <2>10, <2>11, <2>12
       DEF QueueStep
<1>9. CASE DeleteGame \/ RestoreGame \/ ThirtyDaysPass
  <2>1. /\ UNCHANGED <<seatVars, resultVars, dice, instanceVars, call, faultVars, finish>>
        /\ status' = status \/ (status # "GONE" /\ status' = "ARCHIVED")
    BY <1>9 DEF DeleteGame, RestoreGame, ThirtyDaysPass, Readable
  <2> QED
    BY <1>2, <2>1, QuietFinish
       DEF SlotKept, Running, seatVars, instanceVars, faultVars, FinishInv, ResultInv
<1>10. CASE Purge
  <2>1. /\ UNCHANGED <<dice, work, rolling, call, late, finish>> /\ status' = "GONE"
        /\ completions' = [u \in Users |-> None]
    BY <1>10 DEF Purge, instanceVars, faultVars
  <2>2. ResultInv'
    BY <2>1 DEF FinishInv, ResultInv, FinishedOk
  <2>3. RecorderHolds'
    BY <2>1 DEF FinishInv, RecorderHolds
  <2> QED BY <2>2, <2>3 DEF FinishInv
<1>11. ASSUME Abandon PROVE late' \subseteq late \/ (late' = late \cup {work.write} /\ work.write \in Writes)
  BY <1>1, <1>11 DEF Abandon
<1>12. CASE StepFails
  <2>1. /\ work # Idle /\ Answer(work.call, "FAILED") /\ Abandon
        /\ UNCHANGED <<d1Vars, dice, rolling, finish>>
    BY <1>12 DEF StepFails
  <2>2. work.call \in Calls /\ call[work.call].state = "taken" /\ "FAILED" \in Codes
    BY <2>1 DEF QueueInv, WorkShape, Codes
  <2>3. NoNewFinish /\ SlotKept /\ work'.stage = "idle"
    BY <1>3, <2>1, <2>2
  <2> QED
    BY <1>11, <2>1, <2>3, QuietFinish
       DEF FinishInv, ResultInv, d1Vars, gameVars, seatVars
<1>13. CASE Crash
  <2>1. /\ work' = Idle /\ rolling' = None /\ Abandon
        /\ UNCHANGED <<d1Vars, dice, finish>>
        /\ call' = [k \in Calls |->
                      IF call[k].state = "taken"
                      THEN [call[k] EXCEPT !.state = "answered", !.code = "LOST"]
                      ELSE call[k]]
    BY <1>13 DEF Crash
  <2>2. NoNewFinish
    BY <1>1, <2>1 DEF NoNewFinish, FinishedOk
  <2> QED
    BY <1>11, <2>1, <2>2, QuietFinish
       DEF FinishInv, ResultInv, d1Vars, gameVars, seatVars, SlotKept, Idle
<1>14. ASSUME NEW w \in late, LateWriteArrives(w)
       PROVE  FinishInv'
  <2>1. /\ w \in Writes /\ Apply(w) /\ late' \subseteq late
        /\ UNCHANGED <<dice, work, rolling, call>> /\ UNCHANGED Running
    BY <1>1, <1>14 DEF LateWriteArrives, instanceVars, Running
  <2> QED BY <1>2, <2>1, ApplyFinish
<1>15. CASE UNCHANGED vars
  BY <1>2, <1>15, QuietFinish
     DEF vars, SlotKept, Running, instanceVars, faultVars, d1Vars, gameVars, seatVars,
         FinishInv, ResultInv
<1> QED
  BY <1>4, <1>5, <1>6, <1>7, <1>8, <1>9, <1>10, <1>12, <1>13, <1>14, <1>15 DEF Next

\* A FINISH_GAME answered with success leaves a snapshot and the right completion of
\* every linked member, and leaves no dice: key behind, whatever crashed, raced or
\* arrived late (finishGame, recordCompletedGame).
THEOREM FinishesAreRecorded == Spec => []FinishIsRecorded
<1>1. Init => FinishInv
  BY NoneAssumption
     DEF Init, FinishInv, ResultInv, RecorderHolds, FinishedOk, Idle, Free, Codes
<1>2. QueueInv /\ FinishInv /\ [Next]_vars => FinishInv'
  BY FinishStep
<1>3. FinishInv => FinishIsRecorded
  BY DEF FinishInv, ResultInv, FinishIsRecorded, FinishedOk, Recorded
<1> QED BY <1>1, <1>2, <1>3, QueueInvHolds, PTL DEF Spec
-----------------------------------------------------------------------------
(* The account beside the table *)

\* What is proved about Accounts, for the account of MCPeople.
AP == INSTANCE AccountsProofs

\* The instance that the runs check starts as that one does ...
LEMMA SameStart == PeopleInit => AP!Init
BY DEF PeopleInit, A!Init, AP!Init, A!Nothing, AP!Nothing

\* ... and takes the same steps, word for word.
LEMMA SameSteps == A!Next <=> AP!Next
BY DEF A!Next, A!Purposes, A!Row, A!Nothing, A!At, A!Live, A!Renewed,
       A!Consumable, A!Consume, A!Retires, A!Blocked, A!Issue, A!Begin, A!Go,
       A!End, A!In, A!Login, A!Current, A!Renew, A!CreateSession, A!Logout,
       A!NoSessions, A!RevokeAll, A!RevokeAllOf, A!Forgot, A!Resend, A!AddEmail,
       A!Upgrade, A!PurposeOf, A!AfterMail, A!IssueLink, A!MailSent,
       A!MailRefused, A!UseLink, A!ApplyLink, A!AskToDelete, A!Anonymize,
       A!GiveUp, A!Sweep, A!Tick, A!SessionStep, A!LinkStep, AP!Next, AP!Purposes,
       AP!Row, AP!Nothing, AP!At, AP!Live, AP!Renewed, AP!Consumable, AP!Consume,
       AP!Retires, AP!Blocked, AP!Issue, AP!Begin, AP!Go, AP!End, AP!In, AP!Login,
       AP!Current, AP!Renew, AP!CreateSession, AP!Logout, AP!NoSessions,
       AP!RevokeAll, AP!RevokeAllOf, AP!Forgot, AP!Resend, AP!AddEmail,
       AP!Upgrade, AP!PurposeOf, AP!AfterMail, AP!IssueLink, AP!MailSent,
       AP!MailRefused, AP!UseLink, AP!ApplyLink, AP!AskToDelete, AP!Anonymize,
       AP!GiveUp, AP!Sweep, AP!Tick, AP!SessionStep, AP!LinkStep

\* A step of the table leaves the account as it is.
LEMMA PeopleSteps == [PeopleNext]_<<vars, accountVars, scene>> => [AP!Next]_(AP!vars)
BY SameSteps DEF PeopleNext, accountVars, A!vars, AP!vars

\* So it goes for the account what is proved about one alone.
LEMMA PeopleAlone == PeopleSpec => AP!Spec
BY SameStart, PeopleSteps, PTL DEF PeopleSpec, AP!Spec

\* Beside a table too, a mailed link changes its account at most once and of each
\* purpose at most one is usable (auth-token-repository.ts issue and consume).
THEOREM PeopleLinksWorkOnce == ASSUME AP!Durations PROVE PeopleSpec => []LinksWorkOnce
<1>1. AP!Spec => []AP!LinksWorkOnce
  BY AP!LinksWorkOnlyOnce
<1>2. AP!LinksWorkOnce <=> LinksWorkOnce
  BY DEF LinksWorkOnce, A!LinksWorkOnce, AP!LinksWorkOnce
<1> QED BY <1>1, <1>2, PeopleAlone, PTL

\* ... and no step shortens a lease or brings back a session that was revoked or swept
\* away (session-repository.ts renew).
THEOREM PeopleLeasesGrow == ASSUME AP!Durations PROVE PeopleSpec => LeasesOnlyGrow
<1>1. AP!Spec => AP!LeasesOnlyGrow
  BY AP!LeasesGrow
<1>2. [\A t \in drawn : \/ session'[t] = None
                        \/ session[t] # None /\ session'[t] >= session[t]]_(AP!vars)
      => [\A t \in drawn : \/ session'[t] = None
                           \/ session[t] # None /\ session'[t] >= session[t]]_(A!vars)
  BY DEF A!vars, AP!vars
<1> QED BY <1>1, <1>2, PeopleAlone, PTL DEF LeasesOnlyGrow, A!LeasesOnlyGrow, AP!LeasesOnlyGrow
=============================================================================
