--------------------------- MODULE CommandPromise ---------------------------
(***************************************************************************)
(* What the per-game coordinator promises to its callers, with nothing of  *)
(* how it keeps the promise: a command takes effect at most once, "OK"     *)
(* speaks of an effect that has happened, every copy of one command that   *)
(* is answered "OK" hears of the same one, an identifier is good for one   *)
(* command, and "refused" means that the command has had no effect - or    *)
(* one of the few that cannot be told from no effect at all.               *)
(*                                                                         *)
(* README.md:36: "one GameSession Durable Object per game, which           *)
(* serializes commands, makes retries idempotent ...".                     *)
(***************************************************************************)
CONSTANTS
    Calls,        \* the requests callers make; a retry belongs to its call
    Ids,          \* command identifiers, which also name transactions
    Bodies,       \* who asks for what
    Forgettable,  \* the commands whose effect may be forgotten
    LateRecords,  \* may the record of an outcome come after it was sought?
    None

VARIABLES
    done,         \* done[t]: the command whose effect is transaction t, or None
    forgotten,    \* the effects that do not speak for their command
    told          \* told[k]: what call k asked and was told, or None

vars == <<done, forgotten, told>>

Init ==
    /\ done = [t \in Ids |-> None]
    /\ forgotten = {}
    /\ told = [k \in Calls |-> None]

\* A command takes effect: one transaction, never written again.  Whether it is
\* forgotten is settled then and there.
Perform(t) ==
    /\ done[t] = None
    /\ \E b \in Bodies :
          /\ done' = [done EXCEPT ![t] = b]
          /\ \/ UNCHANGED forgotten
             \/ b \in Forgettable /\ forgotten' = forgotten \cup {t}
    /\ UNCHANGED told

ToldOk(k, c) == told[k] # None /\ told[k].id = c /\ told[k].code = "OK"

\* One outcome answers every caller in S, who all sent command c with body b: the
\* one told before, and nobody was told OK of another command under c.
AnswerOk(S, c, b) ==
    \E t \in Ids \cup {None} :
        /\ t # None => done[t] # None
        /\ \A k \in Calls : ToldOk(k, c) =>
              IF told[k].body = b THEN told[k].txn = t ELSE LateRecords
        /\ told' = [k \in Calls |->
                      IF k \in S
                      THEN [id |-> c, body |-> b, code |-> "OK", txn |-> t]
                      ELSE told[k]]

AnswerNo(S, c, b, code) ==
    /\ code = "REFUSED" => done[c] # b \/ c \in forgotten
    /\ told' = [k \in Calls |->
                  IF k \in S
                  THEN [id |-> c, body |-> b, code |-> code, txn |-> None]
                  ELSE told[k]]

Answer(S) ==
    /\ \A k \in S : told[k] = None
    /\ \E c \in Ids, b \in Bodies :
          \/ AnswerOk(S, c, b)
          \/ \E code \in {"REFUSED", "REUSED"} : AnswerNo(S, c, b, code)
    /\ UNCHANGED <<done, forgotten>>

Next ==
    \/ \E t \in Ids : Perform(t)
    \/ \E S \in SUBSET Calls : Answer(S)

Spec == Init /\ [][Next]_vars
=============================================================================
