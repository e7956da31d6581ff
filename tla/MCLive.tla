-------------------------------- MODULE MCLive --------------------------------
(***************************************************************************)
(* What must happen in the end, in two scenes checked side by side: the    *)
(* auction of MCAuction, which somebody or something has to close, and the *)
(* calls of GameSession, which have to be answered.  They share no state;  *)
(* each is fair only in its own scene.                                     *)
(***************************************************************************)
EXTENDS MCAuction

CONSTANTS k1, k2, a1, a2, c1, c2, MaxFailures

VARIABLES scene,
  wallet, player, request, overdue, transactions, commitVersion, ledger, stateVersion,
  queue, inFlight, work, call, published, lateBatches, lateCompletions, failures

Command(c, a, k) == [id |-> c, body |-> [actor |-> a, kind |-> k]]

S == INSTANCE GameSession WITH
       Calls <- {k1, k2}, Actors <- {a1, a2}, Ids <- {c1, c2}, LateWrites <- FALSE,
       Requests <- {Command(c1, a1, "DEBIT"), Command(c1, a2, "CREDIT"),
                    Command(c2, a1, "ACCEPT"), Command(c2, a2, "BANKRUPT")},
       status <- player, announced <- published

sessionVars ==
  <<wallet, player, request, overdue, transactions, commitVersion, ledger, stateVersion,
    queue, inFlight, work, call, published, lateBatches, lateCompletions, failures>>

LiveInit == Init /\ S!Init /\ scene \in {"auction", "calls"}

LiveNext ==
  /\ scene' = scene
  /\ \/ scene = "auction" /\ Next /\ UNCHANGED sessionVars
     \/ scene = "calls" /\ S!Next /\ UNCHANGED vars

\* Auction's Fairness, in its scene.  Nothing of GameSession's is enabled there:
\* no call was ever sent.
AuctionFairness ==
  /\ WF_vars(scene = "auction" /\ TaskStep)
  /\ WF_vars(scene = "auction" /\ AlarmEnds)
  /\ SF_vars(scene = "auction" /\ AlarmFires)
  /\ WF_vars(scene = "auction" /\ Tick)

LiveSpec ==
  /\ LiveInit /\ [][LiveNext]_<<vars, sessionVars, scene>>
  /\ AuctionFairness
  /\ S!Fairness

\* GameSession: every call that was sent is answered or lost with its object.
\* No action or value tells k1 from k2, so one of them stands for both.
EveryCallEnds == S!CallEnds(k1)
=============================================================================
