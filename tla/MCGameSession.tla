--------------------------- MODULE MCGameSession ---------------------------
(***************************************************************************)
(* Small instances of GameSession.  Two command identifiers are enough for *)
(* two commands to race for one wallet and one payment request; three      *)
(* calls give one command a copy or a retry beside a competing command.    *)
(***************************************************************************)
EXTENDS GameSession, TLC

CONSTANTS k1, k2, k3, a1, a2, c1, c2

Command(c, a, k) == [id |-> c, body |-> [actor |-> a, kind |-> k]]

MCCalls == {k1, k2, k3}
TwoCalls == {k1, k2}
MCActors == {a1, a2}
MCIds == {c1, c2}

\* Every executor whose retries are recognised, and one identifier used by two
\* different commands.
RetryRequests ==
    {Command(c1, a1, "DEBIT"), Command(c1, a2, "DEBIT"),
     Command(c2, a1, "ACCEPT"), Command(c2, a2, "DECLINE")}

\* Commands that race for one wallet and one request.
RaceRequests ==
    {Command(c1, a2, "CREDIT"), Command(c1, a1, "ACCEPT"),
     Command(c2, a1, "ACCEPT"), Command(c2, a2, "DECLINE")}

\* One payment of the request, which may fall due while it is paid.
PayRequests == {Command(c1, a1, "ACCEPT")}

BankruptRequests ==
    {Command(c1, a1, "BANKRUPT"), Command(c2, a2, "CREDIT")}

\* Calls are interchangeable: no action or property names one.
Symmetry == Permutations(MCCalls)
=============================================================================
