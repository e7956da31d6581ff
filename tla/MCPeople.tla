------------------------------- MODULE MCPeople -------------------------------
(***************************************************************************)
(* Two scenes, checked side by side: the table of Lobby, and the account   *)
(* of one of the people at it (Accounts).  They share no state: an account *)
(* only learns whether it has a seat, and may always be told it has none.  *)
(***************************************************************************)
EXTENDS MCLobby

CONSTANTS t1, t2, l1, l2, Lease, Renewal, LinkLife, Cooldown, MaxTime

Tokens == {t1, t2}
Links == {l1, l2}

VARIABLES scene, user, session, link, req, now, drawn, used

A == INSTANCE Accounts

accountVars == <<user, session, link, req, now, drawn, used>>

PeopleInit ==
  /\ Init
  /\ A!Init
  /\ \/ scene = "table" /\ user.type = "GUEST"
     \/ scene = "account" /\ players = {OwnerSeat}

PeopleNext ==
  /\ scene' = scene
  /\ \/ scene = "table" /\ Next /\ UNCHANGED accountVars
     \/ scene = "account" /\ A!Next /\ UNCHANGED vars

PeopleSpec == PeopleInit /\ [][PeopleNext]_<<vars, accountVars, scene>>

\* Accounts: no late renewal shortens a session, and no token comes back to life.
LeasesOnlyGrow == A!LeasesOnlyGrow
\* Accounts: a mailed link changes an account at most once, whoever raced it.
LinksWorkOnce == A!LinksWorkOnce

PeopleSymmetry == Symmetry \cup Permutations(Tokens) \cup Permutations(Links)
=============================================================================
