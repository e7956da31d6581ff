------------------------------- MODULE MCLobby -------------------------------
(***************************************************************************)
(* Small instances of Lobby: the owner and two people who would like the   *)
(* other place, and two requests at a time.                                *)
(***************************************************************************)
EXTENDS Lobby, TLC

CONSTANTS o, u1, u2, k1, k2

ThreeUsers == {o, u1, u2}
TwoCalls == {k1, k2}

\* People and calls are interchangeable: no action or property names one.
Symmetry == Permutations(ThreeUsers \ {o}) \cup Permutations(TwoCalls)
=============================================================================
