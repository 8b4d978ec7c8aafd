------------------------------ MODULE MCLobby ------------------------------
(***************************************************************************)
(* Constants of Lobby for TLC.                                             *)
(***************************************************************************)
EXTENDS Lobby, TLC

CONSTANTS c1, c2, c3, u1, u2

\* User u1 opens two websockets, u2 one.
TwoWebsockets == c1 :> u1 @@ c2 :> u1 @@ c3 :> u2

\* Game IDs are interchangeable, and so are the websockets of one user.
Symmetry == Permutations(Room) \cup Permutations({c1, c2})

=============================================================================
