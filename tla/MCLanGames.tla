----------------------------- MODULE MCLanGames -----------------------------
(* A small instance of LanGames for TLC. *)
EXTENDS LanGames, TLC

CONSTANTS u1, u2, u3, r1, r2

\* The users are interchangeable, and so are the rooms.
NameSymmetry == Permutations({u1, u2, u3}) \cup Permutations({r1, r2})
=============================================================================
