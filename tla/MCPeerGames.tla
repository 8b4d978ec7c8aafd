----------------------------- MODULE MCPeerGames -----------------------------
(* A small instance of PeerGames for TLC. *)
EXTENDS PeerGames, TLC

CONSTANTS u1, u2, u3

\* The users are interchangeable.
UserSymmetry == Permutations({u1, u2, u3})
=============================================================================
