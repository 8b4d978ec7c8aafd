----------------------------- MODULE MCPresence -----------------------------
(***************************************************************************)
(* Constants of Presence for TLC.                                          *)
(***************************************************************************)
EXTENDS Presence, TLC

CONSTANTS c1, c2, c3, u1, u2

\* User u1 connects twice, u2 once.
TwoWebsockets == c1 :> u1 @@ c2 :> u1 @@ c3 :> u2

=============================================================================
