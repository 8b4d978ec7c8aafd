---------------------------- MODULE MCRelayServer ----------------------------
(***************************************************************************)
(* Constants of RelayServer for TLC.                                       *)
(***************************************************************************)
EXTENDS RelayServer, TLC

CONSTANTS l1, l2, l3, u1, u2

\* User u1 has two links, u2 one.
TwoLinks == l1 :> u1 @@ l2 :> u1 @@ l3 :> u2

=============================================================================
