---------------------------- MODULE MCHostOrder ----------------------------
(***************************************************************************)
(* HostOrder for TLC, from the moment every user is in the lobby: each     *)
(* websocket is serving and registered, no room exists yet.                *)
(***************************************************************************)
EXTENDS HostOrder, TLC

CONSTANTS c1, c2, c3, u1, u2, u3

OneWebsocketEach == c1 :> u1 @@ c2 :> u2 @@ c3 :> u3

InLobby ==
    /\ phase = [c \in Conn |-> "serving"]
    /\ sessions = [u \in User |-> CHOOSE c \in Conn : UserOf[c] = u]
    /\ rooms = [r \in Room |-> NoRoom]
    /\ gameID = [c \in Conn |-> NoRoom]
    /\ joinedAt = [c \in Conn |-> 0]
    /\ now = 0
    /\ inbox = NoRoom
    /\ enteredAt = [r \in Room |-> [u \in User |-> 0]]

InLobbySpec == InLobby /\ [][OrderNext]_orderVars

\* Readiness plays no part in the choice of a host: states in which a
\* SetRoomReady message is being handled are not explored.
NoReadyMessage == inbox = NoRoom

\* Game IDs are interchangeable.
Symmetry == Permutations(Room)

=============================================================================
