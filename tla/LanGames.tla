------------------------------ MODULE LanGames ------------------------------
(***************************************************************************)
(* The proxy of a local network (backend/proxy/direct): the players reach  *)
(* each other at their own addresses, and the proxy keeps, from what the   *)
(* console answered and then wrote, who plays in the room and tells the    *)
(* game who hosts it now.  The addresses parse: they are this program's.   *)
(***************************************************************************)
EXTENDS Games

CONSTANT NoGame  \* LAN.GameRoom is nil

VARIABLES
    gameRoom,  \* LAN.GameRoom
    told,      \* the host the game was told of last
    doubts     \* history: what the proxy may have wrong, as a race spoilt it

proxyVars == <<gameRoom, told, doubts>>
vars == <<gameVars, proxyVars>>

-----------------------------------------------------------------------------

GameRoom == [id : Room, players : SUBSET User]

\* What the proxy may have wrong.
Doubt == {"players", "host"}
Doubts(players, host) == {d \in Doubt : IF d = "players" THEN players ELSE host}

NewGameRoom(r, players) == [id |-> r, players |-> players]

TypeOK ==
    /\ GamesTypeOK
    /\ inbox \in [User -> Seq(Message)]
    /\ gameRoom \in [User -> GameRoom \cup {NoGame}]
    /\ told \in [User -> User \cup {Nobody}]
    /\ doubts \in [User -> SUBSET Doubt]

Init ==
    /\ GamesInit
    /\ gameRoom = [u \in User |-> NoGame]
    /\ told = [u \in User |-> Nobody]
    /\ doubts = [u \in User |-> {}]

Doubted(u, S) == doubts' = [doubts EXCEPT ![u] = @ \cup S]

-----------------------------------------------------------------------------

\* History: a room the user is in is thrown away before the call that fails.
LanCreateGame(u, r) ==
    /\ CreateGame(u, r)
    /\ gameRoom' = [gameRoom EXCEPT ![u] = NewGameRoom(r, {u})]
    /\ told' = [told EXCEPT ![u] = u]
    /\ doubts' = [doubts EXCEPT ![u] = IF gameID[u] = r THEN Doubt ELSE {}]

\* History: the room may have changed since it was read.
LanSelect(u) ==
    LET r == command[u].room
        players == command[u].players
    IN
    /\ Selected(u)
    /\ gameRoom' = [gameRoom EXCEPT ![u] = NewGameRoom(r, players)]
    /\ told' = [told EXCEPT ![u] = command[u].host]
    /\ doubts' = [doubts EXCEPT ![u] =
           Doubts(players # members[r], command[u].host # leader[r])]

LanSelectFails(u) ==
    /\ SelectFails(u)
    /\ gameRoom' = [gameRoom EXCEPT ![u] = NoGame]
    /\ told' = [told EXCEPT ![u] = Nobody]
    /\ doubts' = [doubts EXCEPT ![u] = {}]

\* The proxy's Join adds the user himself.
LanJoinGame(u, r) ==
    /\ gameRoom[u] # NoGame
    /\ JoinGame(u, r)
    /\ gameRoom' = [gameRoom EXCEPT ![u].players = @ \cup {u}]
    /\ UNCHANGED <<told, doubts>>

\* History: somebody entered, or the host changed, since the game looked.
LanJoinRoom(u) ==
    LET r == command[u].room IN
    /\ JoinRoom(u)
    /\ Doubted(u, Doubts(~(members[r] \subseteq gameRoom[u].players),
                         told[u] # leader[r]))
    /\ UNCHANGED <<gameRoom, told>>

LanAnnounceJoin(a, v) ==
    /\ AnnounceJoin(a, v)
    /\ UNCHANGED proxyVars

\* ConnectToPlayer parses the addresses of the answer.
LanAnswer(a) ==
    /\ Answer(a, At("idle"))
    /\ UNCHANGED proxyVars

LanBroadcastLeave(u) ==
    /\ BroadcastLeave(u)
    /\ UNCHANGED proxyVars

-----------------------------------------------------------------------------
(* LAN.Handle *)

\* Mutation: JoinRoom is only for the host.
SetPlayerHost(u, v) ==
    gameRoom' = IF gameRoom[u] = NoGame \/ told[u] # u THEN gameRoom
                ELSE [gameRoom EXCEPT ![u].players = @ \cup {v}]

SetPlayer(u, v) ==
    gameRoom' = IF gameRoom[u] = NoGame THEN gameRoom
                ELSE [gameRoom EXCEPT ![u].players = @ \cup {v}]

DeletePlayer(u, v) ==
    gameRoom' = IF gameRoom[u] = NoGame THEN gameRoom
                ELSE [gameRoom EXCEPT ![u].players = @ \ {v}]

\* History: v's departure has been handled or will be.
DepartureFollows(u, v) ==
    \/ v \in farewells
    \/ \E i \in 2..Len(inbox[u]) :
           inbox[u][i].type \in {"LeaveRoom", "LeaveLobby"} /\ inbox[u][i].user = v

\* History: m is about another room than the one the proxy has; a departure
\* is handled after its user's return; AnnounceJoin named somebody who had
\* left again.
Misled(u, m) ==
    LET id == gameRoom[u].id
        present == m.user \in members[id] \cup {u}
    IN
    IF gameRoom[u] = NoGame THEN {}
    ELSE IF gameID[u] \notin {NoRoom, id} THEN Doubt
    ELSE IF \/ m.type \in {"LeaveRoom", "LeaveLobby"} /\ present
            \/ m.type = "JoinRoom" /\ ~present /\ ~DepartureFollows(u, m.user)
    THEN {"players"} ELSE {}

Handle(u) ==
    LET m == Head(inbox[u]) IN
    /\ Take(u)
    /\ UNCHANGED observing
    /\ Doubted(u, Misled(u, m))
    /\ \/ /\ m.type = "JoinRoom"
          /\ SetPlayer(u, m.user)
          /\ UNCHANGED told
       \/ /\ m.type \in {"LeaveRoom", "LeaveLobby"}
          /\ DeletePlayer(u, m.user)
          /\ UNCHANGED told
       \/ /\ m.type = "HostMigration"
          /\ told' = [told EXCEPT ![u] = m.user]
          /\ UNCHANGED gameRoom

\* The session's proxy is gone with it.
LanEndSession(u) ==
    /\ EndSession(u)
    /\ gameRoom' = [gameRoom EXCEPT ![u] = NoGame]
    /\ told' = [told EXCEPT ![u] = Nobody]
    /\ doubts' = [doubts EXCEPT ![u] = {}]

Next ==
    \/ \E u \in User :
          \/ Handle(u) \/ LanBroadcastLeave(u) \/ LanEndSession(u)
          \/ LanSelect(u) \/ LanSelectFails(u) \/ LanJoinRoom(u)
          \/ Login(u) /\ UNCHANGED proxyVars
          \/ Disconnect(u) /\ UNCHANGED proxyVars
          \/ SendFails(u) /\ UNCHANGED proxyVars
          \/ CreateRoom(u) /\ UNCHANGED proxyVars
          \/ GetGame(u) /\ UNCHANGED proxyVars
          \/ JoinFails(u) /\ UNCHANGED proxyVars
          \/ \E r \in Room : SelectGame(u, r) /\ UNCHANGED proxyVars
          \/ \E r \in Room : LanCreateGame(u, r) \/ LanJoinGame(u, r)
    \/ \E a \in announcing :
          \/ \E v \in User : LanAnnounceJoin(a, v)
          \/ LanAnswer(a)

Spec == Init /\ [][Next]_vars

-----------------------------------------------------------------------------
(* Properties *)

InRoom(u, r) ==
    Settled(u, r) /\ gameRoom[u] # NoGame /\ gameRoom[u].id = r

\* Once everything the console wrote has been handled, the players a proxy
\* keeps for the room its user plays in are the players of the room
\* (direct/proxy_lan.go Handle, console/multiplayer.go AnnounceJoin and
\* LeaveRoom), unless a race the code leaves open has spoilt them.
RosterAgrees ==
    \A u \in User, r \in Room :
        InRoom(u, r) /\ "players" \notin doubts[u] => gameRoom[u].players = members[r]

\* And the game was last told of the host the console has, unless the host
\* changed while the game was between looking at the room and joining it
\* (direct/proxy_lan.go Handle, HostMigration).
HostTold ==
    \A u \in User, r \in Room :
        InRoom(u, r) /\ "host" \notin doubts[u] => told[u] = leader[r]

=============================================================================
