-------------------------------- MODULE Games --------------------------------
(***************************************************************************)
(* The game commands of a backend session (backend/command_028, _034 and   *)
(* _069) over the console's game service (console/game.go): creating a     *)
(* room, looking at one, joining one, and what the console then sends to   *)
(* the players.  RoomDirectory is the console here, as Lobby implements    *)
(* it.  A proxy module (LanGames, PeerGames) extends this one with what    *)
(* the proxy of the session does in each of these steps.                   *)
(*                                                                         *)
(* A handler is cut where another goroutine can run: at its calls of the   *)
(* console, and in the console where a mutex is released.  AnnounceJoin    *)
(* ranges over the live map of players and holds no mutex.                 *)
(*                                                                         *)
(* A handler's error ends the session, as the game's leaving does:         *)
(* EndSession.  A session that reconnects while the console still serves   *)
(* the old websocket is Lobby's subject, and so is a user who enters a     *)
(* second room without leaving the first: here the console has noticed     *)
(* the old websocket before the user logs in again, and a game plays one   *)
(* room in a session, but may look at any.                                 *)
(***************************************************************************)
EXTENDS RoomDirectory, Naturals, FiniteSets, Sequences, Functions

CONSTANTS
    NoRoom,
    MaxCommands,  \* bound: how many game commands and new logins there are
    MaxDepartures, \* bound: how many leave
    MaxFailures \* bound: how many can be out of reach when a write fails

ASSUME GamesAssumption ==
    /\ NoRoom \notin Room
    /\ Nobody \notin User
    /\ MaxCommands \in Nat
    /\ MaxDepartures \in Nat
    /\ MaxFailures \in Nat

VARIABLES
    online,     \* the users in Multiplayer.sessions
    connected,  \* those of them whose UserSession.Connected is TRUE
    gameID,     \* UserSession.GameID
    announcing, \* the JoinGame calls that are in AnnounceJoin
    farewells,  \* the users whose LeaveLobby is to be broadcast
    command,    \* the handler each backend session runs
    observing,  \* the users whose observer loop runs
    inbox,      \* what the console has written and the observer not read
    commands,   \* how many commands and new logins there were
    logins      \* how many of them were logins

consoleVars == <<members, leader, online, connected, gameID, announcing, farewells>>
gameVars == <<consoleVars, command, observing, inbox, commands, logins>>

-----------------------------------------------------------------------------

Message ==
    [type : {"JoinRoom", "LeaveRoom", "LeaveLobby", "HostMigration"},
     user : User]

\* alive: the room that was read has not been destroyed.
Command ==
    [pc : {"offline", "idle", "creating", "reading", "selecting",
           "joining", "answering", "connecting"},
     room : Room \cup {NoRoom}, host : User \cup {Nobody},
     players : SUBSET User, alive : BOOLEAN]

At(pc) ==
    [pc |-> pc, room |-> NoRoom, host |-> Nobody, players |-> {},
     alive |-> FALSE]

Announcement ==
    [user : User, room : Room, todo : SUBSET User, told : SUBSET User,
     alive : BOOLEAN]

GamesTypeOK ==
    /\ members \in [Room -> SUBSET User]
    /\ leader \in [Room -> User \cup {Nobody}]
    /\ online \subseteq User
    /\ connected \subseteq online
    /\ gameID \in [User -> Room \cup {NoRoom}]
    /\ announcing \subseteq Announcement
    /\ farewells \subseteq User
    /\ command \in [User -> Command]
    /\ observing \subseteq User
    /\ commands \in 0..MaxCommands
    /\ logins \in 0..MaxCommands

\* Everybody has logged in.
GamesInit ==
    /\ DirInit
    /\ online = User
    /\ connected = User
    /\ gameID = [u \in User |-> NoRoom]
    /\ announcing = {}
    /\ farewells = {}
    /\ command = [u \in User |-> At("idle")]
    /\ observing = User
    /\ inbox = [u \in User |-> <<>>]
    /\ commands = 0
    /\ logins = 0

IsAt(u, pc) == command[u].pc = pc

\* Whom a message of the console reaches.
Hearing == connected \cap observing

\* The inboxes after the console has written ms to those of S who hear it.
Written(S, ms) ==
    [v \in User |-> IF v \in S \cap Hearing THEN inbox[v] \o ms ELSE inbox[v]]

Msg(type, u) == [type |-> type, user |-> u]

-----------------------------------------------------------------------------
(* Sessions *)

Login(u) ==
    /\ IsAt(u, "offline")
    /\ u \notin online
    /\ commands < MaxCommands
    /\ online' = online \cup {u}
    /\ connected' = connected \cup {u}
    /\ observing' = observing \cup {u}
    /\ command' = [command EXCEPT ![u] = At("idle")]
    /\ commands' = commands + 1
    /\ logins' = logins + 1
    /\ UNCHANGED <<members, leader, gameID, announcing, farewells, inbox>>

Departed == {u \in User : u \notin online \/ IsAt(u, "offline")}

\* Within the bound, or gone by half.
MayDepart(u) == u \in Departed \/ logins + Cardinality(Departed) < MaxDepartures

\* The backend session ends and closes its websocket.
End(u) ==
    /\ command' = [command EXCEPT ![u] = At("offline")]
    /\ observing' = observing \ {u}
    /\ inbox' = [inbox EXCEPT ![u] = <<>>]
    /\ UNCHANGED <<consoleVars, commands, logins>>

\* Room r is destroyed: those who have read it hold a map that stays empty.
Forget(r) == [v \in User |-> IF command[v].room = r
                             THEN [command[v] EXCEPT !.alive = FALSE]
                             ELSE command[v]]
Cut(a) == [a EXCEPT !.todo = {}, !.alive = FALSE]

\* Within the bound, when writes to those of S fail.
MayFail(S) == logins + Cardinality(User \ (connected \ S)) <= MaxFailures

(***************************************************************************)
(* A write of Send fails: the websocket is broken, or the reader too slow  *)
(* for the time left.  The session stays registered and in its room, but   *)
(* nothing is written to it any more, this message included.               *)
(***************************************************************************)
SendFails(u) ==
    /\ u \in connected
    /\ MayFail({u})
    /\ connected' = connected \ {u}
    /\ UNCHANGED <<members, leader, online, gameID, announcing, farewells, command,
                   observing, inbox, commands, logins>>

\* Mutation: the host migration goes to the new host alone.
LeaveNoticesToHost(r, u, half) ==
    [v \in User |->
        IF v \notin (members[r] \ {u}) \cap Hearing THEN inbox[v]
        ELSE IF leader[r] # u \/ v # leader'[r] THEN Append(inbox[v], Msg("LeaveRoom", u))
        ELSE inbox[v] \o <<Msg("LeaveRoom", u), Msg("HostMigration", leader'[r])>>]

\* What LeaveRoom writes to the players left behind in r.  To those of half the
\* second write fails.
LeaveNotices(r, u, half) ==
    [v \in User |->
        IF v \notin (members[r] \ {u}) \cap Hearing THEN inbox[v]
        ELSE IF leader[r] # u \/ v \in half THEN Append(inbox[v], Msg("LeaveRoom", u))
        ELSE inbox[v] \o <<Msg("LeaveRoom", u), Msg("HostMigration", leader'[r])>>]

(***************************************************************************)
(* SetPlayerDisconnected: the websocket was closed, or it broke while the  *)
(* backend session goes on without one.                                    *)
(***************************************************************************)
Disconnect(u) ==
    LET r == gameID[u] IN
    /\ u \in online
    /\ MayDepart(u)
    /\ u \notin farewells
    /\ online' = online \ {u}
    /\ observing' = observing \ {u}
    /\ farewells' = farewells \cup {u}
    /\ gameID' = [gameID EXCEPT ![u] = NoRoom]
    /\ IF r = NoRoom
       THEN /\ connected' = connected \ {u}
            /\ inbox' = [inbox EXCEPT ![u] = <<>>]
            /\ UNCHANGED <<members, leader, announcing, command>>
       ELSE /\ \/ Follow(r, u)
               \/ leader[r] = u /\ \E v \in members[r] : HandOver(r, v)
               \/ leader[r] = u /\ Close(r)
            /\ \E half \in SUBSET (members[r] \ {u}) :
                  /\ half # {} => leader[r] = u /\ MayFail(half)
                  /\ connected' = connected \ ({u} \cup half)
                  /\ inbox' = [LeaveNotices(r, u, half) EXCEPT ![u] = <<>>]
            /\ command' = IF members'[r] = {} THEN Forget(r) ELSE command
            /\ announcing' = {IF members'[a.room] = {} THEN Cut(a) ELSE a : a \in announcing}
    /\ UNCHANGED <<commands, logins>>

\* BroadcastMessage(LeaveLobby), to whoever has a session by then.
BroadcastLeave(u) ==
    /\ u \in farewells
    /\ farewells' = farewells \ {u}
    /\ inbox' = Written(User, <<Msg("LeaveLobby", u)>>)
    /\ UNCHANGED <<members, leader, online, connected, gameID, announcing, command,
                   observing, commands, logins>>

\* The session's loop reads a closed connection, between two commands.
EndSession(u) == IsAt(u, "idle") /\ MayDepart(u) /\ End(u)

-----------------------------------------------------------------------------
(* Creating a room: HandleCreateGame in GameStateNone *)

Begin(u, c) ==
    /\ IsAt(u, "idle")
    /\ commands < MaxCommands
    /\ commands' = commands + 1
    /\ command' = [command EXCEPT ![u] = c]
    /\ UNCHANGED <<consoleVars, observing, inbox, logins>>

\* The proxy's CreateRoom; the service is called next.
CreateGame(u, r) ==
    /\ gameID[u] \in {r, NoRoom}
    /\ Begin(u, [At("creating") EXCEPT !.room = r])

MayCreate(u) == u \in online /\ members[command[u].room] = {}

\* Multiplayer.CreateRoom, which fails if there is such a room already.
CreateRoom(u) ==
    LET r == command[u].room IN
    /\ IsAt(u, "creating")
    /\ IF MayCreate(u)
       THEN OpenRoom(r, u) /\ gameID' = [gameID EXCEPT ![u] = r]
       ELSE UNCHANGED <<members, leader, gameID>>
    /\ command' = [command EXCEPT ![u] = At("idle")]
    /\ UNCHANGED <<online, connected, announcing, farewells, observing, inbox,
                   commands, logins>>

-----------------------------------------------------------------------------
(* Looking at a room: HandleSelectGame *)

\* GetRoom copies the room; the map of players is shared.
SelectGame(u, r) ==
    /\ members[r] # {}
    /\ Begin(u, [At("reading") EXCEPT !.room = r, !.host = leader[r], !.alive = TRUE])

\* GetGame reads that map when the mutex is released.
GetGame(u) ==
    /\ IsAt(u, "reading")
    /\ command' = [command EXCEPT ![u].pc = "selecting",
                       ![u].players = IF command[u].alive
                                      THEN members[command[u].room] ELSE {}]
    /\ UNCHANGED <<consoleVars, observing, inbox, commands, logins>>

\* The proxy's SelectGame, which fails if the host is not among the players.
Selected(u) ==
    /\ IsAt(u, "selecting")
    /\ command[u].host \in command[u].players
    /\ command' = [command EXCEPT ![u] = At("idle")]
    /\ UNCHANGED <<consoleVars, observing, inbox, commands, logins>>

SelectFails(u) ==
    /\ IsAt(u, "selecting")
    /\ command[u].host \notin command[u].players
    /\ End(u)

-----------------------------------------------------------------------------
(* Joining a room: HandleJoinGame *)

\* GetGame and the proxy's Join.
JoinGame(u, r) ==
    /\ members[r] # {}
    /\ gameID[u] \in {r, NoRoom}
    /\ Begin(u, [At("joining") EXCEPT !.room = r])

MayJoin(u) ==
    LET r == command[u].room IN
    u \in online /\ members[r] # {} /\ u \notin members[r]

\* Multiplayer.JoinRoom.  On an error the game gets no answer.
JoinRoom(u) ==
    LET r == command[u].room IN
    /\ IsAt(u, "joining")
    /\ MayJoin(u)
    /\ \A a \in announcing : a.user # u  \* bound: one announcement of a user
    /\ Enter(r, u)
    /\ gameID' = [gameID EXCEPT ![u] = r]
    /\ announcing' = announcing \cup
           {[user |-> u, room |-> r, todo |-> members[r], told |-> {}, alive |-> TRUE]}
    /\ command' = [command EXCEPT ![u] = At("answering")]
    /\ UNCHANGED <<online, connected, farewells, observing, inbox, commands, logins>>

JoinFails(u) ==
    /\ IsAt(u, "joining")
    /\ ~MayJoin(u)
    /\ command' = [command EXCEPT ![u] = At("idle")]
    /\ UNCHANGED <<consoleVars, observing, inbox, commands, logins>>

\* It has visited every player of the room who has stayed.
Announced(a) == a.todo \cap members[a.room] = {}

(***************************************************************************)
(* AnnounceJoin writes to one player after the other.  A player who has    *)
(* left is not visited any more; one who has entered since may be.         *)
(***************************************************************************)
AnnounceJoin(a, v) ==
    /\ v \in members[a.room] \ (a.told \cup {a.user})
    /\ ~Announced(a)
    /\ announcing' = (announcing \ {a}) \cup
           {[a EXCEPT !.todo = @ \ {v}, !.told = @ \cup {v}]}
    /\ inbox' = Written({v}, <<Msg("JoinRoom", a.user)>>)
    /\ UNCHANGED <<members, leader, online, connected, gameID, farewells, command,
                   observing, commands, logins>>

\* The players JoinGame then reads for its answer.
Others(a) == IF a.alive THEN members[a.room] \ {a.user} ELSE {}

\* c is what the handler does next, if it still waits for the answer.  A user
\* who has no session when AnnounceJoin looks is not announced at all.
Answer(a, c) ==
    LET u == a.user IN
    /\ Announced(a) \/ (u \notin online /\ a.told = {})
    /\ announcing' = announcing \ {a}
    /\ command' = IF IsAt(u, "answering") THEN [command EXCEPT ![u] = c] ELSE command
    /\ UNCHANGED <<members, leader, online, connected, gameID, farewells, observing,
                   inbox, commands, logins>>

-----------------------------------------------------------------------------

\* The observer takes the next message; the proxy's Handle says what it does.
HasRead(u) == [inbox EXCEPT ![u] = Tail(@)]
Take(u) ==
    /\ u \in observing
    /\ inbox[u] # <<>>
    /\ inbox' = HasRead(u)
    /\ UNCHANGED <<consoleVars, command, commands, logins>>

\* Nothing about room r is on its way to u, and no write to him has failed.
Settled(u, r) ==
    /\ IsAt(u, "idle")
    /\ u \in Hearing
    /\ gameID[u] = r
    /\ inbox[u] = <<>>
    /\ farewells = {}
    /\ \A a \in announcing : a.room # r

=============================================================================
