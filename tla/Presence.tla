------------------------------ MODULE Presence ------------------------------
(***************************************************************************)
(* Who is in the lobby, as the console tells it and as the backends see    *)
(* it.  Around the steps of Sessions this module puts the messages of      *)
(* SetPlayerConnected and SetPlayerDisconnected (console/multiplayer.go)   *)
(* and what a backend makes of them (backend/lobby_event_handler.go).      *)
(*                                                                         *)
(* A websocket keeps the order of what is written to it.  A broadcast      *)
(* writes to one registered session after the other while it holds the     *)
(* read lock of the map: the map does not change meanwhile, but other      *)
(* broadcasts and single messages go on.  A write may fail: the websocket  *)
(* is closed or broken, or the three seconds are over that one context     *)
(* gives to all the writes of a SetPlayerConnected, so that a slow client  *)
(* costs the sessions behind it their messages.  A session whose write has *)
(* failed is not written to again, and stays registered until its read     *)
(* loop comes round.                                                       *)
(*                                                                         *)
(* A backend keeps a list, in which a user may come to stand twice; only   *)
(* who stands in it is modelled.                                           *)
(***************************************************************************)
EXTENDS Sessions, Sequences

VARIABLES
    snapshot,    \* the result of listSessions in each SetPlayerConnected
    sending,     \* the goroutines inside BroadcastMessage
    todo,        \* the sessions each of them has yet to write to
    unread,      \* what has been written to each websocket and not yet read
    connected,   \* UserSession.Connected: no write has failed
    lobbyUsers,  \* SessionState.lobbyUsers of the backend behind each websocket
    overlapped   \* other users registered or deleted while each was listing

messageVars == <<snapshot, sending, todo, unread, connected, lobbyUsers, overlapped>>
presenceVars == <<sessionVars, messageVars>>

-----------------------------------------------------------------------------

Message == [type : {"LobbyUsers", "JoinLobby", "LeaveLobby"}, users : SUBSET User]

PresenceTypeOK ==
    /\ phase \in [Conn -> Phase]
    /\ sessions \in [User -> Conn \cup {NoConn}]
    /\ snapshot \in [Conn -> SUBSET User]
    /\ sending \subseteq Conn
    /\ todo \in [Conn -> SUBSET Conn]
    /\ unread \in [Conn -> Seq(Message)]
    /\ connected \in [Conn -> BOOLEAN]
    /\ lobbyUsers \in [Conn -> SUBSET User]
    /\ overlapped \in [Conn -> SUBSET User]

PresenceInit ==
    /\ SessionsInit
    /\ snapshot = [c \in Conn |-> {}]
    /\ sending = {}
    /\ todo = [c \in Conn |-> {}]
    /\ unread = [c \in Conn |-> <<>>]
    /\ connected = [c \in Conn |-> TRUE]
    /\ lobbyUsers = [c \in Conn |-> {}]
    /\ overlapped = [c \in Conn |-> {}]

\* SetPlayerDisconnected begins with CloseNow.
Closed(c) == phase[c] \in {"leaving", "leavingRelay", "deleting", "farewell", "closed"}

\* UserSession.Send: dropped, arrived or failed.
Written(c, type, users) ==
    \/ /\ ~connected[c]
       /\ UNCHANGED <<unread, connected>>
    \/ /\ connected[c]
       /\ ~Closed(c)
       /\ unread' = [unread EXCEPT ![c] = Append(@, [type |-> type, users |-> users])]
       /\ UNCHANGED connected
    \/ /\ connected[c]
       /\ connected' = [connected EXCEPT ![c] = FALSE]
       /\ UNCHANGED unread

\* The goroutines between listSessions and the LobbyUsers message.
Listing(c) == phase[c] \in {"checking", "adding", "replying"}

Overlaps(u) ==
    overlapped' = [c \in Conn |-> IF Listing(c) /\ UserOf[c] # u
                                  THEN overlapped[c] \cup {u}
                                  ELSE overlapped[c]]

-----------------------------------------------------------------------------
(***************************************************************************)
(* SetPlayerConnected.                                                     *)
(***************************************************************************)
List(c) ==
    /\ ListSessions(c)
    /\ snapshot' = [snapshot EXCEPT ![c] = {u \in User : Registered(u)}]
    /\ UNCHANGED <<sending, todo, unread, connected, lobbyUsers, overlapped>>

\* The write lock waits for every broadcast.
Register(c) ==
    /\ sending = {}
    /\ SetUserSession(c)
    /\ Overlaps(UserOf[c])
    /\ UNCHANGED <<snapshot, sending, todo, unread, connected, lobbyUsers>>

\* The player itself is appended to the list.
Reply(c) ==
    /\ SendLobbyUsers(c)
    /\ Written(c, "LobbyUsers", snapshot[c] \cup {UserOf[c]})
    /\ UNCHANGED <<snapshot, sending, todo, lobbyUsers, overlapped>>

(***************************************************************************)
(* SetPlayerDisconnected.                                                  *)
(***************************************************************************)
Unregister(c) ==
    /\ sending = {}
    /\ DeleteUserSession(c)
    /\ Overlaps(UserOf[c])
    /\ UNCHANGED <<snapshot, sending, todo, unread, connected, lobbyUsers>>

(***************************************************************************)
(* BroadcastMessage, as the last step of either.                           *)
(***************************************************************************)
StartBroadcast(c) ==
    /\ phase[c] \in {"announcing", "farewell"}
    /\ c \notin sending
    /\ sending' = sending \cup {c}
    /\ todo' = [todo EXCEPT ![c] = {sessions[u] : u \in User} \ {NoConn}]
    /\ UNCHANGED <<sessionVars, snapshot, unread, connected, lobbyUsers, overlapped>>

SendTo(c, d) ==
    /\ c \in sending
    /\ d \in todo[c]
    /\ todo' = [todo EXCEPT ![c] = @ \ {d}]
    /\ Written(d, IF phase[c] = "announcing" THEN "JoinLobby" ELSE "LeaveLobby",
               {UserOf[c]})
    /\ UNCHANGED <<sessionVars, snapshot, sending, lobbyUsers, overlapped>>

EndBroadcast(c) ==
    /\ c \in sending
    /\ todo[c] = {}
    /\ BroadcastJoin(c) \/ BroadcastLeave(c)
    /\ sending' = sending \ {c}
    /\ UNCHANGED <<snapshot, todo, unread, connected, lobbyUsers, overlapped>>

(***************************************************************************)
(* The backend: LobbyUsers replaces the list, JoinLobby appends to it      *)
(* unless it is about the backend's own user, LeaveLobby deletes.          *)
(***************************************************************************)
\* Mutation: a departure deletes the backend's own user.
HandledWrongUser(c, m) ==
    CASE m.type = "LobbyUsers" -> m.users
      [] m.type = "JoinLobby"  -> lobbyUsers[c] \cup (m.users \ {UserOf[c]})
      [] m.type = "LeaveLobby" -> lobbyUsers[c] \ {UserOf[c]}

Handled(c, m) ==
    CASE m.type = "LobbyUsers" -> m.users
      [] m.type = "JoinLobby"  -> lobbyUsers[c] \cup (m.users \ {UserOf[c]})
      [] m.type = "LeaveLobby" -> lobbyUsers[c] \ m.users

Receive(c) ==
    /\ unread[c] # <<>>
    /\ ~Closed(c)
    /\ lobbyUsers' = [lobbyUsers EXCEPT ![c] = Handled(c, Head(unread[c]))]
    /\ unread' = [unread EXCEPT ![c] = Tail(unread[c])]
    /\ UNCHANGED <<sessionVars, snapshot, sending, todo, connected, overlapped>>

-----------------------------------------------------------------------------

\* The remaining steps of Sessions, which send no message modelled here.
Silent(c) ==
    /\ \/ HandleHello(c)
       \/ connected[c] /\ HandleJoinLobby(c)
       \/ HandshakeFails(c)
       \/ FindUserSession(c)
       \/ LeaveGame(c)
       \/ LeaveRelay(c)
    /\ UNCHANGED messageVars

\* A write of any other message fails: Welcome and JoinedLobby, and what is told
\* of games.
OtherWriteFails(c) ==
    /\ connected[c]
    /\ phase[c] \in {"greeted", "listing"} \/ sessions[UserOf[c]] = c
    /\ connected' = [connected EXCEPT ![c] = FALSE]
    /\ UNCHANGED <<sessionVars, snapshot, sending, todo, unread, lobbyUsers, overlapped>>

\* What is left unread in the closed websocket is lost.
Disconnect(c) ==
    /\ StopServing(c)
    /\ unread' = [unread EXCEPT ![c] = <<>>]
    /\ UNCHANGED <<snapshot, sending, todo, connected, lobbyUsers, overlapped>>

PresenceNext ==
    \E c \in Conn :
        \/ Silent(c)
        \/ OtherWriteFails(c)
        \/ List(c)
        \/ Register(c)
        \/ Reply(c)
        \/ StartBroadcast(c)
        \/ \E d \in Conn : SendTo(c, d)
        \/ EndBroadcast(c)
        \/ Disconnect(c)
        \/ Unregister(c)
        \/ Receive(c)

PresenceSpec == PresenceInit /\ [][PresenceNext]_presenceVars

\* A user opens a websocket only after the goroutine of the last one is gone.
OneAtATime ==
    \A c, d \in Conn :
        c # d /\ UserOf[c] = UserOf[d] =>
            phase[c] \in {"accepted", "closed"} \/ phase[d] \in {"accepted", "closed"}

OneAtATimeSpec == PresenceInit /\ [][PresenceNext /\ OneAtATime']_presenceVars

-----------------------------------------------------------------------------

\* A backend that has read everything the console wrote, with no broadcast
\* on its way.
Caught(c) ==
    /\ phase[c] = "serving"
    /\ connected[c]
    /\ unread[c] = <<>>
    /\ \A d \in Conn : phase[d] \notin {"replying", "announcing", "farewell"}

\* "Expect the character info, then join and synchronise the state"
\* (HandleSession), as far as the order of listSessions, AddUserSession and
\* the broadcasts achieves it: a backend that has read everything is wrong at
\* most about users who were registered or deleted between its own
\* listSessions and its LobbyUsers message.  This is of sessions to which no
\* write has failed; the others miss what they miss ("There is no logic to
\* disconnect and remove the failing session", session.go Send), and are
\* registered for everybody else all the same.
SynchronisedButForOverlaps ==
    \A c \in Conn, u \in User : Caught(c) /\ u \notin overlapped[c] =>
        (u \in lobbyUsers[c] <=> Registered(u))

=============================================================================
