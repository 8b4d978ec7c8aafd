------------------------------ MODULE PeerGames ------------------------------
(***************************************************************************)
(* The peer-to-peer proxy (backend/proxy/p2p) as the backend runs it.  The *)
(* players of a room are to reach each other over WebRTC connections, each *)
(* other player standing behind an address of the loopback network.        *)
(* Whoever is told that a player has joined makes a peer for him, the      *)
(* redirects between his address and the connection, and then an offer.    *)
(*                                                                         *)
(* It does not come to an offer.  Of the two redirects to somebody who has *)
(* joined NewTCPRedirect listens on the UDP port that NewUDPRedirect then  *)
(* cannot have.  And nobody would read the offer: the handler is made      *)
(* before its user has logged in, takes himself for user 0 and drops what  *)
(* is to anybody else.  So there is no signalling here, and what is left   *)
(* is what the proxy knows: the peers, their addresses and the host.       *)
(*                                                                         *)
(* An error of Handle ends the observer loop, and the session goes on      *)
(* deaf.  What a game already in a room does besides playing is LanGames'  *)
(* subject: here it plays.                                                 *)
(***************************************************************************)
EXTENDS Games

CONSTANTS
    RingSize,   \* ringSize
    NoGame,     \* GameManager.Game is nil
    NoPeer      \* no entry in Game.Peers

VARIABLES
    game,    \* GameManager.Game: its ID and Host
    taken,   \* how often the game's IpRing was asked
    peers,   \* Game.Peers: the address of each, 0 for 127.0.0.1
    fate,    \* how the session's handlers have ended
    raced    \* history: a race the code leaves open has happened

proxyVars == <<game, taken, peers, fate, raced>>
vars == <<gameVars, proxyVars>>

-----------------------------------------------------------------------------

Peer == 0..RingSize

Game == [id : Room, host : User]

ASSUME PeerGamesAssumption ==
    /\ RingSize \in Nat \ {0}
    /\ IsFiniteSet(User)
    /\ NoPeer \notin Peer
    /\ NoGame \notin Game

TypeOK ==
    /\ GamesTypeOK
    /\ inbox \in [User -> Seq(Message)]
    /\ game \in [User -> Game \cup {NoGame}]
    /\ taken \in [User -> 0..2 * RingSize]
    /\ peers \in [User -> [User -> Peer \cup {NoPeer}]]
    /\ fate \in [User -> {"fine", "deaf", "failed", "panic"}]
    /\ raced \in BOOLEAN

Nobodies == [v \in User |-> NoPeer]

Init ==
    /\ GamesInit
    /\ game = [u \in User |-> NoGame]
    /\ taken = [u \in User |-> 0]
    /\ peers = [u \in User |-> Nobodies]
    /\ fate = [u \in User |-> "fine"]
    /\ raced = FALSE

Known(u) == {v \in User : peers[u][v] # NoPeer}

-----------------------------------------------------------------------------
(* IpRing and GameManager *)

\* After n more calls of NextAddr; above RingSize the ring has wrapped.
Turned(t, n) ==
    IF t + n > 2 * RingSize THEN RingSize + 1 + ((t + n - 1) % RingSize) ELSE t + n

\* Mutation: the ring stays where it is.
NextAddrStays(t) == 1

\* NextAddr of a ring asked t times before.
NextAddr(t) == (t % RingSize) + 1

\* Reset, then the game g, whose ring is asked for each peer of ps in turn.
Reset(u, g, t, ps) ==
    /\ game' = [game EXCEPT ![u] = g]
    /\ taken' = [taken EXCEPT ![u] = t]
    /\ peers' = [peers EXCEPT ![u] = ps]

NoReset == UNCHANGED <<game, taken, peers>>

\* History: u has yet to read that v has joined.
JoinUnread(u, v) ==
    \/ \E a \in announcing : a.user = v /\ u \notin a.told
    \/ Msg("JoinRoom", v) \in Range(inbox[u])

\* History.  bound: no property speaks of what follows a race.
RaceIf(b) == ~raced /\ raced' = b

\* What the proxy has no part in.
Aside == RaceIf(FALSE) /\ UNCHANGED <<game, taken, peers, fate>>

-----------------------------------------------------------------------------
(* PeerToPeer, in the commands *)

PeerLogin(u) ==
    /\ Login(u)
    /\ fate' = [fate EXCEPT ![u] = "fine"]
    /\ RaceIf(FALSE) /\ UNCHANGED <<game, taken, peers>>

\* CloseSession: the proxy is closed and gone.
PeerEnd(u, how) ==
    /\ End(u)
    /\ Reset(u, NoGame, 0, Nobodies)
    /\ fate' = [fate EXCEPT ![u] = how]

PeerEndSession(u) ==
    /\ EndSession(u)
    /\ Reset(u, NoGame, 0, Nobodies)
    /\ RaceIf(FALSE) /\ UNCHANGED fate

PeerCreateGame(u, r) ==
    /\ gameID[u] = NoRoom
    /\ CreateGame(u, r)
    /\ Reset(u, [id |-> r, host |-> u], 0, Nobodies)
    /\ RaceIf(FALSE) /\ UNCHANGED fate

\* History: what u looked at has changed.
\* The players of the snapshot get their peers in whichever order they come.
PeerSelect(u) ==
    LET r == command[u].room
        host == command[u].host
        players == command[u].players
        others == players \ ({u} \cap {host})
    IN
    /\ Selected(u)
    /\ \E place \in Bijection(others, 0..Cardinality(others) - 1) :
          Reset(u, [id |-> r, host |-> host], Turned(0, Cardinality(others)),
                [v \in User |-> IF v \in others THEN NextAddr(place[v])
                                ELSE IF v \in players THEN 0 ELSE NoPeer])
    /\ RaceIf(players # members[r] \/ host # leader[r])
    /\ UNCHANGED fate

PeerSelectFails(u) ==
    /\ SelectFails(u)
    /\ Reset(u, NoGame, 0, Nobodies)
    /\ RaceIf(FALSE) /\ UNCHANGED fate

\* The proxy's Join adds a peer for the user himself.
PeerJoinGame(u, r) ==
    /\ game[u] # NoGame
    /\ gameID[u] = NoRoom
    /\ JoinGame(u, r)
    /\ peers' = [peers EXCEPT ![u][u] = 0]
    /\ RaceIf(FALSE) /\ UNCHANGED <<game, taken, fate>>

\* History: somebody entered, or the host changed, since u looked, or it was
\* another room u looked at; or somebody's joining is still being announced, so
\* that two players may each be told of the other.
PeerJoinRoom(u) ==
    LET r == command[u].room
        joining == {a.user : a \in {b \in announcing : b.room = r}}
    IN
    /\ JoinRoom(u)
    /\ RaceIf(\/ joining # {}
              \/ ~(members[r] \subseteq Known(u))
              \/ game[u] # [id |-> r, host |-> leader[r]])
    /\ UNCHANGED <<game, taken, peers, fate>>

PeerAnswer(a) ==
    /\ Answer(a, [At("connecting") EXCEPT !.players = Others(a)])
    /\ Aside

(***************************************************************************)
(* ConnectToPlayer for one player after the other: it waits three seconds  *)
(* for a connection that does not come and then returns the address all    *)
(* the same, but a player who has no peer (any more) is an error.          *)
(***************************************************************************)
ConnectToPlayers(u) ==
    /\ IsAt(u, "connecting")
    /\ command[u].players \subseteq Known(u)
    /\ command' = [command EXCEPT ![u] = At("idle")]
    /\ Aside
    /\ UNCHANGED <<consoleVars, observing, inbox, commands, logins>>

\* History: a player missing has left since, whether he is back by now or not,
\* or u has not heard of him yet, or cannot.
ConnectFails(u) ==
    LET missing == command[u].players \ Known(u) IN
    /\ IsAt(u, "connecting")
    /\ missing # {}
    /\ PeerEnd(u, "failed")
    /\ RaceIf(\/ u \notin connected
              \/ \E v \in missing : v \notin members[game[u].id] \/ JoinUnread(u, v))

-----------------------------------------------------------------------------
(* PeerToPeerMessageHandler *)

Fine(u) == inbox' = HasRead(u) /\ UNCHANGED <<observing, fate>>

\* An error of Handle: the observer loop returns, and nothing reads the inbox.
Deafened(u) ==
    /\ observing' = observing \ {u}
    /\ inbox' = [inbox EXCEPT ![u] = <<>>]
    /\ fate' = [fate EXCEPT ![u] = "deaf"]

Deaf(u) == Deafened(u) /\ NoReset

Ignored(u) == Fine(u) /\ NoReset

\* CreatePeer and AddPeer, then the redirects: only to the host can both be
\* made.  The peer stays all the same.
MakePeer(u, v) ==
    /\ peers' = [peers EXCEPT ![u][v] = NextAddr(taken[u])]
    /\ taken' = [taken EXCEPT ![u] = Turned(@, 1)]
    /\ UNCHANGED game
    /\ IF v = game[u].host THEN Fine(u) ELSE Deafened(u)

\* Who has a peer has a connection with it, but for the user himself, who is
\* never announced to himself.
HandleJoinRoom(u, v) ==
    IF game[u] = NoGame THEN Deaf(u)
    ELSE IF v \in Known(u) THEN Ignored(u)
    ELSE MakePeer(u, v)

\* Mutation: who leaves has to be a peer.
HandleLeaveRoomStrict(u, v) ==
    IF peers[u][v] = NoPeer THEN Deaf(u)
    ELSE /\ peers' = [peers EXCEPT ![u][v] = NoPeer]
         /\ Fine(u) /\ UNCHANGED <<game, taken>>

\* The connection of a peer who leaves is not terminated.  The handler spares
\* user 0, not its own.
HandleLeaveRoom(u, v) ==
    IF peers[u][v] = NoPeer THEN Ignored(u)
    ELSE /\ peers' = [peers EXCEPT ![u][v] = NoPeer]
         /\ Fine(u) /\ UNCHANGED <<game, taken>>

Panic(u) == PeerEnd(u, "panic")
Migrated == UNCHANGED <<consoleVars, command, commands, logins, taken>>

\* Mutation: the host of the game stays who it was.
HandleHostMigrationForgets(u, v) ==
    IF peers[u][v] = NoPeer THEN Panic(u)
    ELSE Fine(u) /\ Migrated /\ UNCHANGED <<peers, game>>

\* A new host who is not among the peers is a panic.
HandleHostMigration(u, v) ==
    IF peers[u][v] = NoPeer THEN Panic(u)
    ELSE /\ game' = [game EXCEPT ![u].host = v]
         /\ Fine(u) /\ Migrated /\ UNCHANGED peers

\* History: v's departure is in u's inbox, from the i-th message on.
DepartureRead(u, v, i) ==
    \E j \in i..Len(inbox[u]) :
        inbox[u][j].type \in {"LeaveRoom", "LeaveLobby"} /\ inbox[u][j].user = v

\* History: m comes too late or too early to be right.
Races(u, m) ==
    LET present == game[u] # NoGame /\ m.user \in members[game[u].id] \cup {u} IN
    CASE m.type = "JoinRoom" ->
                ~present /\ m.user \notin farewells /\ ~DepartureRead(u, m.user, 2)
      [] m.type \in {"LeaveRoom", "LeaveLobby"} -> present
      [] m.type = "HostMigration" ->
                JoinUnread(u, m.user) \/ (peers[u][m.user] = NoPeer /\ ~present)

Observed(u, m) ==
    \/ /\ m.type = "JoinRoom"
       /\ HandleJoinRoom(u, m.user)
    \/ /\ m.type \in {"LeaveRoom", "LeaveLobby"}
       /\ HandleLeaveRoom(u, m.user)

Handle(u) ==
    LET m == Head(inbox[u]) IN
    /\ u \in observing
    /\ inbox[u] # <<>>
    /\ IF m.type = "HostMigration"
       THEN HandleHostMigration(u, m.user)
       ELSE Observed(u, m) /\ UNCHANGED <<consoleVars, command, commands, logins>>
    /\ RaceIf(Races(u, m))

-----------------------------------------------------------------------------

Next ==
    \/ \E u \in User :
          \/ PeerLogin(u) \/ PeerEndSession(u)
          \/ PeerSelect(u) \/ PeerSelectFails(u) \/ PeerJoinRoom(u)
          \/ ConnectToPlayers(u) \/ ConnectFails(u) \/ Handle(u)
          \/ Disconnect(u) /\ Aside
          \/ SendFails(u) /\ Aside
          \/ BroadcastLeave(u) /\ Aside
          \/ CreateRoom(u) /\ Aside
          \/ GetGame(u) /\ Aside
          \/ JoinFails(u) /\ Aside
          \/ \E r \in Room : gameID[u] = NoRoom /\ SelectGame(u, r) /\ Aside
          \/ \E r \in Room : PeerCreateGame(u, r) \/ PeerJoinGame(u, r)
    \/ \E a \in announcing :
          \/ \E v \in User : AnnounceJoin(a, v) /\ Aside
          \/ PeerAnswer(a)

Spec == Init /\ [][Next]_vars

-----------------------------------------------------------------------------
(* Properties *)

Quiet(u, r) ==
    /\ Settled(u, r)
    /\ game[u] # NoGame /\ game[u].id = r

\* Once nothing is on its way, the peers of a game whose proxy still listens
\* are the players of the room, and its host is the console's
\* (event_handler.go handleJoinRoom, handleLeaveRoom, handleHostMigration).
PeersAgree ==
    \A u \in User, r \in Room :
        ~raced /\ Quiet(u, r) => /\ Known(u) \cup {u} = members[r]
                                 /\ game[u].host = leader[r]

\* No two peers of a game share an address before the ring has wrapped
\* (ip_ring.go NextAddr).
AddressesFree ==
    \A u \in User : taken[u] <= RingSize =>
        \A v, w \in Known(u) :
            v # w /\ peers[u][v] = peers[u][w] => peers[u][v] = 0

\* The news of a player who has joined, whom u has no peer for yet.
Newcomer(u) ==
    /\ game[u] # NoGame
    /\ \E v \in User \ Known(u) : inbox[u] # <<>> /\ Head(inbox[u]) = Msg("JoinRoom", v)

\* But for the news of somebody who has joined, a session goes deaf, fails or
\* panics only in a game some race has hit: a new host has a peer, and so has
\* everybody a game is to connect to (event_handler.go handleHostMigration,
\* p2p.go ConnectToPlayer).
OnlyRacesHurt ==
    [][\A u \in User : fate'[u] \notin {fate[u], "fine"} =>
           raced' \/ (fate'[u] = "deaf" /\ Newcomer(u))]_vars

\* "createDataChannels initializes WebRTC data channels for TCP and UDP"
\* (peer.go:131): the news of a guest ends in an offer to him, and the session
\* goes on listening (event_handler.go handleJoinRoom).
GuestsAreConnected ==
    \A u \in User : fate[u] = "deaf" => raced

=============================================================================
