----------------------------- MODULE RelayServer -----------------------------
(***************************************************************************)
(* The relay server of the console (console/relay_server.go): QUIC         *)
(* connections of players, gathered in relay rooms.                        *)
(*                                                                         *)
(* Every accepted connection gets a goroutine: handshake, joinRoom, the    *)
(* read loop, leaveRoom.  A Link is one connection with its goroutine.     *)
(* Nothing stops a user from having several links: a backend that changes  *)
(* rooms closes one and opens the next, and the server may learn of the    *)
(* two in either order.                                                    *)
(*                                                                         *)
(* The mutex mu is held through joinRoom and through leaveRoom, also while *)
(* they send on the unbuffered channel Events, so each is one action, and  *)
(* no other may start until its events have been received.  (A goroutine   *)
(* is here done with joinRoom or leaveRoom before its events are taken;    *)
(* nobody can tell, since whatever it does next needs the mutex.)          *)
(*                                                                         *)
(* The lobby is present by what it does to the relay: the map of sessions, *)
(* and SetPlayerDisconnected calling leaveRoom with some room.  Packets    *)
(* forwarded from peer to peer change no state of the server and are left  *)
(* out.  cleanupPeers is never started.                                    *)
(***************************************************************************)
EXTENDS Sequences

CONSTANTS
    Link,      \* the QUIC connections
    User,      \* the peer IDs, which are user IDs
    LinkUser,  \* FromID of the join packet on each link
    Room,      \* the room IDs
    NoLink,    \* no entry in Room.Peers
    NoRoom     \* no entry in peerToRoomIDs

ASSUME LinkAssumption ==
    /\ LinkUser \in [Link -> User]
    /\ NoLink \notin Link
    /\ NoRoom \notin Room

VARIABLES
    online,         \* the users in Multiplayer.sessions
    loop,           \* how far the goroutine of each link has come
    broken,         \* the links whose stream either side has closed
    dest,           \* RoomID of the join packet
    rooms,          \* the keys of RelayServer.rooms
    peers,          \* Room.Peers
    peerToRoomIDs,  \* RelayServer.peerToRoomIDs
    told,           \* the users whose join was announced on each link
    events,         \* what the holder of mu has yet to send on Events
    seen            \* history: the rooms as the events received so far tell them

roomVars == <<rooms, peers, peerToRoomIDs, told, events>>
vars == <<online, loop, broken, dest, roomVars, seen>>

-----------------------------------------------------------------------------

Loop == {
    "connecting",  \* handshake is to read the join packet
    "welcomed",    \* joinRoom is to be called
    "reading",     \* relayLoop
    "leaving",     \* relayLoop is to call leaveRoom
    "gone" }       \* the goroutine has returned

RelayEvent == [type : {"join", "leave", "delete"}, peer : User, room : Room]

Event(type, u, r) == [type |-> type, peer |-> u, room |-> r]

TypeOK ==
    /\ online \subseteq User
    /\ loop \in [Link -> Loop]
    /\ broken \subseteq Link
    /\ dest \in [Link -> Room \cup {NoRoom}]
    /\ rooms \subseteq Room
    /\ peers \in [Room -> [User -> Link \cup {NoLink}]]
    /\ peerToRoomIDs \in [User -> Room \cup {NoRoom}]
    /\ told \in [Link -> SUBSET User]
    /\ events \in Seq(RelayEvent)
    /\ seen \in [Room -> SUBSET User]

Members(r) == {u \in User : peers[r][u] # NoLink}

\* Nobody holds the mutex.
Unlocked == events = <<>>

Init ==
    /\ online = {}
    /\ loop = [l \in Link |-> "connecting"]
    /\ broken = {}
    /\ dest = [l \in Link |-> NoRoom]
    /\ rooms = {}
    /\ peers = [r \in Room |-> [u \in User |-> NoLink]]
    /\ peerToRoomIDs = [u \in User |-> NoRoom]
    /\ told = [l \in Link |-> {}]
    /\ events = <<>>
    /\ seen = [r \in Room |-> {}]

(***************************************************************************)
(* The handshake asks the lobby for the session before it takes mu.        *)
(***************************************************************************)
Handshake(l, r) ==
    /\ loop[l] = "connecting"
    /\ LinkUser[l] \in online
    /\ loop' = [loop EXCEPT ![l] = "welcomed"]
    /\ dest' = [dest EXCEPT ![l] = r]
    /\ UNCHANGED <<online, broken, roomVars, seen>>

\* No stream, an unreadable or foreign packet, or no session: closeStream.
HandshakeFails(l) ==
    /\ loop[l] = "connecting"
    /\ loop' = [loop EXCEPT ![l] = "gone"]
    /\ broken' = broken \cup {l}
    /\ UNCHANGED <<online, dest, roomVars, seen>>

(***************************************************************************)
(* joinRoom: the room is made when missing, the peer takes the place of an *)
(* earlier link of the same user, everybody else there is told.            *)
(***************************************************************************)
\* Mutation: the loop over the peers breaks at the peer's own entry instead of
\* skipping it, wherever the order of the map puts it.
JoinRoomBreaks(l) ==
    LET r == dest[l]
        u == LinkUser[l]
    IN  /\ loop[l] = "welcomed"
        /\ Unlocked
        /\ loop' = [loop EXCEPT ![l] = "reading"]
        /\ rooms' = rooms \cup {r}
        /\ peers' = [peers EXCEPT ![r][u] = l]
        /\ peerToRoomIDs' = [peerToRoomIDs EXCEPT ![u] = r]
        /\ \E before \in SUBSET (User \ {u}) :
               told' = [k \in Link |->
                           IF \E v \in before : peers[r][v] = k
                           THEN told[k] \cup {u}
                           ELSE told[k]]
        /\ events' = <<Event("join", u, r)>>
        /\ UNCHANGED <<online, broken, dest, seen>>

JoinRoom(l) ==
    LET r == dest[l]
        u == LinkUser[l]
    IN  /\ loop[l] = "welcomed"
        /\ Unlocked
        /\ loop' = [loop EXCEPT ![l] = "reading"]
        /\ rooms' = rooms \cup {r}
        /\ peers' = [peers EXCEPT ![r][u] = l]
        /\ peerToRoomIDs' = [peerToRoomIDs EXCEPT ![u] = r]
        /\ told' = [k \in Link |->
                       IF \E v \in User \ {u} : peers[r][v] = k
                       THEN told[k] \cup {u}
                       ELSE told[k]]
        /\ events' = <<Event("join", u, r)>>
        /\ UNCHANGED <<online, broken, dest, seen>>

(***************************************************************************)
(* leaveRoom(u, r), whoever calls it.  It returns early when the user has  *)
(* no entry in peerToRoomIDs, deletes that entry whatever room it names,   *)
(* and then takes from room r whichever link the user has there.           *)
(***************************************************************************)
\* Mutation: "delete" is sent before "leave".
RemovePeerDeletesFirst(u, r) ==
    /\ broken' = broken \cup {peers[r][u]}
    /\ peers' = [peers EXCEPT ![r][u] = NoLink]
    /\ IF Members(r) \subseteq {u}
       THEN /\ rooms' = rooms \ {r}
            /\ events' = <<Event("delete", u, r), Event("leave", u, r)>>
       ELSE /\ events' = <<Event("leave", u, r)>>
            /\ UNCHANGED rooms

\* Mutation: the empty room stays.
RemovePeerKeepsRoom(u, r) ==
    /\ broken' = broken \cup {peers[r][u]}
    /\ peers' = [peers EXCEPT ![r][u] = NoLink]
    /\ events' = <<Event("leave", u, r)>>
    /\ UNCHANGED rooms

\* Mutation: a room goes with its last peer but one.
RemovePeerClosesEarly(u, r) ==
    LET last == \E v \in Members(r) : Members(r) \subseteq {u, v}
    IN  /\ broken' = broken \cup {peers[r][u]}
        /\ peers' = [peers EXCEPT ![r] =
                        IF last THEN [v \in User |-> NoLink] ELSE [@ EXCEPT ![u] = NoLink]]
        /\ rooms' = IF last THEN rooms \ {r} ELSE rooms
        /\ events' = IF last THEN <<Event("leave", u, r), Event("delete", u, r)>>
                     ELSE <<Event("leave", u, r)>>

RemovePeer(u, r) ==
    /\ broken' = broken \cup {peers[r][u]}
    /\ peers' = [peers EXCEPT ![r][u] = NoLink]
    /\ IF Members(r) \subseteq {u}
       THEN /\ rooms' = rooms \ {r}
            /\ events' = <<Event("leave", u, r), Event("delete", u, r)>>
       ELSE /\ events' = <<Event("leave", u, r)>>
            /\ UNCHANGED rooms

\* Mutation: the entry of peerToRoomIDs is not deleted.
LeaveRoomKeepsIndex(u, r) ==
    /\ Unlocked
    /\ IF peerToRoomIDs[u] # NoRoom /\ r \in rooms /\ u \in Members(r)
       THEN RemovePeer(u, r)
       ELSE UNCHANGED <<broken, rooms, peers, events>>
    /\ UNCHANGED <<online, dest, told, seen, peerToRoomIDs>>

\* Mutation: the peer found is used without the test for nil.
LeaveRoomOfNobody(u, r) ==
    /\ Unlocked
    /\ peerToRoomIDs' = [peerToRoomIDs EXCEPT ![u] = NoRoom]
    /\ IF peerToRoomIDs[u] # NoRoom /\ r \in rooms
       THEN RemovePeer(u, r)
       ELSE UNCHANGED <<broken, rooms, peers, events>>
    /\ UNCHANGED <<online, dest, told, seen>>

LeaveRoom(u, r) ==
    /\ Unlocked
    /\ peerToRoomIDs' = [peerToRoomIDs EXCEPT ![u] = NoRoom]
    /\ IF peerToRoomIDs[u] # NoRoom /\ r \in rooms /\ u \in Members(r)
       THEN RemovePeer(u, r)
       ELSE UNCHANGED <<broken, rooms, peers, events>>
    /\ UNCHANGED <<online, dest, told, seen>>

(***************************************************************************)
(* relayLoop: reading fails once the stream is closed; a leave packet ends *)
(* it as well, unless both its sender and its room are foreign.            *)
(***************************************************************************)
EndReading(l) ==
    /\ loop[l] = "reading"
    /\ loop' = [loop EXCEPT ![l] = "leaving"]
    /\ UNCHANGED <<online, broken, dest, roomVars, seen>>

\* Mutation: the loop goes on after an error of the stream.
ReadFailsGoesOn(l) == l \in broken /\ loop[l] = "reading" /\ UNCHANGED vars

ReadFails(l) == l \in broken /\ EndReading(l)

LeavePacket(l, from, r) == (from = LinkUser[l] \/ r = dest[l]) /\ EndReading(l)

LoopEnds(l) ==
    /\ loop[l] = "leaving"
    /\ loop' = [loop EXCEPT ![l] = "gone"]
    /\ LeaveRoom(LinkUser[l], dest[l])

-----------------------------------------------------------------------------
(***************************************************************************)
(* The surroundings: the receiver of Events, the players, the lobby.       *)
(* handleRelayEvent takes every event and does nothing with it yet; seen   *)
(* is the picture that acting on them, as its comments intend, would give. *)
(***************************************************************************)

Applied(e) ==
    CASE e.type = "join"   -> [seen EXCEPT ![e.room] = @ \cup {e.peer}]
      [] e.type = "leave"  -> [seen EXCEPT ![e.room] = @ \ {e.peer}]
      [] e.type = "delete" -> [seen EXCEPT ![e.room] = {}]

TakeEvent ==
    /\ events # <<>>
    /\ seen' = Applied(Head(events))
    /\ events' = Tail(events)
    /\ UNCHANGED <<online, loop, broken, dest, rooms, peers, peerToRoomIDs, told>>

\* A backend closes its connection, or the idle timeout of QUIC does.
ClientCloses(l) ==
    /\ l \notin broken
    /\ broken' = broken \cup {l}
    /\ UNCHANGED <<online, loop, dest, roomVars, seen>>

SessionAdded(u) ==
    /\ online' = online \cup {u}
    /\ UNCHANGED <<loop, broken, dest, roomVars, seen>>

SessionDeleted(u) ==
    /\ online' = online \ {u}
    /\ UNCHANGED <<loop, broken, dest, roomVars, seen>>

\* SetPlayerDisconnected, before it deletes the session: r is its GameID.
PlayerDisconnected(u, r) ==
    /\ LeaveRoom(u, r)
    /\ UNCHANGED loop

-----------------------------------------------------------------------------

\* Everything but the calls of SetPlayerDisconnected.
RelayStep ==
    \/ \E l \in Link, r \in Room : Handshake(l, r)
    \/ \E l \in Link : HandshakeFails(l)
    \/ \E l \in Link : JoinRoom(l)
    \/ \E l \in Link : ReadFails(l)
    \/ \E l \in Link, from \in User, r \in Room : LeavePacket(l, from, r)
    \/ \E l \in Link : LoopEnds(l)
    \/ TakeEvent
    \/ \E l \in Link : ClientCloses(l)
    \/ \E u \in User : SessionAdded(u)
    \/ \E u \in User : SessionDeleted(u)

Next ==
    \/ RelayStep
    \/ \E u \in User, r \in Room \cup {NoRoom} : PlayerDisconnected(u, r)

Spec == Init /\ [][Next]_vars

-----------------------------------------------------------------------------

\* The index peerToRoomIDs, on which leaveRoom decides whether there is
\* anything to do, never points astray: the room it names lists the user,
\* under a link of that user which joined that room and whose goroutine has
\* yet to call leaveRoom.
IndexedIsMember ==
    \A u \in User : peerToRoomIDs[u] # NoRoom =>
        LET l == peers[peerToRoomIDs[u]][u]
        IN  /\ l # NoLink
            /\ LinkUser[l] = u
            /\ dest[l] = peerToRoomIDs[u]
            /\ loop[l] \in {"reading", "leaving"}

\* A room exists exactly as long as it has peers.
RoomsHavePeers == \A r \in Room : r \in rooms <=> Members(r) # {}

\* Whoever follows the events knows the rooms: with none outstanding its
\* picture is that of the server, and a room is deleted only when it takes
\* the room to be empty already.
EventsTellMembership ==
    /\ Unlocked => \A r \in Room : seen[r] = Members(r)
    /\ ~Unlocked /\ Head(events).type = "delete" => seen[Head(events).room] = {}

\* Of any two peers of a room one has been told that the other joined, on
\* the very link it now has there: nobody is left without the packet on
\* which the backends create their proxies (dynamicJoin).
PairsAreIntroduced ==
    \A r \in Room : \A u, v \in Members(r) :
        u # v => v \in told[peers[r][u]] \/ u \in told[peers[r][v]]

\* Only goroutines of the user itself, the link that joins or a loop that
\* ends, and the lobby on its behalf change a user's place in a room or close
\* a link that is past its handshake.
Acts(u) ==
    \/ \E l \in Link : LinkUser[l] = u /\ (JoinRoom(l) \/ LoopEnds(l))
    \/ \E r \in Room \cup {NoRoom} : PlayerDisconnected(u, r)

OwnPlaceOnly ==
    [][/\ \A r \in Room, u \in User : peers'[r][u] # peers[r][u] => Acts(u)
       /\ \A l \in broken' \ broken :
            ClientCloses(l) \/ HandshakeFails(l) \/ Acts(LinkUser[l])]_vars

-----------------------------------------------------------------------------
(***************************************************************************)
(* Fairness: goroutines that can go on do, the receiver of Events ranges   *)
(* over the channel for ever.  Nobody has to connect or to close.          *)
(***************************************************************************)
Goroutine(l) ==
    \/ l \in broken /\ HandshakeFails(l)
    \/ JoinRoom(l)
    \/ ReadFails(l)
    \/ LoopEnds(l)

FairSpec ==
    Spec /\ WF_vars(TakeEvent) /\ \A l \in Link : WF_vars(Goroutine(l))

\* No goroutine is left behind the mutex or the channel: once its stream is
\* closed it returns.
BrokenLinksEnd == \A l \in Link : l \in broken ~> loop[l] = "gone"

=============================================================================
