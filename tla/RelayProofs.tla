---------------------------- MODULE RelayProofs ----------------------------
(***************************************************************************)
(* Proofs about RelayServer, for any number of users, links and rooms.     *)
(***************************************************************************)
EXTENDS RelayServer, TLAPS

\* A goroutine that is past its handshake and not gone has a room.
HasRoom ==
    \A l \in Link : loop[l] \in {"welcomed", "reading", "leaving"} => dest[l] \in Room

\* A peer is a link of its user that has joined that very room.
Joined ==
    \A r \in Room, u \in User : peers[r][u] # NoLink =>
        LET l == peers[r][u]
        IN  LinkUser[l] = u /\ dest[l] = r /\ loop[l] \in {"reading", "leaving", "gone"}

\* How the picture of the receiver and the rooms differ by the events that
\* have not been received yet.
Grows(u, r) == \A q \in Room : Members(q) = seen[q] \cup (IF q = r THEN {u} ELSE {})

Shrinks(u, r) == \A q \in Room : Members(q) = seen[q] \ (IF q = r THEN {u} ELSE {})

Agrees == \A q \in Room : Members(q) = seen[q]

Outstanding ==
    \/ events = <<>> /\ Agrees
    \/ \E u \in User, r \in Room :
        \/ events = <<Event("join", u, r)>> /\ Grows(u, r)
        \/ events = <<Event("leave", u, r)>> /\ Shrinks(u, r)
        \/ /\ events = <<Event("leave", u, r), Event("delete", u, r)>>
           /\ Shrinks(u, r)
           /\ Members(r) = {}
        \/ events = <<Event("delete", u, r)>> /\ Agrees /\ Members(r) = {}

IInv ==
    /\ TypeOK
    /\ HasRoom
    /\ Joined
    /\ IndexedIsMember
    /\ RoomsHavePeers
    /\ Outstanding
    /\ PairsAreIntroduced

LEMMA InitHolds == Init => IInv
BY LinkAssumption
   DEF Init, IInv, TypeOK, Loop, HasRoom, Joined, IndexedIsMember, RoomsHavePeers,
       Outstanding, Agrees, PairsAreIntroduced, Members

-----------------------------------------------------------------------------

\* The steps that change no room: the handshake, the end of the read loop
\* and what the surroundings do.
Quiet ==
    \/ \E l \in Link, r \in Room : Handshake(l, r)
    \/ \E l \in Link : HandshakeFails(l) \/ EndReading(l) \/ ClientCloses(l)
    \/ \E u \in User : SessionAdded(u) \/ SessionDeleted(u)

LEMMA QuietTypeOK ==
    ASSUME TypeOK, Quiet
    PROVE  TypeOK'
<1>1. UNCHANGED <<rooms, peers, peerToRoomIDs, told, events, seen>>
  BY DEF Quiet, Handshake, HandshakeFails, EndReading, ClientCloses, SessionAdded,
         SessionDeleted, roomVars
<1>2. ASSUME NEW l \in Link, NEW r \in Room, Handshake(l, r)
      PROVE  online' \subseteq User /\ loop' \in [Link -> Loop] /\ broken' \subseteq Link
             /\ dest' \in [Link -> Room \cup {NoRoom}]
  BY <1>2 DEF TypeOK, Handshake, Loop
<1>3. ASSUME NEW l \in Link, HandshakeFails(l) \/ EndReading(l) \/ ClientCloses(l)
      PROVE  online' \subseteq User /\ loop' \in [Link -> Loop] /\ broken' \subseteq Link
             /\ dest' \in [Link -> Room \cup {NoRoom}]
  BY <1>3 DEF TypeOK, HandshakeFails, EndReading, ClientCloses, Loop
<1>4. ASSUME NEW u \in User, SessionAdded(u) \/ SessionDeleted(u)
      PROVE  online' \subseteq User /\ loop' \in [Link -> Loop] /\ broken' \subseteq Link
             /\ dest' \in [Link -> Room \cup {NoRoom}]
  BY <1>4 DEF TypeOK, SessionAdded, SessionDeleted
<1>. QED
  BY <1>1, <1>2, <1>3, <1>4 DEF TypeOK, Quiet

\* A goroutine that has joined a room stays so, in the same room.
LEMMA QuietKeepsJoined ==
    ASSUME TypeOK, Quiet, NEW l \in Link
    PROVE  /\ loop[l] \in {"reading", "leaving"} =>
                dest'[l] = dest[l] /\ loop'[l] \in {"reading", "leaving"}
           /\ loop[l] = "gone" => dest'[l] = dest[l] /\ loop'[l] = "gone"
           /\ loop'[l] \in {"welcomed", "reading", "leaving"} =>
                dest'[l] \in Room \/ (dest'[l] = dest[l] /\ loop[l] \in {"reading", "leaving", "welcomed"})
BY DEF TypeOK, Quiet, Handshake, HandshakeFails, EndReading, ClientCloses, SessionAdded,
       SessionDeleted, Loop, roomVars

LEMMA QuietInvariance ==
    ASSUME IInv, Quiet
    PROVE  IInv'
<1>1. UNCHANGED roomVars /\ UNCHANGED seen
  BY DEF Quiet, Handshake, HandshakeFails, EndReading, ClientCloses, SessionAdded,
         SessionDeleted
<1>2. UNCHANGED <<rooms, peers, peerToRoomIDs, told, events, seen>>
  BY <1>1 DEF roomVars
<1>3. TypeOK'
  BY QuietTypeOK DEF IInv
<1>4. HasRoom'
  BY QuietKeepsJoined DEF IInv, HasRoom
<1>5. Joined'
  <2>. SUFFICES ASSUME NEW r \in Room, NEW u \in User, peers[r][u] # NoLink
                PROVE  /\ LinkUser[peers[r][u]] = u
                       /\ dest'[peers[r][u]] = r
                       /\ loop'[peers[r][u]] \in {"reading", "leaving", "gone"}
    BY <1>2 DEF Joined
  <2>1. peers[r][u] \in Link
    BY DEF IInv, TypeOK
  <2>. QED
    BY <2>1, QuietKeepsJoined DEF IInv, Joined
<1>6. IndexedIsMember'
  <2>. SUFFICES ASSUME NEW u \in User, peerToRoomIDs[u] # NoRoom
                PROVE  LET l == peers[peerToRoomIDs[u]][u]
                       IN  /\ l # NoLink
                           /\ LinkUser[l] = u
                           /\ dest'[l] = peerToRoomIDs[u]
                           /\ loop'[l] \in {"reading", "leaving"}
    BY <1>2 DEF IndexedIsMember
  <2>1. peers[peerToRoomIDs[u]][u] \in Link
    BY DEF IInv, TypeOK, IndexedIsMember
  <2>. QED
    BY <2>1, QuietKeepsJoined DEF IInv, IndexedIsMember
<1>7. RoomsHavePeers' /\ Outstanding' /\ PairsAreIntroduced'
  BY <1>2 DEF IInv, RoomsHavePeers, Outstanding, Agrees, Grows, Shrinks, Members,
              PairsAreIntroduced
<1>. QED
  BY <1>3, <1>4, <1>5, <1>6, <1>7 DEF IInv

-----------------------------------------------------------------------------

LEMMA EventIsRelayEvent ==
    ASSUME NEW type \in {"join", "leave", "delete"}, NEW u \in User, NEW r \in Room
    PROVE  Event(type, u, r) \in RelayEvent
BY DEF Event, RelayEvent

(***************************************************************************)
(* joinRoom.                                                               *)
(***************************************************************************)
LEMMA JoinEffect ==
    ASSUME TypeOK, HasRoom, NEW l \in Link, JoinRoom(l)
    PROVE  /\ dest[l] \in Room /\ LinkUser[l] \in User
           /\ loop[l] = "welcomed" /\ loop' = [loop EXCEPT ![l] = "reading"]
           /\ \A r \in Room, u \in User :
                peers'[r][u] = IF r = dest[l] /\ u = LinkUser[l] THEN l ELSE peers[r][u]
           /\ \A r \in Room :
                Members(r)' = Members(r) \cup (IF r = dest[l] THEN {LinkUser[l]} ELSE {})
           /\ TypeOK'
<1>1. dest[l] \in Room /\ LinkUser[l] \in User
  BY LinkAssumption DEF HasRoom, JoinRoom
<1>2. \A r \in Room, u \in User :
        peers'[r][u] = IF r = dest[l] /\ u = LinkUser[l] THEN l ELSE peers[r][u]
  BY <1>1 DEF JoinRoom, TypeOK
<1>3. ASSUME NEW r \in Room
      PROVE  Members(r)' = Members(r) \cup (IF r = dest[l] THEN {LinkUser[l]} ELSE {})
  BY <1>1, <1>2, LinkAssumption DEF Members
<1>4. events' \in Seq(RelayEvent)
  BY <1>1, EventIsRelayEvent DEF JoinRoom
<1>5. told' \in [Link -> SUBSET User]
  BY <1>1 DEF JoinRoom, TypeOK
<1>6. TypeOK'
  BY <1>1, <1>4, <1>5 DEF JoinRoom, TypeOK, Loop
<1>. QED
  BY <1>1, <1>2, <1>3, <1>6 DEF JoinRoom

LEMMA JoinIntroduces ==
    ASSUME IInv, NEW l \in Link, JoinRoom(l)
    PROVE  PairsAreIntroduced'
<1>. USE DEF IInv
<1>1. SUFFICES ASSUME NEW r \in Room, NEW u \in User, NEW v \in User, u # v,
                      peers'[r][u] # NoLink, peers'[r][v] # NoLink
               PROVE  v \in told'[peers'[r][u]] \/ u \in told'[peers'[r][v]]
  BY DEF PairsAreIntroduced, Members
<1>2. /\ dest[l] \in Room /\ LinkUser[l] \in User
      /\ \A q \in Room, w \in User :
            peers'[q][w] = IF q = dest[l] /\ w = LinkUser[l] THEN l ELSE peers[q][w]
  BY JoinEffect
<1>3. \A q \in Room, w \in User : peers[q][w] \in Link \cup {NoLink}
  BY DEF TypeOK
<1>4. \A k \in Link :
        /\ told[k] \subseteq told'[k]
        /\ (\E w \in User \ {LinkUser[l]} : peers[dest[l]][w] = k) => LinkUser[l] \in told'[k]
  BY DEF JoinRoom, TypeOK
<1>5. CASE r = dest[l] /\ u = LinkUser[l]
  <2>1. peers'[r][v] = peers[r][v] /\ peers[r][v] \in Link
    BY <1>1, <1>2, <1>3, <1>5
  <2>. QED
    BY <1>1, <1>4, <1>5, <2>1
<1>6. CASE r = dest[l] /\ v = LinkUser[l]
  <2>1. peers'[r][u] = peers[r][u] /\ peers[r][u] \in Link
    BY <1>1, <1>2, <1>3, <1>6
  <2>. QED
    BY <1>1, <1>4, <1>6, <2>1
<1>7. CASE ~(r = dest[l] /\ (u = LinkUser[l] \/ v = LinkUser[l]))
  <2>1. /\ peers'[r][u] = peers[r][u] /\ peers[r][u] \in Link
        /\ peers'[r][v] = peers[r][v] /\ peers[r][v] \in Link
    BY <1>1, <1>2, <1>3, <1>7
  <2>2. v \in told[peers[r][u]] \/ u \in told[peers[r][v]]
    BY <1>1, <2>1 DEF PairsAreIntroduced, Members
  <2>. QED
    BY <1>4, <2>1, <2>2
<1>. QED
  BY <1>5, <1>6, <1>7

LEMMA JoinInvariance ==
    ASSUME IInv, NEW l \in Link, JoinRoom(l)
    PROVE  IInv'
<1>. DEFINE r == dest[l]
            u == LinkUser[l]
<1>1. /\ r \in Room /\ u \in User
      /\ loop[l] = "welcomed" /\ loop' = [loop EXCEPT ![l] = "reading"]
      /\ \A q \in Room, w \in User : peers'[q][w] = IF q = r /\ w = u THEN l ELSE peers[q][w]
      /\ \A q \in Room : Members(q)' = Members(q) \cup (IF q = r THEN {u} ELSE {})
      /\ TypeOK'
  BY JoinEffect DEF IInv
<1>2. /\ Unlocked /\ UNCHANGED <<dest, seen>>
      /\ rooms' = rooms \cup {r}
      /\ peerToRoomIDs' = [peerToRoomIDs EXCEPT ![u] = r]
      /\ events' = <<Event("join", u, r)>>
  BY DEF JoinRoom
<1>3. \A q \in Room, w \in User : peers[q][w] \in Link \cup {NoLink}
  BY DEF IInv, TypeOK
<1>4. HasRoom'
  BY <1>1, <1>2 DEF IInv, HasRoom, TypeOK
<1>5. \A k \in Link : k # l => loop'[k] = loop[k]
  BY <1>1 DEF IInv, TypeOK
<1>6. loop'[l] = "reading" /\ l # NoLink
  BY <1>1, LinkAssumption DEF IInv, TypeOK
<1>7. Joined'
  <2>. SUFFICES ASSUME NEW q \in Room, NEW w \in User, peers'[q][w] # NoLink
                PROVE  /\ LinkUser[peers'[q][w]] = w
                       /\ dest[peers'[q][w]] = q
                       /\ loop'[peers'[q][w]] \in {"reading", "leaving", "gone"}
    BY <1>2 DEF Joined
  <2>1. CASE q = r /\ w = u
    BY <1>1, <1>6, <2>1
  <2>2. CASE ~(q = r /\ w = u)
    BY <1>1, <1>3, <1>5, <1>6, <2>2 DEF IInv, Joined
  <2>. QED
    BY <2>1, <2>2
<1>8. IndexedIsMember'
  <2>. SUFFICES ASSUME NEW w \in User, peerToRoomIDs'[w] # NoRoom
                PROVE  LET k == peers'[peerToRoomIDs'[w]][w]
                       IN  /\ k # NoLink
                           /\ LinkUser[k] = w
                           /\ dest[k] = peerToRoomIDs'[w]
                           /\ loop'[k] \in {"reading", "leaving"}
    BY <1>2 DEF IndexedIsMember
  <2>1. CASE w = u
    BY <1>1, <1>2, <1>6, <2>1 DEF IInv, TypeOK
  <2>2. CASE w # u
    <3>1. /\ peerToRoomIDs'[w] = peerToRoomIDs[w]
          /\ peerToRoomIDs[w] \in Room
          /\ peers'[peerToRoomIDs[w]][w] = peers[peerToRoomIDs[w]][w]
      BY <1>1, <1>2, <2>2 DEF IInv, TypeOK
    <3>2. LET k == peers[peerToRoomIDs[w]][w]
          IN  /\ k # NoLink
              /\ LinkUser[k] = w
              /\ dest[k] = peerToRoomIDs[w]
              /\ loop[k] \in {"reading", "leaving"}
      BY <3>1 DEF IInv, IndexedIsMember
    <3>. QED
      BY <1>1, <1>3, <1>5, <3>1, <3>2
  <2>. QED
    BY <2>1, <2>2
<1>9. RoomsHavePeers'
  BY <1>1, <1>2 DEF IInv, RoomsHavePeers
<1>10. Outstanding'
  <2>1. \A q \in Room : Members(q) = seen[q]
    BY <1>2, EventIsRelayEvent DEF IInv, Outstanding, Unlocked, Agrees
  <2>2. Grows(u, r)'
    BY <1>1, <1>2, <2>1 DEF Grows
  <2>. QED
    BY <1>1, <1>2, <2>2 DEF Outstanding
<1>. QED
  BY <1>1, <1>4, <1>7, <1>8, <1>9, <1>10, JoinIntroduces DEF IInv

-----------------------------------------------------------------------------

(***************************************************************************)
(* leaveRoom, called by the goroutine of a link or by the lobby.           *)
(***************************************************************************)
LEMMA LeaveEffect ==
    ASSUME TypeOK, RoomsHavePeers, NEW u \in User, NEW r \in Room \cup {NoRoom}, LeaveRoom(u, r),
           loop' \in [Link -> Loop]
    PROVE  /\ Unlocked
           /\ UNCHANGED <<online, dest, told, seen>>
           /\ \A w \in User :
                peerToRoomIDs'[w] = IF w = u THEN NoRoom ELSE peerToRoomIDs[w]
           /\ \/ UNCHANGED <<broken, rooms, peers, events>>
              \/ /\ r \in Room
                 /\ peerToRoomIDs[u] # NoRoom
                 /\ peers[r][u] \in Link
                 /\ \A q \in Room, w \in User :
                      peers'[q][w] = IF q = r /\ w = u THEN NoLink ELSE peers[q][w]
                 /\ \A q \in Room : Members(q)' = Members(q) \ (IF q = r THEN {u} ELSE {})
                 /\ rooms' = IF Members(r)' = {} THEN rooms \ {r} ELSE rooms
                 /\ r \in rooms
                 /\ events' = IF Members(r)' = {}
                              THEN <<Event("leave", u, r), Event("delete", u, r)>>
                              ELSE <<Event("leave", u, r)>>
                 /\ broken' = broken \cup {peers[r][u]}
           /\ TypeOK'
<1>1. \A w \in User : peerToRoomIDs'[w] = IF w = u THEN NoRoom ELSE peerToRoomIDs[w]
  BY DEF LeaveRoom, TypeOK
<1>2. CASE ~(peerToRoomIDs[u] # NoRoom /\ r \in rooms /\ u \in Members(r))
  <2>1. UNCHANGED <<broken, rooms, peers, events>>
    BY <1>2 DEF LeaveRoom
  <2>2. TypeOK'
    BY <2>1 DEF LeaveRoom, TypeOK
  <2>. QED
    BY <1>1, <2>1, <2>2 DEF LeaveRoom
<1>3. CASE peerToRoomIDs[u] # NoRoom /\ r \in rooms /\ u \in Members(r)
  <2>1. r \in Room /\ peers[r][u] \in Link /\ RemovePeer(u, r)
    BY <1>3 DEF LeaveRoom, TypeOK, Members
  <2>2. \A q \in Room, w \in User :
            peers'[q][w] = IF q = r /\ w = u THEN NoLink ELSE peers[q][w]
    BY <2>1 DEF RemovePeer, TypeOK
  <2>3. ASSUME NEW q \in Room
        PROVE  Members(q)' = Members(q) \ (IF q = r THEN {u} ELSE {})
    BY <2>2 DEF Members
  <2>4. (Members(r) \subseteq {u}) <=> (Members(r)' = {})
    BY <2>1, <2>3
  <2>5. /\ rooms' = IF Members(r)' = {} THEN rooms \ {r} ELSE rooms
        /\ events' = IF Members(r)' = {}
                     THEN <<Event("leave", u, r), Event("delete", u, r)>>
                     ELSE <<Event("leave", u, r)>>
        /\ broken' = broken \cup {peers[r][u]}
    BY <2>1, <2>4 DEF RemovePeer
  <2>6. Event("leave", u, r) \in RelayEvent /\ Event("delete", u, r) \in RelayEvent
    BY <2>1, EventIsRelayEvent
  <2>7. events' \in Seq(RelayEvent)
    BY <2>5, <2>6
  <2>8. peers' \in [Room -> [User -> Link \cup {NoLink}]]
    BY <2>1 DEF RemovePeer, TypeOK
  <2>9. TypeOK'
    BY <2>1, <2>5, <2>7, <2>8 DEF LeaveRoom, TypeOK
  <2>. QED
    BY <1>1, <1>3, <2>1, <2>2, <2>3, <2>5, <2>9 DEF LeaveRoom
<1>. QED
  BY <1>2, <1>3

\* At most goroutines of the user end with it.
EndsOnly(u) ==
    \A k \in Link :
        loop'[k] = loop[k] \/ (loop[k] = "leaving" /\ loop'[k] = "gone" /\ LinkUser[k] = u)

LEMMA LeaveInvariance ==
    ASSUME IInv, NEW u \in User, NEW r \in Room \cup {NoRoom}, LeaveRoom(u, r),
           loop' \in [Link -> Loop], EndsOnly(u)
    PROVE  IInv'
<1>1. /\ Unlocked
      /\ UNCHANGED <<online, dest, told, seen>>
      /\ \A w \in User : peerToRoomIDs'[w] = IF w = u THEN NoRoom ELSE peerToRoomIDs[w]
      /\ TypeOK'
  BY LeaveEffect DEF IInv
<1>2. \/ UNCHANGED <<broken, rooms, peers, events>>
      \/ /\ r \in Room
         /\ \A q \in Room, w \in User :
              peers'[q][w] = IF q = r /\ w = u THEN NoLink ELSE peers[q][w]
         /\ \A q \in Room : Members(q)' = Members(q) \ (IF q = r THEN {u} ELSE {})
         /\ rooms' = IF Members(r)' = {} THEN rooms \ {r} ELSE rooms
         /\ r \in rooms
         /\ events' = IF Members(r)' = {}
                      THEN <<Event("leave", u, r), Event("delete", u, r)>>
                      ELSE <<Event("leave", u, r)>>
  BY LeaveEffect DEF IInv
<1>3. \A q \in Room, w \in User :
        /\ peers'[q][w] = peers[q][w] \/ (w = u /\ peers'[q][w] = NoLink)
        /\ peers[q][w] \in Link \cup {NoLink}
  BY <1>2 DEF IInv, TypeOK
<1>4. HasRoom'
  BY <1>1 DEF IInv, HasRoom, EndsOnly
<1>5. Joined'
  BY <1>1, <1>3 DEF IInv, Joined, EndsOnly
<1>6. IndexedIsMember'
  <2>. SUFFICES ASSUME NEW w \in User, peerToRoomIDs'[w] # NoRoom
                PROVE  LET k == peers'[peerToRoomIDs'[w]][w]
                       IN  /\ k # NoLink
                           /\ LinkUser[k] = w
                           /\ dest[k] = peerToRoomIDs'[w]
                           /\ loop'[k] \in {"reading", "leaving"}
    BY <1>1 DEF IndexedIsMember
  <2>1. w # u /\ peerToRoomIDs'[w] = peerToRoomIDs[w] /\ peerToRoomIDs[w] \in Room
    BY <1>1 DEF IInv, TypeOK
  <2>2. LET k == peers[peerToRoomIDs[w]][w]
        IN  /\ k # NoLink
            /\ LinkUser[k] = w
            /\ dest[k] = peerToRoomIDs[w]
            /\ loop[k] \in {"reading", "leaving"}
    BY <2>1 DEF IInv, IndexedIsMember
  <2>. QED
    BY <1>3, <2>1, <2>2 DEF EndsOnly
<1>7. RoomsHavePeers'
  BY <1>2 DEF IInv, RoomsHavePeers, Members
<1>8. PairsAreIntroduced'
  BY <1>1, <1>3 DEF IInv, PairsAreIntroduced, Members
<1>9. Outstanding'
  <2>1. \A q \in Room : Members(q) = seen[q]
    BY <1>1, EventIsRelayEvent DEF IInv, Outstanding, Unlocked, Agrees
  <2>2. CASE UNCHANGED <<broken, rooms, peers, events>>
    BY <1>1, <2>1, <2>2 DEF Outstanding, Agrees, Members, Unlocked
  <2>3. CASE ~UNCHANGED <<broken, rooms, peers, events>>
    <3>1. r \in Room /\ Shrinks(u, r)'
      BY <1>1, <1>2, <2>1, <2>3 DEF Shrinks
    <3>. QED
      BY <1>2, <2>3, <3>1 DEF Outstanding
  <2>. QED
    BY <2>2, <2>3
<1>. QED
  BY <1>1, <1>4, <1>5, <1>6, <1>7, <1>8, <1>9 DEF IInv

(***************************************************************************)
(* The receiver of the events.                                             *)
(***************************************************************************)
LEMMA AppliedEvent ==
    ASSUME NEW u, NEW r
    PROVE  /\ Applied(Event("join", u, r)) = [seen EXCEPT ![r] = @ \cup {u}]
           /\ Applied(Event("leave", u, r)) = [seen EXCEPT ![r] = @ \ {u}]
           /\ Applied(Event("delete", u, r)) = [seen EXCEPT ![r] = {}]
<1>1. \A type : /\ Event(type, u, r).type = type
               /\ Event(type, u, r).peer = u
               /\ Event(type, u, r).room = r
  BY DEF Event
<1>2. Applied(Event("join", u, r)) = [seen EXCEPT ![r] = @ \cup {u}]
  BY <1>1, ZenonT(60) DEF Applied
<1>3. Applied(Event("leave", u, r)) = [seen EXCEPT ![r] = @ \ {u}]
  BY <1>1, ZenonT(60) DEF Applied
<1>4. Applied(Event("delete", u, r)) = [seen EXCEPT ![r] = {}]
  BY <1>1, ZenonT(60) DEF Applied
<1>. QED
  BY <1>2, <1>3, <1>4

LEMMA TakeEventInvariance ==
    ASSUME IInv, TakeEvent
    PROVE  IInv'
<1>1. UNCHANGED <<online, loop, broken, dest, rooms, peers, peerToRoomIDs, told>>
  BY DEF TakeEvent
<1>2. \A q \in Room : Members(q)' = Members(q)
  BY <1>1 DEF Members
<1>3. PICK u \in User, r \in Room :
        \/ events = <<Event("join", u, r)>> /\ Grows(u, r)
        \/ events = <<Event("leave", u, r)>> /\ Shrinks(u, r)
        \/ /\ events = <<Event("leave", u, r), Event("delete", u, r)>>
           /\ Shrinks(u, r)
           /\ Members(r) = {}
        \/ events = <<Event("delete", u, r)>> /\ Agrees /\ Members(r) = {}
  BY DEF IInv, Outstanding, TakeEvent
<1>4. seen \in [Room -> SUBSET User]
  BY DEF IInv, TypeOK
<1>5. events \in Seq(RelayEvent) /\ events' \in Seq(RelayEvent)
  BY DEF IInv, TypeOK, TakeEvent
<1>6. CASE events = <<Event("join", u, r)>> /\ Grows(u, r)
  <2>1. seen' = [seen EXCEPT ![r] = @ \cup {u}] /\ events' = <<>>
    <3>1. Head(events) = Event("join", u, r) /\ Tail(events) = <<>>
      BY <1>6
    <3>. QED
      BY <3>1, AppliedEvent DEF TakeEvent
  <2>2. Agrees'
    BY <1>2, <1>4, <1>6, <2>1 DEF Agrees, Grows
  <2>. QED
    BY <1>1, <1>4, <1>5, <2>1, <2>2
       DEF IInv, TypeOK, HasRoom, Joined, IndexedIsMember, RoomsHavePeers, Outstanding,
           PairsAreIntroduced, Members
<1>7. CASE events = <<Event("leave", u, r)>> /\ Shrinks(u, r)
  <2>1. seen' = [seen EXCEPT ![r] = @ \ {u}] /\ events' = <<>>
    <3>1. Head(events) = Event("leave", u, r) /\ Tail(events) = <<>>
      BY <1>7
    <3>. QED
      BY <3>1, AppliedEvent DEF TakeEvent
  <2>2. Agrees'
    BY <1>2, <1>4, <1>7, <2>1 DEF Agrees, Shrinks
  <2>. QED
    BY <1>1, <1>4, <1>5, <2>1, <2>2
       DEF IInv, TypeOK, HasRoom, Joined, IndexedIsMember, RoomsHavePeers, Outstanding,
           PairsAreIntroduced, Members
<1>8. CASE /\ events = <<Event("leave", u, r), Event("delete", u, r)>>
           /\ Shrinks(u, r)
           /\ Members(r) = {}
  <2>1. seen' = [seen EXCEPT ![r] = @ \ {u}] /\ events' = <<Event("delete", u, r)>>
    <3>1. Head(events) = Event("leave", u, r) /\ Tail(events) = <<Event("delete", u, r)>>
      BY <1>8
    <3>. QED
      BY <3>1, AppliedEvent DEF TakeEvent
  <2>2. Agrees' /\ Members(r)' = {}
    BY <1>2, <1>4, <1>8, <2>1 DEF Agrees, Shrinks
  <2>. QED
    BY <1>1, <1>4, <1>5, <2>1, <2>2
       DEF IInv, TypeOK, HasRoom, Joined, IndexedIsMember, RoomsHavePeers, Outstanding,
           PairsAreIntroduced, Members
<1>9. CASE events = <<Event("delete", u, r)>> /\ Agrees /\ Members(r) = {}
  <2>1. seen' = [seen EXCEPT ![r] = {}] /\ events' = <<>>
    <3>1. Head(events) = Event("delete", u, r) /\ Tail(events) = <<>>
      BY <1>9
    <3>. QED
      BY <3>1, AppliedEvent DEF TakeEvent
  <2>2. Agrees'
    BY <1>2, <1>4, <1>9, <2>1 DEF Agrees
  <2>. QED
    BY <1>1, <1>4, <1>5, <2>1, <2>2
       DEF IInv, TypeOK, HasRoom, Joined, IndexedIsMember, RoomsHavePeers, Outstanding,
           PairsAreIntroduced, Members
<1>. QED
  BY <1>3, <1>6, <1>7, <1>8, <1>9

-----------------------------------------------------------------------------

LEMMA EndsAndDisconnects ==
    /\ \A l \in Link : IInv /\ LoopEnds(l) => IInv' /\ EndsOnly(LinkUser[l])
    /\ \A u \in User, r \in Room \cup {NoRoom} :
            IInv /\ PlayerDisconnected(u, r) => IInv' /\ EndsOnly(u)
<1>1. ASSUME IInv, NEW l \in Link, LoopEnds(l)
      PROVE  IInv' /\ EndsOnly(LinkUser[l])
  <2>1. LinkUser[l] \in User /\ dest[l] \in Room
    BY <1>1, LinkAssumption DEF IInv, HasRoom, LoopEnds
  <2>2. loop' \in [Link -> Loop] /\ EndsOnly(LinkUser[l])
    BY <1>1 DEF IInv, TypeOK, Loop, LoopEnds, EndsOnly
  <2>. QED
    BY <1>1, <2>1, <2>2, LeaveInvariance DEF LoopEnds
<1>2. ASSUME IInv, NEW u \in User, NEW r \in Room \cup {NoRoom}, PlayerDisconnected(u, r)
      PROVE  IInv' /\ EndsOnly(u)
  <2>1. loop' \in [Link -> Loop] /\ EndsOnly(u)
    BY <1>2 DEF IInv, TypeOK, PlayerDisconnected, EndsOnly
  <2>. QED
    BY <1>2, <2>1, LeaveInvariance DEF PlayerDisconnected
<1>. QED
  BY <1>1, <1>2

\* A step of the relay is of one of four kinds.
LEMMA RelayStepCases ==
    ASSUME RelayStep
    PROVE  \/ Quiet
           \/ \E l \in Link : JoinRoom(l)
           \/ \E l \in Link : LoopEnds(l)
           \/ TakeEvent
BY DEF RelayStep, Quiet, ReadFails, LeavePacket

LEMMA StepInvariance == IInv /\ [Next]_vars => IInv'
<1>1. ASSUME IInv, Next
      PROVE  IInv'
  <2>1. CASE RelayStep
    BY <1>1, <2>1, RelayStepCases, QuietInvariance, JoinInvariance, EndsAndDisconnects,
       TakeEventInvariance
  <2>2. CASE \E u \in User, r \in Room \cup {NoRoom} : PlayerDisconnected(u, r)
    BY <1>1, <2>2, EndsAndDisconnects
  <2>. QED
    BY <1>1, <2>1, <2>2 DEF Next
<1>2. ASSUME IInv, UNCHANGED vars
      PROVE  IInv'
  BY <1>2 DEF IInv, vars, roomVars, TypeOK, HasRoom, Joined, IndexedIsMember, RoomsHavePeers,
              Outstanding, Agrees, Grows, Shrinks, PairsAreIntroduced, Members
<1>. QED
  BY <1>1, <1>2

LEMMA Invariance == Spec => []IInv
BY InitHolds, StepInvariance, PTL DEF Spec

\* Every reachable state of the relay server has the declared types; in
\* particular leaveRoom never closes the stream of a peer that is not there.
THEOREM TypeCorrect == Spec => []TypeOK
BY Invariance, PTL DEF IInv

\* An entry of peerToRoomIDs names a room that lists the user, under a link
\* whose goroutine has still to call leaveRoom.
THEOREM IndexIsRight == Spec => []IndexedIsMember
BY Invariance, PTL DEF IInv

\* No room outlives its peers, none has peers and no entry.
THEOREM RoomsAreInhabited == Spec => []RoomsHavePeers
BY Invariance, PTL DEF IInv

\* Of two peers of a room one has been told of the other's join.
THEOREM PeersAreIntroduced == Spec => []PairsAreIntroduced
BY Invariance, PTL DEF IInv

\* Whoever follows the events knows the membership of the rooms.
THEOREM EventsAreComplete == Spec => []EventsTellMembership
<1>1. ASSUME IInv
      PROVE  EventsTellMembership
  <2>1. CASE Unlocked
    <3>1. \A u \in User, r \in Room, type \in {"join", "leave", "delete"} :
            Event(type, u, r) \in RelayEvent
      BY EventIsRelayEvent
    <3>2. Agrees
      BY <1>1, <2>1, <3>1 DEF IInv, Outstanding, Unlocked
    <3>. QED
      BY <2>1, <3>2 DEF EventsTellMembership, Agrees
  <2>2. CASE ~Unlocked
    <3>1. PICK u \in User, r \in Room :
            \/ events = <<Event("join", u, r)>>
            \/ Head(events) = Event("leave", u, r)
            \/ events = <<Event("delete", u, r)>> /\ Agrees /\ Members(r) = {}
      BY <1>1, <2>2 DEF IInv, Outstanding, Unlocked
    <3>2. CASE events = <<Event("join", u, r)>> \/ Head(events) = Event("leave", u, r)
      <4>1. Head(events).type # "delete"
        BY <3>2 DEF Event
      <4>. QED
        BY <2>2, <4>1 DEF EventsTellMembership
    <3>3. CASE events = <<Event("delete", u, r)>> /\ Agrees /\ Members(r) = {}
      <4>1. Head(events).room = r
        BY <3>3 DEF Event
      <4>. QED
        BY <2>2, <3>3, <4>1 DEF EventsTellMembership, Agrees
    <3>. QED
      BY <3>1, <3>2, <3>3
  <2>. QED
    BY <2>1, <2>2
<1>. QED
  BY <1>1, Invariance, PTL

-----------------------------------------------------------------------------

\* A call of leaveRoom changes only the place of its user, and closes only a
\* link of that user.
LEMMA LeaveIsOwn ==
    ASSUME IInv, NEW u \in User, NEW r \in Room \cup {NoRoom}, LeaveRoom(u, r),
           loop' \in [Link -> Loop]
    PROVE  /\ \A q \in Room, w \in User : peers'[q][w] # peers[q][w] => w = u
           /\ \A l \in broken' \ broken : LinkUser[l] = u
<1>1. \/ UNCHANGED <<broken, rooms, peers, events>>
      \/ /\ r \in Room
         /\ peers[r][u] \in Link
         /\ \A q \in Room, w \in User :
                peers'[q][w] = IF q = r /\ w = u THEN NoLink ELSE peers[q][w]
         /\ broken' = broken \cup {peers[r][u]}
  BY LeaveEffect DEF IInv
<1>2. peers[r][u] \in Link /\ r \in Room => LinkUser[peers[r][u]] = u
  BY LinkAssumption DEF IInv, Joined
<1>. QED
  BY <1>1, <1>2

\* A user's place in a room changes, and an admitted link is closed, only
\* through the user's own goroutines and disconnects.
THEOREM PlacesAreOwn == Spec => OwnPlaceOnly
<1>. DEFINE Own == /\ \A r \in Room, u \in User : peers'[r][u] # peers[r][u] => Acts(u)
                   /\ \A l \in broken' \ broken :
                        ClientCloses(l) \/ HandshakeFails(l) \/ Acts(LinkUser[l])
<1>1. ASSUME IInv, Quiet
      PROVE  Own
  <2>1. peers' = peers
    BY <1>1 DEF Quiet, Handshake, HandshakeFails, EndReading, ClientCloses, SessionAdded,
                SessionDeleted, roomVars
  <2>2. \A l \in broken' \ broken : ClientCloses(l) \/ HandshakeFails(l)
    BY <1>1 DEF Quiet, Handshake, HandshakeFails, EndReading, ClientCloses, SessionAdded,
                SessionDeleted
  <2>. QED
    BY <2>1, <2>2
<1>2. ASSUME IInv, NEW l \in Link, JoinRoom(l)
      PROVE  Own
  <2>1. \A r \in Room, u \in User : peers'[r][u] # peers[r][u] => u = LinkUser[l]
    BY <1>2, JoinEffect DEF IInv
  <2>2. broken' = broken /\ Acts(LinkUser[l])
    BY <1>2 DEF JoinRoom, Acts
  <2>. QED
    BY <2>1, <2>2
<1>3. ASSUME IInv, NEW l \in Link, LoopEnds(l)
      PROVE  Own
  <2>1. LinkUser[l] \in User /\ dest[l] \in Room /\ loop' \in [Link -> Loop]
    BY <1>3, LinkAssumption DEF IInv, HasRoom, TypeOK, Loop, LoopEnds
  <2>2. Acts(LinkUser[l])
    BY <1>3 DEF Acts
  <2>3. /\ \A q \in Room, w \in User : peers'[q][w] # peers[q][w] => w = LinkUser[l]
        /\ \A k \in broken' \ broken : LinkUser[k] = LinkUser[l]
    BY <1>3, <2>1, LeaveIsOwn DEF LoopEnds
  <2>. QED
    BY <2>2, <2>3
<1>4. ASSUME IInv, NEW u \in User, NEW r \in Room \cup {NoRoom}, PlayerDisconnected(u, r)
      PROVE  Own
  <2>1. loop' \in [Link -> Loop] /\ Acts(u)
    BY <1>4 DEF IInv, TypeOK, PlayerDisconnected, Acts
  <2>2. /\ \A q \in Room, w \in User : peers'[q][w] # peers[q][w] => w = u
        /\ \A k \in broken' \ broken : LinkUser[k] = u
    BY <1>4, <2>1, LeaveIsOwn DEF PlayerDisconnected
  <2>. QED
    BY <2>1, <2>2
<1>5. ASSUME IInv, TakeEvent
      PROVE  Own
  BY <1>5 DEF TakeEvent
<1>6. IInv /\ [Next]_vars => [Own]_vars
  BY <1>1, <1>2, <1>3, <1>4, <1>5, RelayStepCases DEF Next
<1>. QED
  BY <1>6, Invariance, PTL DEF Spec, OwnPlaceOnly

=============================================================================
