----------------------------- MODULE RelayClient -----------------------------
(***************************************************************************)
(* The backend's end of the relay (backend/redirect/host_manager.go,       *)
(* backend/proxy/relay): every other player of the game is given an        *)
(* address of the loopback network and a fake host, a pair of sockets      *)
(* behind which the local game finds that player.                          *)
(*                                                                         *)
(* Six kinds of goroutines change the same four maps:                      *)
(*   command    the session's commands, one after the other                *)
(*   watchers   of a player who hosts: the ping to the relay server and    *)
(*              the probe of the game server; either may call Reset        *)
(*   receiver   the receive loop of the relay stream: dynamicJoin          *)
(*   straggler  the receive loop of a stream that Reset has closed, still  *)
(*              in dynamicJoin                                             *)
(*   observer   the read loop of the lobby's websocket: departures, host   *)
(*              migration                                                  *)
(*   probes     one per fake host that stands for the host of the game     *)
(*                                                                         *)
(* AssignIP, StartGuest, StartHost, SetHost and RemoveByRemoteID hold      *)
(* HostManager.mu and are one step each.  StopAll, and the StopHost of     *)
(* StopAll, of a probe or of a migration, do not hold it: they go through  *)
(* the maps one line after the other, among everybody else's steps.        *)
(* Reset and the stop of a probe hold PacketRouter.mu, so that at most two *)
(* of them are midway at a time: the one with that mutex (the variable     *)
(* router) and the observer's.                                             *)
(*                                                                         *)
(* The lobby and the relay server are free to send anything at any time:   *)
(* LeaveLobby names anybody, a peer may join the relay again, the next     *)
(* host may be somebody this backend has never heard of.                   *)
(***************************************************************************)
EXTENDS Naturals

CONSTANTS
    Peer,    \* the user IDs of the other players
    Self,    \* selfID
    NoPeer,  \* no entry in IPToPeerID, no currentHostID
    MaxIP,   \* AssignIP tries the addresses ending in 2..MaxIP (254 in the code)
    Copies,  \* bound: how many alike fake hosts may exist at a time
    MaxEvents,  \* bound: how many resets, join notices, departures and
                \* migrations there are
    NoHost   \* no entry in Hosts or PeerHosts

ASSUME RelayClientAssumption ==
    /\ Self \notin Peer
    /\ NoPeer \notin Peer \cup {Self}
    /\ MaxIP \in Nat
    /\ Copies \in Nat
    /\ MaxEvents \in Nat
    /\ \A p \in Peer, i \in 2..MaxIP, t \in BOOLEAN, n \in 1..Copies :
           NoHost # [peer |-> p, ip |-> i, tcp |-> t, nr |-> n]

VARIABLES
    peerIPs,      \* HostManager.PeerIPs
    ipToPeer,     \* HostManager.IPToPeerID
    hosts,        \* HostManager.Hosts
    peerHosts,    \* HostManager.PeerHosts
    stops,        \* the calls of StopHost that do not hold HostManager.mu
    router,       \* what is done under PacketRouter.mu
    watchers,     \* ping loop and probe of HostRoom that have not called Reset
    running,      \* the FakeHosts whose stopFunc has not been called
    currentHost,  \* PacketRouter.currentHostID
    connected,    \* a receive loop reads the relay stream
    command, receiver, straggler, observer, probes,
    events,       \* how many of them there were
    mishaps       \* history: what the maps, since they were made, do not survive

maps == <<peerIPs, ipToPeer, hosts, peerHosts>>
vars == <<maps, stops, router, watchers, running, currentHost, connected,
          command, receiver, straggler, observer, probes, events, mishaps>>

-----------------------------------------------------------------------------

IP == 2..MaxIP
NoIP == 0

\* A FakeHost object: for whom it was started, where, with a TCP proxy or
\* not.  nr tells objects that are alike apart.
FakeHost == [peer : Peer, ip : IP, tcp : BOOLEAN, nr : 1..Copies]

\* A dynamicJoin between two critical sections.
Join == [pc : {"idle", "assigned", "started"}, peer : Peer \cup {NoPeer},
         ip : IP \cup {NoIP}, tcp : BOOLEAN, host : FakeHost \cup {NoHost}]

NoJoin == [pc |-> "idle", peer |-> NoPeer, ip |-> NoIP, tcp |-> FALSE,
           host |-> NoHost]

Mishap == {
    "straggler",   \* dynamicJoin went on after Reset
    "late start",  \* a host was started or recorded after its address was gone
    "unlocked" }   \* somebody came between the lines of a StopHost or StopAll
                   \* without the mutex

Stopper == {"router", "observer"}

\* A StopHost without the mutex, by the line to come next.
Stop == [pc : {"idle", "lookup", "Hosts", "IPToPeerID", "PeerIPs", "PeerHosts"},
         ip : IP \cup {NoIP},
         peer : Peer \cup {NoPeer}]      \* remoteID, once it is looked up

NoStop == [pc |-> "idle", ip |-> NoIP, peer |-> NoPeer]

\* "stop" is the probe's; the others are Reset, by the line of StopAll.
Router == [
    pc : {"idle", "stop", "range", "PeerHosts", "PeerIPs", "IPToPeerID"},
    todo : SUBSET IP,       \* keys of Hosts the range has still to give
    byCommand : BOOLEAN]    \* a command waits for this Reset

UnlockedRouter == [pc |-> "idle", todo |-> {}, byCommand |-> FALSE]

Command == [
    pc : {"idle", "clearing", "naming", "assigning", "connecting", "starting",
          "listening", "failed"},        \* "failed": the session is over
    todo : SUBSET Peer,              \* players to assign, or keys to range over
    visited : SUBSET Peer,
    peer : Peer \cup {NoPeer}, ip : IP \cup {NoIP},
    host : Peer \cup {Self, NoPeer}] \* the host of the game

Observer == [
    pc : {"idle", "stopping", "rebinding", "sleeping", "found", "restarting"},
    peer : Peer \cup {NoPeer}, ip : IP \cup {NoIP},
    todo : SUBSET Peer, saved : [Peer -> IP \cup {NoIP}]]  \* rebindHosts

Probe == [host : FakeHost, ip : IP]

NothingSaved == [p \in Peer |-> NoIP]

IdleCommand ==
    [pc |-> "idle", todo |-> {}, visited |-> {}, peer |-> NoPeer, ip |-> NoIP,
     host |-> NoPeer]

IdleObserver ==
    [pc |-> "idle", peer |-> NoPeer, ip |-> NoIP, todo |-> {},
     saved |-> NothingSaved]

TypeOK ==
    /\ peerIPs \in [Peer -> IP \cup {NoIP}]
    /\ ipToPeer \in [IP -> Peer \cup {NoPeer}]
    /\ hosts \in [IP -> FakeHost \cup {NoHost}]
    /\ peerHosts \in [Peer -> FakeHost \cup {NoHost}]
    /\ stops \in [Stopper -> Stop]
    /\ router \in Router
    /\ watchers \in 0..2
    /\ running \subseteq FakeHost
    /\ currentHost \in Peer \cup {Self, NoPeer}
    /\ connected \in BOOLEAN
    /\ command \in Command
    /\ receiver \in Join
    /\ straggler \in Join
    /\ observer \in Observer
    /\ probes \subseteq Probe
    /\ events \in 0..MaxEvents
    /\ mishaps \subseteq Mishap

EmptyMaps ==
    /\ peerIPs = [p \in Peer |-> NoIP]
    /\ ipToPeer = [i \in IP |-> NoPeer]
    /\ hosts = [i \in IP |-> NoHost]
    /\ peerHosts = [p \in Peer |-> NoHost]

Init ==
    /\ EmptyMaps
    /\ stops = [w \in Stopper |-> NoStop]
    /\ router = UnlockedRouter
    /\ watchers = 0
    /\ running = {}
    /\ currentHost = NoPeer
    /\ connected = FALSE
    /\ command = IdleCommand
    /\ receiver = NoJoin
    /\ straggler = NoJoin
    /\ observer = IdleObserver
    /\ probes = {}
    /\ events = 0
    /\ mishaps = {}

-----------------------------------------------------------------------------
(* HostManager *)

\* Every object somebody still refers to: a new one is none of these.
InUse ==
    running \cup {hosts[i] : i \in IP} \cup {peerHosts[p] : p \in Peer}
        \cup {receiver.host, straggler.host} \cup {pr.host : pr \in probes}

NewHosts(p, i, tcp) ==
    LET alike == [peer : {p}, ip : {i}, tcp : {tcp}, nr : 1..Copies] \ InUse
    IN  {h \in alike : \A g \in alike : h.nr <= g.nr}

\* Mutation: an address counts as free until a host listens there.
FreeIPsByHost == {i \in IP : hosts[i] = NoHost}

\* The address AssignIP picks for a peer that has none; empty if all are taken.
FreeIPs == {i \in IP : ipToPeer[i] = NoPeer}
NextIP == {i \in FreeIPs : \A j \in FreeIPs : i <= j}

\* Leaves p with address i, its old one if it had any.
AssignIP(p, i) ==
    \/ /\ peerIPs[p] = i
       /\ UNCHANGED <<peerIPs, ipToPeer>>
    \/ /\ peerIPs[p] = NoIP
       /\ i \in NextIP
       /\ peerIPs' = [peerIPs EXCEPT ![p] = i]
       /\ ipToPeer' = [ipToPeer EXCEPT ![i] = p]

AssignFails(p) == peerIPs[p] = NoIP /\ FreeIPs = {}

\* StartHost and StartGuest once their sockets are open; h is the new object.
\* They do not look at the addresses.
StartFakeHost(p, i, h) ==
    /\ hosts[i] = NoHost
    /\ running' = running \cup {h}
    /\ hosts' = [hosts EXCEPT ![i] = h]
    /\ peerHosts' = [peerHosts EXCEPT ![p] = h]
    /\ UNCHANGED <<peerIPs, ipToPeer>>

\* History: p has no longer the address i it was started or is recorded with.
Late(p, i) == IF peerIPs[p] # i THEN {"late start"} ELSE {}

SetHost(i, p, h) ==
    /\ peerIPs' = [peerIPs EXCEPT ![p] = i]
    /\ ipToPeer' = [ipToPeer EXCEPT ![i] = p]
    /\ hosts' = [hosts EXCEPT ![i] = h]
    /\ peerHosts' = [peerHosts EXCEPT ![p] = h]

\* StopHost under HostManager.mu.
StopHost(h, i) ==
    LET p == ipToPeer[i] IN
    /\ running' = running \ {h}
    /\ hosts' = [hosts EXCEPT ![i] = NoHost]
    /\ ipToPeer' = [ipToPeer EXCEPT ![i] = NoPeer]
    /\ peerIPs' = [q \in Peer |-> IF q = p THEN NoIP ELSE peerIPs[q]]
    /\ peerHosts' = [q \in Peer |-> IF q = p THEN NoHost ELSE peerHosts[q]]

\* Mutation: the fake host is stopped and only Hosts told so.
RemoveByRemoteIDHalf(p) ==
    IF peerIPs[p] # NoIP /\ hosts[peerIPs[p]] # NoHost
    THEN /\ running' = running \ {hosts[peerIPs[p]]}
         /\ hosts' = [hosts EXCEPT ![peerIPs[p]] = NoHost]
         /\ UNCHANGED <<peerIPs, ipToPeer, peerHosts>>
    ELSE UNCHANGED <<maps, running>>

\* By the peer's address; nothing happens when it has none or no host there.
RemoveByRemoteID(p) ==
    IF peerIPs[p] # NoIP /\ hosts[peerIPs[p]] # NoHost
    THEN StopHost(hosts[peerIPs[p]], peerIPs[p])
    ELSE UNCHANGED <<maps, running>>

\* Mutation: the address is looked up again when the probe is made.
NewProbeLooksUp(h, i) == [host |-> h, ip |-> peerIPs[h.peer]]

\* startHostProbe: what stop will be called with.
NewProbe(h, i) == [host |-> h, ip |-> i]

Assigned == {p \in Peer : peerIPs[p] # NoIP}

Event == events < MaxEvents /\ events' = events + 1

-----------------------------------------------------------------------------
(* StopHost and StopAll without HostManager.mu *)

\* StopAll has made some of the new maps.
Replacing == router.pc \in {"PeerHosts", "PeerIPs", "IPToPeerID"}

\* History: this step, by somebody else, changes one of the entries that a
\* StopHost deletes, between its look-up and its last line, or a map while
\* StopAll replaces them.
Disturbs ==
    \/ \E w \in Stopper :
          /\ stops[w].pc \notin {"idle", "lookup"}
          /\ stops'[w] = stops[w]
          /\ \/ hosts'[stops[w].ip] # hosts[stops[w].ip]
             \/ ipToPeer'[stops[w].ip] # ipToPeer[stops[w].ip]
             \/ \E p \in {stops[w].peer} \cap Peer :
                   \/ peerIPs'[p] # peerIPs[p]
                   \/ peerHosts'[p] # peerHosts[p]
    \/ /\ Replacing
       /\ router' = router
       /\ maps' # maps

\* For an action that changes the maps.
Notes(S) ==
    mishaps' = mishaps \cup S \cup (IF Disturbs THEN {"unlocked"} ELSE {})

\* w calls StopHost: stopFunc, and the proxies are closed.
StopBegins(w, h, i) ==
    /\ stops[w].pc = "idle"
    /\ stops' = [stops EXCEPT ![w] = [NoStop EXCEPT !.pc = "lookup", !.ip = i]]
    /\ running' = running \ {h}

StopLooksUp(w) ==
    LET s == stops[w] IN
    /\ s.pc = "lookup"
    /\ stops' = [stops EXCEPT ![w] = [pc |-> "Hosts", ip |-> s.ip,
                                      peer |-> ipToPeer[s.ip]]]
    /\ UNCHANGED <<maps, mishaps>>

StopDeletesHost(w) ==
    /\ stops[w].pc = "Hosts"
    /\ hosts' = [hosts EXCEPT ![stops[w].ip] = NoHost]
    /\ stops' = [stops EXCEPT ![w].pc = "IPToPeerID"]
    /\ UNCHANGED <<peerIPs, ipToPeer, peerHosts>>
    /\ Notes({})

StopDeletesAddress(w) ==
    /\ stops[w].pc = "IPToPeerID"
    /\ ipToPeer' = [ipToPeer EXCEPT ![stops[w].ip] = NoPeer]
    /\ stops' = [stops EXCEPT ![w].pc = "PeerIPs"]
    /\ UNCHANGED <<peerIPs, hosts, peerHosts>>
    /\ Notes({})

\* Mutation: delete(hm.PeerIPs, ...) is forgotten.
StopKeepsPeerIP(w) ==
    /\ stops[w].pc = "PeerIPs"
    /\ stops' = [stops EXCEPT ![w].pc = "PeerHosts"]
    /\ UNCHANGED maps
    /\ Notes({})

StopDeletesPeerIP(w) ==
    /\ stops[w].pc = "PeerIPs"
    /\ peerIPs' = [p \in Peer |-> IF p = stops[w].peer THEN NoIP ELSE peerIPs[p]]
    /\ stops' = [stops EXCEPT ![w].pc = "PeerHosts"]
    /\ UNCHANGED <<ipToPeer, hosts, peerHosts>>
    /\ Notes({})

StopDeletesPeerHost(w) ==
    /\ stops[w].pc = "PeerHosts"
    /\ peerHosts' =
          [p \in Peer |-> IF p = stops[w].peer THEN NoHost ELSE peerHosts[p]]
    /\ stops' = [stops EXCEPT ![w] = NoStop]
    /\ UNCHANGED <<peerIPs, ipToPeer, hosts>>
    /\ Notes({})

\* The next line of StopHost.
StopGoesOn(w) ==
    /\ UNCHANGED router
    /\ \/ StopLooksUp(w)
       \/ StopDeletesHost(w)
       \/ StopDeletesAddress(w)
       \/ StopDeletesPeerIP(w)
       \/ StopDeletesPeerHost(w)
    /\ UNCHANGED <<watchers, running, currentHost, connected, command,
                   receiver, straggler, observer, probes, events>>

\* r.mu
RouterUnlocked == router.pc = "idle"

\* Reset: the stream is closed, then StopAll ranges over Hosts.  A receive loop
\* that is in dynamicJoin goes on without its stream.
ResetBegins(byCommand) ==
    /\ RouterUnlocked
    /\ receiver.pc = "idle" \/ straggler.pc = "idle"
    /\ Event
    /\ router' = [pc |-> "range", todo |-> {i \in IP : hosts[i] # NoHost},
                  byCommand |-> byCommand]
    /\ connected' = FALSE
    /\ receiver' = NoJoin
    /\ straggler' = IF receiver.pc = "idle" THEN straggler ELSE receiver
    /\ UNCHANGED <<maps, stops, running, currentHost, observer, probes, mishaps>>

\* The ping to the relay server fails, or the probe of HostRoom finds the game
\* server gone.
WatcherResets ==
    /\ watchers > 0
    /\ watchers' = watchers - 1
    /\ ResetBegins(FALSE)
    /\ UNCHANGED command

\* The range gives an address that has a host, added meanwhile or not.
StopAllStops(i) ==
    /\ router.pc = "range"
    /\ hosts[i] # NoHost
    /\ StopBegins("router", hosts[i], i)
    /\ router' = [router EXCEPT !.todo = @ \ {i}]
    /\ UNCHANGED <<maps, watchers, currentHost, connected, command, receiver,
                   straggler, observer, probes, events, mishaps>>

\* The range is over and the new Hosts made.
StopAllStopped ==
    /\ router.pc = "range"
    /\ stops["router"].pc = "idle"
    /\ \A i \in router.todo : hosts[i] = NoHost
    /\ hosts' = [i \in IP |-> NoHost]
    /\ router' = [router EXCEPT !.pc = "PeerHosts", !.todo = {}]
    /\ UNCHANGED <<peerIPs, ipToPeer, peerHosts, stops, watchers, running,
                   currentHost, connected, command, receiver, straggler,
                   observer, probes, events>>
    /\ Notes({})

NewPeerHosts ==
    /\ router.pc = "PeerHosts"
    /\ peerHosts' = [p \in Peer |-> NoHost]
    /\ router' = [router EXCEPT !.pc = "PeerIPs"]
    /\ UNCHANGED <<peerIPs, ipToPeer, hosts, stops, watchers, running,
                   currentHost, connected, command, receiver, straggler,
                   observer, probes, events>>
    /\ Notes({})

NewPeerIPs ==
    /\ router.pc = "PeerIPs"
    /\ peerIPs' = [p \in Peer |-> NoIP]
    /\ router' = [router EXCEPT !.pc = "IPToPeerID"]
    /\ UNCHANGED <<ipToPeer, hosts, peerHosts, stops, watchers, running,
                   currentHost, connected, command, receiver, straggler,
                   observer, probes, events>>
    /\ Notes({})

\* The last map, and Reset returns.  With all maps empty there is nothing left
\* for earlier mishaps to show in.
ResetReturns ==
    /\ router.pc = "IPToPeerID"
    /\ ipToPeer' = [i \in IP |-> NoPeer]
    /\ currentHost' = NoPeer
    /\ router' = UnlockedRouter
    /\ command' =
          IF ~router.byCommand THEN command
          ELSE IF command.host = NoPeer THEN [IdleCommand EXCEPT !.pc = "failed"]
          ELSE [command EXCEPT !.pc = "naming"]
    /\ UNCHANGED <<peerIPs, hosts, peerHosts, stops>>
    /\ IF EmptyMaps' THEN mishaps' = {} ELSE Notes({})
    /\ UNCHANGED <<watchers, running, connected, receiver, straggler, observer,
                   probes, events>>

-----------------------------------------------------------------------------
(* Commands of the session *)

\* A command calls Reset; afterwards it goes on as next says.
CommandResets(next) ==
    /\ command' = [next EXCEPT !.pc = "clearing"]
    /\ ResetBegins(TRUE)
    /\ UNCHANGED watchers

\* Relay.SelectGame with the players listed in the room, self left out.
SelectGame(players, host) ==
    /\ command.pc = "idle"
    /\ host \in players
    /\ CommandResets([IdleCommand EXCEPT !.todo = players, !.host = host])

\* Relay.CreateRoom.
CreateRoom ==
    /\ command.pc = "idle"
    /\ CommandResets([IdleCommand EXCEPT !.host = Self])

\* Relay.Close when the session ends; a SelectGame that does not find the host
\* among the players does the same and ends the session.
Close ==
    /\ command.pc \in {"idle", "failed"}
    /\ CommandResets(IdleCommand)

\* SelectGame and CreateRoom name the host once Reset has returned.
CommandNamesHost ==
    /\ command.pc = "naming"
    /\ currentHost' = command.host
    /\ command' = [command EXCEPT
                       !.pc = IF command.host = Self THEN "connecting"
                              ELSE "assigning"]
    /\ UNCHANGED <<maps, stops, router, watchers, running, connected, receiver,
                   straggler, observer, probes, events, mishaps>>

\* CreateRoom connects to the relay server; connect holds r.mu.
CreateConnects ==
    /\ command.pc = "connecting"
    /\ RouterUnlocked
    /\ connected' \in BOOLEAN
    /\ command' = [IdleCommand EXCEPT !.pc = IF connected' THEN "idle"
                                             ELSE "failed"]
    /\ UNCHANGED <<maps, stops, router, watchers, running, currentHost, receiver,
                   straggler, observer, probes, events, mishaps>>

\* HostRoom: from now on the ping loop and the probe may reset.  (Bound: not
\* again while those of an earlier room go on.)
HostRoom ==
    /\ command.pc = "idle"
    /\ RouterUnlocked
    /\ connected
    /\ currentHost = Self
    /\ watchers = 0
    /\ watchers' = 2
    /\ UNCHANGED <<maps, stops, router, running, currentHost, connected, command,
                   receiver, straggler, observer, probes, events, mishaps>>

\* SelectGame, one turn of its loop.
AssignPlayer(p) ==
    /\ command.pc = "assigning"
    /\ p \in command.todo
    /\ \/ /\ \E i \in IP : AssignIP(p, i)
          /\ command' = [command EXCEPT !.todo = @ \ {p}]
       \/ /\ AssignFails(p)
          /\ command' = [IdleCommand EXCEPT !.pc = "failed"]
          /\ UNCHANGED <<peerIPs, ipToPeer>>
    /\ UNCHANGED <<hosts, peerHosts, stops, router>>
    /\ Notes({})
    /\ UNCHANGED <<watchers, running, currentHost, connected, receiver,
                   straggler, observer, probes, events>>

SelectGameReturns ==
    /\ command.pc = "assigning"
    /\ command.todo = {}
    /\ command' = IdleCommand
    /\ UNCHANGED <<maps, stops, router, watchers, running, currentHost, connected,
                   receiver, straggler, observer, probes, events, mishaps>>

\* Relay.Join up to its loop: connect, then the greeting to everybody.
JoinConnects(host) ==
    /\ command.pc = "idle"
    /\ RouterUnlocked
    /\ ~connected
    /\ connected' \in BOOLEAN
    /\ command' = IF connected'
                  THEN [IdleCommand EXCEPT !.pc = "starting", !.todo = Assigned,
                                           !.host = host]
                  ELSE [IdleCommand EXCEPT !.pc = "failed"]
    /\ UNCHANGED <<maps, stops, router, watchers, running, currentHost, receiver,
                   straggler, observer, probes, events, mishaps>>

\* The range over PeerIPs takes the next key; a key added meanwhile may be
\* visited too, one deleted is not.
JoinRanges(p) ==
    /\ command.pc = "starting"
    /\ p \in Assigned \ command.visited
    /\ command' = [command EXCEPT !.pc = "listening", !.peer = p,
                                  !.ip = peerIPs[p], !.visited = @ \cup {p}]
    /\ UNCHANGED <<maps, stops, router, watchers, running, currentHost, connected,
                   receiver, straggler, observer, probes, events, mishaps>>

\* StartHost for that key; only the host's has a TCP proxy, and a probe.  When
\* the probe cannot connect the command fails, and the fake host stays.
JoinStartsHost ==
    LET p == command.peer
        i == command.ip
        isHost == p = command.host IN
    /\ command.pc = "listening"
    /\ \E h \in NewHosts(p, i, isHost) :
          /\ StartFakeHost(p, i, h)
          /\ \/ /\ probes' = IF isHost THEN probes \cup {NewProbe(h, i)}
                             ELSE probes
                /\ command' = [command EXCEPT !.pc = "starting", !.peer = NoPeer,
                                              !.ip = NoIP]
             \/ /\ isHost
                /\ command' = [IdleCommand EXCEPT !.pc = "failed"]
                /\ UNCHANGED probes
    /\ UNCHANGED <<stops, router>>
    /\ Notes(Late(p, i))
    /\ UNCHANGED <<watchers, currentHost, connected, receiver, straggler,
                   observer, events>>

\* The address is in use, or the sockets cannot be opened: the command fails,
\* and the session with it.
JoinFails ==
    /\ command.pc = "listening"
    /\ command' = [IdleCommand EXCEPT !.pc = "failed"]
    /\ UNCHANGED <<maps, stops, router, watchers, running, currentHost, connected,
                   receiver, straggler, observer, probes, events, mishaps>>

JoinReturns ==
    /\ command.pc = "starting"
    /\ (command.todo \cap Assigned) \subseteq command.visited
    /\ command' = IdleCommand
    /\ UNCHANGED <<maps, stops, router, watchers, running, currentHost, connected,
                   receiver, straggler, observer, probes, events, mishaps>>

-----------------------------------------------------------------------------
(* The receive loop: a join notice, dynamicJoin *)

\* AssignIP, then whether the guest gets a TCP proxy.
DynamicJoinAssigns(p) ==
    /\ Event
    /\ connected
    /\ receiver.pc = "idle"
    /\ \E i \in IP :
          /\ AssignIP(p, i)
          /\ receiver' = [NoJoin EXCEPT !.pc = "assigned", !.peer = p, !.ip = i,
                                        !.tcp = (currentHost = Self)]
    /\ UNCHANGED <<hosts, peerHosts, stops, router>>
    /\ Notes({})
    /\ UNCHANGED <<watchers, running, currentHost, connected, command,
                   straggler, observer, probes>>

\* StartGuest, with j before and j2 after.  When it fails the peer keeps its
\* address.
GuestStarts(j, j2) ==
    /\ j.pc = "assigned"
    /\ \/ \E h \in NewHosts(j.peer, j.ip, j.tcp) :
             /\ StartFakeHost(j.peer, j.ip, h)
             /\ j2 = [j EXCEPT !.pc = "started", !.host = h]
       \/ /\ j2 = NoJoin
          /\ UNCHANGED <<maps, running>>

GuestRecorded(j, j2) ==
    /\ j.pc = "started"
    /\ SetHost(j.ip, j.peer, j.host)
    /\ j2 = NoJoin
    /\ UNCHANGED running

DynamicJoinGoesOn ==
    /\ \/ GuestStarts(receiver, receiver')
       \/ GuestRecorded(receiver, receiver')
    /\ UNCHANGED <<stops, router>>
    /\ Notes(Late(receiver.peer, receiver.ip))
    /\ UNCHANGED <<watchers, currentHost, connected, command, straggler,
                   observer, probes, events>>

\* The same after Reset has closed the stream.
StragglerGoesOn ==
    /\ \/ GuestStarts(straggler, straggler')
       \/ GuestRecorded(straggler, straggler')
    /\ UNCHANGED <<stops, router>>
    /\ Notes({"straggler"})
    /\ UNCHANGED <<watchers, currentHost, connected, command, receiver,
                   observer, probes, events>>

-----------------------------------------------------------------------------
(* The observer: LeaveRoom, LeaveLobby, HostMigration *)

HandleLeaveRoom(p) ==
    /\ Event
    /\ observer.pc = "idle"
    /\ RemoveByRemoteID(p)
    /\ UNCHANGED <<stops, router>>
    /\ Notes({})
    /\ UNCHANGED <<watchers, currentHost, connected, command, receiver,
                   straggler, observer, probes>>

\* When this player becomes the host, the game is told first; if it cannot be,
\* nothing else happens.
MigrationBegins(p) ==
    /\ observer.pc = "idle"
    /\ RouterUnlocked
    /\ Event
    /\ currentHost' = p
    /\ observer' \in
          IF p = Self
          THEN {IdleObserver,
                [IdleObserver EXCEPT
                    !.pc = "stopping",
                    !.todo = {q \in Peer : peerHosts[q] # NoHost}]}
          ELSE {[IdleObserver EXCEPT !.pc = "sleeping", !.peer = p]}
    /\ UNCHANGED <<maps, stops, router, watchers, running, connected, command,
                   receiver, straggler, probes, mishaps>>

\* This player is the host: every fake host is stopped, its address kept ...
MigrationStops(p) ==
    /\ observer.pc = "stopping"
    /\ p \in observer.todo
    /\ peerHosts[p] # NoHost
    /\ StopBegins("observer", peerHosts[p], peerHosts[p].ip)
    /\ observer' = [observer EXCEPT !.todo = @ \ {p},
                                    !.saved[p] = peerHosts[p].ip]
    /\ UNCHANGED <<maps, router, watchers, currentHost, connected, command,
                   receiver, straggler, probes, events, mishaps>>

MigrationStopped ==
    /\ observer.pc = "stopping"
    /\ stops["observer"].pc = "idle"
    /\ \A p \in observer.todo : peerHosts[p] = NoHost
    /\ observer' = [observer EXCEPT
                        !.pc = "rebinding",
                        !.todo = {p \in Peer : observer.saved[p] # NoIP}]
    /\ UNCHANGED <<maps, stops, router, watchers, running, currentHost, connected,
                   command, receiver, straggler, probes, events, mishaps>>

\* ... and a guest started at that address, one peer after the other.
MigrationRebinds(p) ==
    /\ observer.pc = "rebinding"
    /\ p \in observer.todo
    /\ \E h \in NewHosts(p, observer.saved[p], TRUE) :
          StartFakeHost(p, observer.saved[p], h)
    /\ observer' = [observer EXCEPT !.todo = @ \ {p}]
    /\ UNCHANGED <<stops, router>>
    /\ Notes(Late(p, observer.saved[p]))
    /\ UNCHANGED <<watchers, currentHost, connected, command, receiver,
                   straggler, probes, events>>

\* All are rebound, or one could not be started: the rest is dropped.
MigrationEnds ==
    /\ observer.pc = "rebinding"
    /\ observer' = IdleObserver
    /\ UNCHANGED <<maps, stops, router, watchers, running, currentHost, connected,
                   command, receiver, straggler, probes, events, mishaps>>

\* Somebody else is the host: after three seconds its address is looked up ...
MigrationWakes ==
    LET i == peerIPs[observer.peer] IN
    /\ observer.pc = "sleeping"
    /\ observer' = IF i = NoIP THEN IdleObserver
                   ELSE [observer EXCEPT !.pc = "found", !.ip = i]
    /\ UNCHANGED <<maps, stops, router, watchers, running, currentHost, connected,
                   command, receiver, straggler, probes, events, mishaps>>

\* ... and the fake host there, which is stopped, if there is one ...
MigrationStopsHost ==
    LET h == hosts[observer.ip] IN
    /\ observer.pc = "found"
    /\ IF h # NoHost
       THEN /\ StopBegins("observer", h, observer.ip)
            /\ observer' = [observer EXCEPT !.pc = "restarting"]
       ELSE /\ observer' = IdleObserver
            /\ UNCHANGED <<stops, running>>
    /\ UNCHANGED <<maps, router, watchers, currentHost, connected, command,
                   receiver, straggler, probes, events, mishaps>>

\* ... then started anew with a TCP proxy, or not.
MigrationRestarts ==
    /\ observer.pc = "restarting"
    /\ stops["observer"].pc = "idle"
    /\ observer' = IdleObserver
    /\ UNCHANGED <<stops, router>>
    /\ \/ /\ \E h \in NewHosts(observer.peer, observer.ip, TRUE) :
                StartFakeHost(observer.peer, observer.ip, h)
          /\ Notes(Late(observer.peer, observer.ip))
       \/ UNCHANGED <<maps, running, mishaps>>
    /\ UNCHANGED <<watchers, currentHost, connected, command, receiver,
                   straggler, probes, events>>

-----------------------------------------------------------------------------
(* Probes *)

\* The probe of a fake host reports it gone: stop is called with the object and
\* the address it was started with, and holds r.mu until StopHost returns.
ProbeFires(pr) ==
    /\ RouterUnlocked
    /\ router' = [UnlockedRouter EXCEPT !.pc = "stop"]
    /\ StopBegins("router", pr.host, pr.ip)
    /\ probes' = probes \ {pr}
    /\ UNCHANGED <<maps, watchers, currentHost, connected, command, receiver,
                   straggler, observer, events, mishaps>>

ProbeStopped ==
    /\ router.pc = "stop"
    /\ stops["router"].pc = "idle"
    /\ router' = UnlockedRouter
    /\ UNCHANGED <<maps, stops, watchers, running, currentHost, connected, command,
                   receiver, straggler, observer, probes, events, mishaps>>

-----------------------------------------------------------------------------

CommandStep ==
    \/ \E S \in SUBSET Peer, p \in Peer : SelectGame(S, p)
    \/ CreateRoom
    \/ Close
    \/ CommandNamesHost
    \/ CreateConnects
    \/ HostRoom
    \/ \E p \in Peer : AssignPlayer(p)
    \/ SelectGameReturns
    \/ \E p \in Peer : JoinConnects(p)
    \/ \E p \in Peer : JoinRanges(p)
    \/ JoinStartsHost
    \/ JoinFails
    \/ JoinReturns

ObserverStep ==
    \/ \E p \in Peer : HandleLeaveRoom(p)
    \/ \E p \in Peer \cup {Self} : MigrationBegins(p)
    \/ \E p \in Peer : MigrationStops(p)
    \/ MigrationStopped
    \/ \E p \in Peer : MigrationRebinds(p)
    \/ MigrationEnds
    \/ MigrationWakes
    \/ MigrationStopsHost
    \/ MigrationRestarts

\* Under r.mu.
RouterStep ==
    \/ WatcherResets
    \/ \E i \in IP : StopAllStops(i)
    \/ StopAllStopped
    \/ NewPeerHosts
    \/ NewPeerIPs
    \/ ResetReturns
    \/ \E pr \in probes : ProbeFires(pr)
    \/ ProbeStopped

Next ==
    \/ CommandStep
    \/ RouterStep
    \/ \E w \in Stopper : StopGoesOn(w)
    \/ \E p \in Peer : DynamicJoinAssigns(p)
    \/ DynamicJoinGoesOn
    \/ StragglerGoesOn
    \/ ObserverStep

Spec == Init /\ [][Next]_vars

-----------------------------------------------------------------------------
(* Properties *)

\* A StopHost has freed the address and not yet the peer.
HalfFreed(p, i) ==
    \E w \in Stopper :
        stops[w].pc = "PeerIPs" /\ stops[w].peer = p /\ stops[w].ip = i

\* PeerIPs and IPToPeerID say the same, so no two peers share an address and no
\* address leads to the wrong peer, whatever is started, stopped, migrated or
\* probed in whatever order, but for the moment between two lines of a StopHost
\* or StopAll -- unless a dynamicJoin outlived a Reset, or somebody came between
\* those lines.
AddressesAgree ==
    mishaps \cap {"straggler", "unlocked"} = {} =>
        \A p \in Peer, i \in IP :
            \/ peerIPs[p] = i <=> ipToPeer[i] = p
            \/ HalfFreed(p, i)
            \/ router.pc = "IPToPeerID"

\* Stopped and about to leave Hosts.
Leaving(i) ==
    \E w \in Stopper : stops[w].pc \in {"lookup", "Hosts"} /\ stops[w].ip = i

\* Gone from Hosts and about to leave PeerHosts.
HalfStopped(p) ==
    \E w \in Stopper :
        /\ stops[w].pc \in {"IPToPeerID", "PeerIPs", "PeerHosts"}
        /\ stops[w].peer = p

\* Hosts and PeerHosts hold the same running fake hosts, each under the peer it
\* was started for and the address that peer has, but for what a StopHost or
\* StopAll is midway with; as long as none of the three mishaps has come between
\* the maps.
HostsAgree ==
    mishaps = {} =>
        /\ \A i \in IP : hosts[i] # NoHost =>
              /\ hosts[i] \in running \/ Leaving(i)
              /\ hosts[i].ip = i
              /\ ipToPeer[i] = hosts[i].peer
              /\ peerHosts[hosts[i].peer] = hosts[i]
        /\ \A p \in Peer : peerHosts[p] # NoHost =>
              \/ hosts[peerHosts[p].ip] = peerHosts[p]
              \/ HalfStopped(p)
              \/ router.pc = "PeerHosts"

\* A departure stops the fake host of the peer that left, nobody else's.
OwnHostOnly ==
    [][mishaps = {} =>
        \A p \in Peer : HandleLeaveRoom(p) =>
            \A h \in running \ running' : h.peer = p]_vars

=============================================================================
