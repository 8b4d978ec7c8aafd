------------------------- MODULE RelayClientProofs -------------------------
(***************************************************************************)
(* Proofs about RelayClient, for any number of players, addresses, fake    *)
(* hosts and events, and about Redirects, which run behind a fake host's   *)
(* address, for any number of connections.                                 *)
(***************************************************************************)
EXTENDS RelayClient, Redirects, TLAPS

(***************************************************************************)
(* Types.  Besides TypeOK: whoever is about to start or stop a fake host   *)
(* has a peer and an address for it.                                       *)
(***************************************************************************)

MapsOK ==
    /\ peerIPs \in [Peer -> IP \cup {NoIP}]
    /\ ipToPeer \in [IP -> Peer \cup {NoPeer}]
    /\ hosts \in [IP -> FakeHost \cup {NoHost}]
    /\ peerHosts \in [Peer -> FakeHost \cup {NoHost}]
    /\ running \subseteq FakeHost

StopsOK ==
    /\ stops \in [Stopper -> Stop]
    /\ \A w \in Stopper : stops[w].pc # "idle" => stops[w].ip \in IP

CommandOK ==
    /\ command \in Command
    /\ command.pc = "listening" => command.peer \in Peer /\ command.ip \in IP

JoinOK(j) ==
    /\ j \in Join
    /\ j.pc # "idle" => j.peer \in Peer /\ j.ip \in IP
    /\ j.pc = "started" => j.host \in FakeHost

ObserverOK ==
    /\ observer \in Observer
    /\ observer.pc \in {"sleeping", "found", "restarting"} => observer.peer \in Peer
    /\ observer.pc \in {"found", "restarting"} => observer.ip \in IP
    /\ observer.pc = "rebinding" => \A p \in observer.todo : observer.saved[p] \in IP

RouterOK ==
    /\ router \in Router
    /\ watchers \in 0..2
    /\ currentHost \in Peer \cup {Self, NoPeer}
    /\ connected \in BOOLEAN
    /\ events \in 0..MaxEvents
    /\ mishaps \subseteq Mishap

Types ==
    /\ MapsOK
    /\ StopsOK
    /\ CommandOK
    /\ JoinOK(receiver)
    /\ JoinOK(straggler)
    /\ ObserverOK
    /\ probes \subseteq Probe
    /\ RouterOK

LEMMA NoIPIsNone == NoIP \notin IP
BY RelayClientAssumption DEF NoIP, IP

LEMMA NoHostIsNone == NoHost \notin FakeHost
<1>1. ASSUME NEW h \in FakeHost PROVE h # NoHost
  <2>1. PICK p \in Peer, i \in IP, t \in BOOLEAN, n \in 1..Copies :
            h = [peer |-> p, ip |-> i, tcp |-> t, nr |-> n]
    BY DEF FakeHost
  <2>. QED
    BY <2>1, RelayClientAssumption DEF IP
<1>. QED
  BY <1>1

LEMMA NewHostsType ==
    ASSUME NEW p \in Peer, NEW i \in IP, NEW tcp \in BOOLEAN, NEW h \in NewHosts(p, i, tcp)
    PROVE  h \in FakeHost /\ h.peer = p /\ h.ip = i /\ h \notin InUse
<1>1. h \in [peer : {p}, ip : {i}, tcp : {tcp}, nr : 1..Copies] /\ h \notin InUse
  BY DEF NewHosts
<1>. QED
  BY <1>1 DEF FakeHost

LEMMA NoJoinOK == JoinOK(NoJoin)
BY DEF JoinOK, NoJoin, Join

LEMMA IdleCommandOK == IdleCommand \in Command /\ IdleCommand.pc = "idle"
BY DEF IdleCommand, Command

LEMMA IdleObserverOK ==
    /\ IdleObserver \in Observer /\ IdleObserver.pc = "idle"
    /\ IdleObserver.saved = NothingSaved
BY DEF IdleObserver, Observer, NothingSaved

LEMMA NoStopOK == NoStop \in Stop /\ NoStop.pc = "idle"
BY DEF NoStop, Stop

LEMMA UnlockedRouterOK == UnlockedRouter \in Router /\ UnlockedRouter.pc = "idle"
BY DEF UnlockedRouter, Router

LEMMA NotesOK ==
    ASSUME mishaps \subseteq Mishap, NEW S \in SUBSET Mishap, Notes(S)
    PROVE  mishaps' \subseteq Mishap
BY DEF Notes, Mishap

LEMMA LateOK ==
    ASSUME NEW p, NEW i
    PROVE  Late(p, i) \in SUBSET Mishap
BY DEF Late, Mishap

LEMMA StopHostOK ==
    ASSUME MapsOK, NEW h, NEW i, StopHost(h, i)
    PROVE  MapsOK'
BY DEF MapsOK, StopHost

LEMMA StartFakeHostOK ==
    ASSUME MapsOK, NEW p \in Peer, NEW i \in IP, NEW h \in FakeHost, StartFakeHost(p, i, h)
    PROVE  MapsOK'
BY DEF MapsOK, StartFakeHost

LEMMA RemoveOK ==
    ASSUME MapsOK, NEW p \in Peer, RemoveByRemoteID(p)
    PROVE  MapsOK'
BY StopHostOK DEF RemoveByRemoteID, MapsOK, maps

LEMMA StopBeginsOK ==
    ASSUME MapsOK, StopsOK, NEW w \in Stopper, NEW h, NEW i \in IP, StopBegins(w, h, i),
           UNCHANGED maps
    PROVE  MapsOK' /\ StopsOK'
<1>1. MapsOK'
  BY DEF MapsOK, StopBegins, maps
<1>2. [NoStop EXCEPT !.pc = "lookup", !.ip = i] \in Stop
  BY DEF NoStop, Stop
<1>3. [NoStop EXCEPT !.pc = "lookup", !.ip = i].ip = i
  BY DEF NoStop
<1>. QED
  BY <1>1, <1>2, <1>3 DEF StopsOK, StopBegins

\* How the record of w changes when it goes on.
LEMMA StopChanges ==
    ASSUME StopsOK, NEW w \in Stopper
    PROVE  /\ StopLooksUp(w) =>
                  stops'[w] = [pc |-> "Hosts", ip |-> stops[w].ip, peer |-> ipToPeer[stops[w].ip]]
           /\ StopDeletesHost(w) => stops'[w] = [stops[w] EXCEPT !.pc = "IPToPeerID"]
           /\ StopDeletesAddress(w) => stops'[w] = [stops[w] EXCEPT !.pc = "PeerIPs"]
           /\ StopDeletesPeerIP(w) => stops'[w] = [stops[w] EXCEPT !.pc = "PeerHosts"]
           /\ StopDeletesPeerHost(w) => stops'[w] = NoStop
           /\ StopGoesOn(w) => \A v \in Stopper \ {w} : stops'[v] = stops[v]
BY DEF StopsOK, StopGoesOn, StopLooksUp, StopDeletesHost, StopDeletesAddress,
       StopDeletesPeerIP, StopDeletesPeerHost

LEMMA StopGoesOnTypes ==
    ASSUME Types, NEW w \in Stopper, StopGoesOn(w)
    PROVE  Types'
<1>1. MapsOK'
  BY DEF Types, MapsOK, maps, StopGoesOn, StopLooksUp, StopDeletesHost, StopDeletesAddress,
         StopDeletesPeerIP, StopDeletesPeerHost
<1>2. stops[w] \in Stop /\ (stops[w].pc # "idle" => stops[w].ip \in IP)
  BY DEF Types, StopsOK
<1>3. stops'[w] \in Stop /\ (stops'[w].pc # "idle" => stops'[w].ip \in IP)
  <2>1. CASE StopLooksUp(w)
    <3>1. ipToPeer[stops[w].ip] \in Peer \cup {NoPeer}
      BY <1>2, <2>1 DEF StopLooksUp, Types, MapsOK
    <3>2. stops'[w] = [pc |-> "Hosts", ip |-> stops[w].ip, peer |-> ipToPeer[stops[w].ip]]
      BY <2>1, StopChanges DEF Types
    <3>. QED
      BY <1>2, <2>1, <3>1, <3>2 DEF StopLooksUp, Stop
  <2>2. CASE StopDeletesHost(w)
    <3>1. stops'[w] = [stops[w] EXCEPT !.pc = "IPToPeerID"]
      BY <2>2, StopChanges DEF Types
    <3>. QED
      BY <1>2, <2>2, <3>1 DEF Stop, StopDeletesHost
  <2>3. CASE StopDeletesAddress(w)
    <3>1. stops'[w] = [stops[w] EXCEPT !.pc = "PeerIPs"]
      BY <2>3, StopChanges DEF Types
    <3>. QED
      BY <1>2, <2>3, <3>1 DEF Stop, StopDeletesAddress
  <2>4. CASE StopDeletesPeerIP(w)
    <3>1. stops'[w] = [stops[w] EXCEPT !.pc = "PeerHosts"]
      BY <2>4, StopChanges DEF Types
    <3>. QED
      BY <1>2, <2>4, <3>1 DEF Stop, StopDeletesPeerIP
  <2>5. CASE StopDeletesPeerHost(w)
    BY <2>5, StopChanges, NoStopOK DEF Types
  <2>. QED
    BY <2>1, <2>2, <2>3, <2>4, <2>5 DEF StopGoesOn
<1>4. stops' \in [Stopper -> Stop]
  <2>1. DOMAIN stops' = Stopper /\ stops' = [v \in Stopper |-> stops'[v]]
    BY DEF Types, StopsOK, StopGoesOn, StopLooksUp, StopDeletesHost, StopDeletesAddress,
           StopDeletesPeerIP, StopDeletesPeerHost
  <2>2. \A v \in Stopper : stops'[v] \in Stop
    BY <1>3, StopChanges DEF Types, StopsOK
  <2>. QED
    BY <2>1, <2>2
<1>5. StopsOK'
  <2>1. \A v \in Stopper \ {w} : stops'[v] = stops[v]
    BY StopChanges DEF Types
  <2>2. \A v \in Stopper : stops'[v].pc # "idle" => stops'[v].ip \in IP
    BY <1>3, <2>1 DEF Types, StopsOK
  <2>. QED
    BY <1>4, <2>2 DEF StopsOK
<1>6. mishaps' \subseteq Mishap
  <2>1. mishaps' = mishaps \/ Notes({})
    BY DEF StopGoesOn, StopLooksUp, StopDeletesHost, StopDeletesAddress, StopDeletesPeerIP,
           StopDeletesPeerHost
  <2>. QED
    BY <2>1, NotesOK DEF Types, RouterOK
<1>. QED
  BY <1>1, <1>5, <1>6 DEF StopGoesOn, Types, CommandOK, JoinOK, ObserverOK, RouterOK

LEMMA InitTypes == Init => Types
<1>. SUFFICES ASSUME Init PROVE Types
  OBVIOUS
<1>1. MapsOK
  BY DEF Init, EmptyMaps, MapsOK
<1>2. CommandOK /\ JoinOK(receiver) /\ JoinOK(straggler) /\ ObserverOK
  BY IdleCommandOK, NoJoinOK, IdleObserverOK DEF Init, CommandOK, ObserverOK
<1>3. RouterOK
  <2>1. events \in 0..MaxEvents /\ watchers \in 0..2
    BY RelayClientAssumption DEF Init
  <2>2. connected \in BOOLEAN
    BY DEF Init
  <2>3. router \in Router /\ mishaps \subseteq Mishap /\ currentHost = NoPeer
    BY UnlockedRouterOK DEF Init
  <2>. QED
    BY <2>1, <2>2, <2>3 DEF RouterOK
<1>4. StopsOK
  BY NoStopOK DEF Init, StopsOK
<1>. QED
  BY <1>1, <1>2, <1>3, <1>4 DEF Init, Types

LEMMA EventOK ==
    ASSUME RouterOK, Event
    PROVE  events' \in 0..MaxEvents
BY RelayClientAssumption DEF RouterOK, Event

\* Reset, by whomever.
LEMMA ResetBeginsTypes ==
    ASSUME Types, NEW b \in BOOLEAN, ResetBegins(b), CommandOK', watchers' \in 0..2
    PROVE  Types'
<1>1. MapsOK' /\ StopsOK'
  BY DEF Types, ResetBegins, MapsOK, StopsOK, maps
<1>2. JoinOK(receiver)' /\ JoinOK(straggler)'
  BY NoJoinOK DEF Types, ResetBegins
<1>3. RouterOK'
  BY EventOK DEF Types, RouterOK, Router, ResetBegins
<1>. QED
  BY <1>1, <1>2, <1>3 DEF Types, ResetBegins, ObserverOK

LEMMA ResetCommandTypes ==
    ASSUME Types, \/ \E S \in SUBSET Peer, p \in Peer : SelectGame(S, p)
                  \/ CreateRoom
                  \/ Close
    PROVE  Types'
<1>1. ASSUME NEW next \in Command, CommandResets(next) PROVE Types'
  <2>1. CommandOK'
    BY <1>1 DEF CommandResets, CommandOK, Command
  <2>2. watchers' \in 0..2
    BY <1>1 DEF CommandResets, Types, RouterOK
  <2>. QED
    BY <1>1, <2>1, <2>2, ResetBeginsTypes DEF CommandResets
<1>2. ASSUME NEW S \in SUBSET Peer, NEW p \in Peer, SelectGame(S, p) PROVE Types'
  <2>1. [IdleCommand EXCEPT !.todo = S, !.host = p] \in Command
    BY DEF IdleCommand, Command
  <2>. QED
    BY <1>1, <1>2, <2>1 DEF SelectGame
<1>3. ASSUME CreateRoom PROVE Types'
  <2>1. [IdleCommand EXCEPT !.host = Self] \in Command
    BY DEF IdleCommand, Command
  <2>. QED
    BY <1>1, <1>3, <2>1 DEF CreateRoom
<1>4. ASSUME Close PROVE Types'
  BY <1>1, <1>4, IdleCommandOK DEF Close
<1>. QED
  BY <1>2, <1>3, <1>4

LEMMA WatcherResetsTypes ==
    ASSUME Types, WatcherResets
    PROVE  Types'
<1>1. watchers' \in 0..2
  BY DEF WatcherResets, Types, RouterOK
<1>. QED
  BY <1>1, ResetBeginsTypes DEF WatcherResets, Types, CommandOK

\* The lines of StopAll.
LEMMA StopAllTypes ==
    ASSUME Types,
           \/ \E i \in IP : StopAllStops(i)
           \/ StopAllStopped
           \/ NewPeerHosts
           \/ NewPeerIPs
           \/ ResetReturns
    PROVE  Types'
<1>1. UNCHANGED <<watchers, connected, receiver, straggler, observer, probes, events>>
  BY DEF StopAllStops, StopAllStopped, NewPeerHosts, NewPeerIPs, ResetReturns
<1>2. MapsOK' /\ StopsOK'
  <2>1. ASSUME NEW i \in IP, StopAllStops(i) PROVE MapsOK' /\ StopsOK'
    <3>1. "router" \in Stopper
      BY DEF Stopper
    <3>. QED
      BY <2>1, <3>1, StopBeginsOK DEF StopAllStops, Types
  <2>2. CASE StopAllStopped \/ NewPeerHosts \/ NewPeerIPs \/ ResetReturns
    BY <2>2 DEF StopAllStopped, NewPeerHosts, NewPeerIPs, ResetReturns, Types, MapsOK, StopsOK
  <2>. QED
    BY <2>1, <2>2
<1>3. CommandOK'
  <2>1. CASE command' = command
    BY <2>1 DEF Types, CommandOK
  <2>2. CASE ResetReturns
    BY <2>2 DEF ResetReturns, Types, CommandOK, Command, IdleCommand
  <2>. QED
    BY <2>1, <2>2 DEF StopAllStops, StopAllStopped, NewPeerHosts, NewPeerIPs
<1>4. router' \in Router /\ currentHost' \in Peer \cup {Self, NoPeer}
  <2>1. CASE ResetReturns
    BY <2>1, UnlockedRouterOK DEF ResetReturns
  <2>2. CASE (\E i \in IP : StopAllStops(i)) \/ StopAllStopped \/ NewPeerHosts \/ NewPeerIPs
    BY <2>2 DEF StopAllStops, StopAllStopped, NewPeerHosts, NewPeerIPs, Types, RouterOK, Router
  <2>. QED
    BY <2>1, <2>2
<1>5. mishaps' \subseteq Mishap
  <2>1. mishaps' = mishaps \/ mishaps' = {} \/ Notes({})
    BY DEF StopAllStops, StopAllStopped, NewPeerHosts, NewPeerIPs, ResetReturns
  <2>. QED
    BY <2>1, NotesOK DEF Types, RouterOK
<1>. QED
  BY <1>1, <1>2, <1>3, <1>4, <1>5 DEF Types, RouterOK, JoinOK, ObserverOK

LEMMA ProbeTypes ==
    ASSUME Types, ProbeStopped \/ \E pr \in probes : ProbeFires(pr)
    PROVE  Types'
<1>1. CASE ProbeStopped
  <2>1. router' \in Router
    BY <1>1 DEF ProbeStopped, UnlockedRouter, Router
  <2>. QED
    BY <1>1, <2>1 DEF ProbeStopped, Types, MapsOK, StopsOK, CommandOK, JoinOK, ObserverOK,
                      RouterOK, maps
<1>2. ASSUME NEW pr \in probes, ProbeFires(pr) PROVE Types'
  <2>1. "router" \in Stopper /\ pr.ip \in IP
    BY DEF Stopper, Types, Probe
  <2>2. MapsOK' /\ StopsOK'
    BY <1>2, <2>1, StopBeginsOK DEF ProbeFires, Types
  <2>3. router' \in Router
    BY <1>2 DEF ProbeFires, UnlockedRouter, Router
  <2>. QED
    BY <1>2, <2>2, <2>3 DEF ProbeFires, Types, CommandOK, JoinOK, ObserverOK, RouterOK
<1>. QED
  BY <1>1, <1>2

\* The commands' steps that start nothing.
LEMMA CommandTypes ==
    ASSUME Types,
           \/ CommandNamesHost
           \/ CreateConnects
           \/ HostRoom
           \/ \E p \in Peer : AssignPlayer(p)
           \/ SelectGameReturns
           \/ \E p \in Peer : JoinConnects(p)
           \/ \E p \in Peer : JoinRanges(p)
           \/ JoinFails
           \/ JoinReturns
    PROVE  Types'
<1>1. MapsOK'
  <2>1. ASSUME NEW p \in Peer, AssignPlayer(p) PROVE MapsOK'
    BY <2>1 DEF Types, MapsOK, AssignPlayer, AssignIP
  <2>. QED
    BY <2>1 DEF Types, MapsOK, maps, CommandNamesHost, CreateConnects, HostRoom,
                SelectGameReturns, JoinConnects, JoinRanges, JoinFails, JoinReturns
<1>2. CommandOK'
  <2>1. CASE CreateConnects \/ SelectGameReturns \/ JoinFails \/ JoinReturns \/ HostRoom
    BY <2>1 DEF CreateConnects, SelectGameReturns, JoinFails, JoinReturns, HostRoom, CommandOK,
                IdleCommand, Command, Types
  <2>5. CASE CommandNamesHost
    BY <2>5 DEF CommandNamesHost, Types, CommandOK, Command
  <2>2. ASSUME NEW p \in Peer, AssignPlayer(p) PROVE CommandOK'
    BY <2>2 DEF AssignPlayer, Types, CommandOK, IdleCommand, Command
  <2>3. ASSUME NEW p \in Peer, JoinConnects(p) PROVE CommandOK'
    BY <2>3 DEF JoinConnects, Types, CommandOK, IdleCommand, Command, Assigned
  <2>4. ASSUME NEW p \in Peer, JoinRanges(p) PROVE CommandOK'
    <3>1. peerIPs[p] \in IP
      BY <2>4 DEF JoinRanges, Assigned, Types, MapsOK
    <3>. QED
      BY <2>4, <3>1 DEF JoinRanges, Types, CommandOK, Command
  <2>. QED
    BY <2>1, <2>2, <2>3, <2>4, <2>5
<1>3. mishaps' \subseteq Mishap
  <2>1. mishaps' = mishaps \/ Notes({})
    BY DEF CommandNamesHost, CreateConnects, HostRoom, AssignPlayer, SelectGameReturns,
           JoinConnects, JoinRanges, JoinFails, JoinReturns
  <2>. QED
    BY <2>1, NotesOK DEF Types, RouterOK
<1>4. RouterOK'
  <2>1. router' = router /\ events' = events /\ (watchers' = watchers \/ watchers' = 2)
    BY Zenon DEF CommandNamesHost, CreateConnects, HostRoom, AssignPlayer,
       SelectGameReturns, JoinConnects, JoinRanges, JoinFails, JoinReturns
  <2>5. watchers' \in 0..2
    BY <2>1 DEF Types, RouterOK
  <2>2. currentHost' \in Peer \cup {Self, NoPeer}
    <3>1. currentHost' = currentHost \/ currentHost' = command.host
      BY Zenon DEF CommandNamesHost, CreateConnects, HostRoom, AssignPlayer,
         SelectGameReturns, JoinConnects, JoinRanges, JoinFails, JoinReturns
    <3>. QED
      BY <3>1 DEF Types, RouterOK, CommandOK, Command
  <2>3. connected' = connected \/ connected' \in BOOLEAN
    BY Zenon DEF CommandNamesHost, CreateConnects, HostRoom,
           AssignPlayer, SelectGameReturns, JoinConnects, JoinRanges, JoinFails, JoinReturns
  <2>4. connected' \in BOOLEAN
    BY <2>3 DEF Types, RouterOK
  <2>. QED
    BY <1>3, <2>1, <2>2, <2>4, <2>5 DEF Types, RouterOK
<1>5. UNCHANGED <<receiver, straggler, observer, probes, stops>>
  BY DEF CommandNamesHost, CreateConnects, HostRoom, AssignPlayer, SelectGameReturns,
         JoinConnects, JoinRanges, JoinFails, JoinReturns
<1>. QED
  BY <1>1, <1>2, <1>4, <1>5 DEF Types, ObserverOK, StopsOK

LEMMA JoinStartsHostTypes ==
    ASSUME Types, JoinStartsHost
    PROVE  Types'
<1>. DEFINE p == command.peer
            i == command.ip
            isHost == p = command.host
<1>1. p \in Peer /\ i \in IP
  BY DEF JoinStartsHost, Types, CommandOK
<1>2. PICK h \in NewHosts(p, i, isHost) :
          /\ StartFakeHost(p, i, h)
          /\ \/ /\ probes' = IF isHost THEN probes \cup {NewProbe(h, i)} ELSE probes
                /\ command' = [command EXCEPT !.pc = "starting", !.peer = NoPeer,
                                              !.ip = NoIP]
             \/ /\ isHost
                /\ command' = [IdleCommand EXCEPT !.pc = "failed"]
                /\ UNCHANGED probes
  BY DEF JoinStartsHost
<1>3. h \in FakeHost
  BY <1>1, <1>2, NewHostsType
<1>4. MapsOK'
  BY <1>1, <1>2, <1>3, StartFakeHostOK DEF Types
<1>5. probes' \subseteq Probe
  BY <1>1, <1>2, <1>3 DEF Types, NewProbe, Probe
<1>6. CommandOK'
  BY <1>2 DEF Types, CommandOK, Command, IdleCommand
<1>7. mishaps' \subseteq Mishap
  BY NotesOK, LateOK DEF JoinStartsHost, Types, RouterOK
<1>. QED
  BY <1>4, <1>5, <1>6, <1>7 DEF JoinStartsHost, Types, ObserverOK, StopsOK, RouterOK

LEMMA AssignIPOK ==
    ASSUME MapsOK, NEW p \in Peer, NEW i \in IP, AssignIP(p, i),
           UNCHANGED <<hosts, peerHosts, running>>
    PROVE  MapsOK'
BY DEF MapsOK, AssignIP

LEMMA DynamicJoinAssignsTypes ==
    ASSUME Types, NEW p \in Peer, DynamicJoinAssigns(p)
    PROVE  Types'
<1>1. PICK i \in IP :
          /\ AssignIP(p, i)
          /\ receiver' = [NoJoin EXCEPT !.pc = "assigned", !.peer = p, !.ip = i,
                                        !.tcp = (currentHost = Self)]
  BY DEF DynamicJoinAssigns
<1>2. MapsOK'
  BY <1>1, AssignIPOK DEF DynamicJoinAssigns, Types
<1>3. JoinOK(receiver)'
  BY <1>1 DEF JoinOK, NoJoin, Join
<1>4. mishaps' \subseteq Mishap /\ events' \in 0..MaxEvents
  BY NotesOK, EventOK DEF DynamicJoinAssigns, Types, RouterOK
<1>. QED
  BY <1>2, <1>3, <1>4 DEF DynamicJoinAssigns, Types, StopsOK, CommandOK, JoinOK, ObserverOK,
                          RouterOK

\* dynamicJoin goes on, in the receive loop or after it.
LEMMA GuestTypes ==
    ASSUME MapsOK, NEW j, NEW j2, JoinOK(j), GuestStarts(j, j2) \/ GuestRecorded(j, j2)
    PROVE  MapsOK' /\ JoinOK(j2)
<1>1. CASE j2 = NoJoin /\ UNCHANGED <<maps, running>>
  BY <1>1, NoJoinOK DEF MapsOK, maps
<1>2. ASSUME j.pc = "assigned", NEW h \in NewHosts(j.peer, j.ip, j.tcp),
             StartFakeHost(j.peer, j.ip, h), j2 = [j EXCEPT !.pc = "started", !.host = h]
      PROVE  MapsOK' /\ JoinOK(j2)
  <2>1. j.peer \in Peer /\ j.ip \in IP /\ j.tcp \in BOOLEAN /\ j \in Join
    BY <1>2 DEF JoinOK, Join
  <2>2. h \in FakeHost
    BY <2>1, NewHostsType
  <2>3. MapsOK'
    BY <1>2, <2>1, <2>2, StartFakeHostOK
  <2>4. JoinOK(j2)
    BY <1>2, <2>1, <2>2 DEF JoinOK, Join
  <2>. QED
    BY <2>3, <2>4
<1>3. CASE GuestRecorded(j, j2)
  <2>1. j.peer \in Peer /\ j.ip \in IP /\ j.host \in FakeHost
    BY <1>3 DEF GuestRecorded, JoinOK
  <2>2. MapsOK'
    BY <1>3, <2>1 DEF GuestRecorded, SetHost, MapsOK
  <2>. QED
    BY <1>3, <2>2, NoJoinOK DEF GuestRecorded
<1>. QED
  BY <1>1, <1>2, <1>3 DEF GuestStarts

LEMMA DynamicJoinGoesOnTypes ==
    ASSUME Types, DynamicJoinGoesOn \/ StragglerGoesOn
    PROVE  Types'
<1>1. MapsOK' /\ JoinOK(receiver)' /\ JoinOK(straggler)'
  <2>1. CASE DynamicJoinGoesOn
    BY <2>1, GuestTypes DEF DynamicJoinGoesOn, Types, JoinOK
  <2>2. CASE StragglerGoesOn
    BY <2>2, GuestTypes DEF StragglerGoesOn, Types, JoinOK
  <2>. QED
    BY <2>1, <2>2
<1>2. mishaps' \subseteq Mishap
  <2>1. {"straggler"} \in SUBSET Mishap
    BY DEF Mishap
  <2>. QED
    BY <2>1, NotesOK, LateOK DEF DynamicJoinGoesOn, StragglerGoesOn, Types, RouterOK
<1>3. UNCHANGED <<command, observer, probes, stops, router, watchers, currentHost,
                  connected, events>>
  BY DEF DynamicJoinGoesOn, StragglerGoesOn
<1>. QED
  BY <1>1, <1>2, <1>3 DEF Types, StopsOK, CommandOK, ObserverOK, RouterOK

LEMMA HandleLeaveRoomTypes ==
    ASSUME Types, NEW p \in Peer, HandleLeaveRoom(p)
    PROVE  Types'
<1>1. MapsOK'
  BY RemoveOK DEF HandleLeaveRoom, Types
<1>2. mishaps' \subseteq Mishap /\ events' \in 0..MaxEvents
  BY NotesOK, EventOK DEF HandleLeaveRoom, Types, RouterOK
<1>. QED
  BY <1>1, <1>2 DEF HandleLeaveRoom, Types, StopsOK, CommandOK, ObserverOK, JoinOK, RouterOK

LEMMA MigrationBeginsTypes ==
    ASSUME Types, NEW p \in Peer \cup {Self}, MigrationBegins(p)
    PROVE  Types'
<1>1. MapsOK' /\ StopsOK'
  BY DEF MigrationBegins, Types, MapsOK, StopsOK, maps
<1>2. ObserverOK'
  <2>1. CASE observer' = IdleObserver
    BY <2>1, IdleObserverOK DEF ObserverOK
  <2>2. CASE observer' = [IdleObserver EXCEPT !.pc = "stopping",
                                              !.todo = {q \in Peer : peerHosts[q] # NoHost}]
    BY <2>2 DEF ObserverOK, IdleObserver, Observer, NothingSaved
  <2>3. CASE p \in Peer /\ observer' = [IdleObserver EXCEPT !.pc = "sleeping", !.peer = p]
    BY <2>3 DEF ObserverOK, IdleObserver, Observer, NothingSaved
  <2>. QED
    BY <2>1, <2>2, <2>3 DEF MigrationBegins
<1>3. RouterOK'
  BY EventOK DEF MigrationBegins, Types, RouterOK
<1>. QED
  BY <1>1, <1>2, <1>3 DEF MigrationBegins, Types, CommandOK, JoinOK

LEMMA MigrationTypes ==
    ASSUME Types,
           \/ \E p \in Peer : MigrationStops(p)
           \/ MigrationStopped
           \/ \E p \in Peer : MigrationRebinds(p)
           \/ MigrationEnds
           \/ MigrationWakes
           \/ MigrationStopsHost
           \/ MigrationRestarts
    PROVE  Types'
<1>. DEFINE Good == MapsOK' /\ StopsOK' /\ ObserverOK'
<1>0. "observer" \in Stopper
  BY DEF Stopper
<1>1. ASSUME NEW p \in Peer, MigrationStops(p) PROVE Good
  <2>1. peerHosts[p].ip \in IP
    BY <1>1 DEF MigrationStops, Types, MapsOK, FakeHost
  <2>2. MapsOK' /\ StopsOK'
    BY <1>0, <1>1, <2>1, StopBeginsOK DEF MigrationStops, Types
  <2>3. ObserverOK'
    BY <1>1, <2>1 DEF MigrationStops, Types, ObserverOK, Observer
  <2>. QED
    BY <2>2, <2>3
<1>2. ASSUME MigrationStopped PROVE Good
  BY <1>2 DEF MigrationStopped, Types, ObserverOK, Observer, MapsOK, StopsOK, maps
<1>3. ASSUME NEW p \in Peer, MigrationRebinds(p) PROVE Good
  <2>1. observer.saved[p] \in IP
    BY <1>3 DEF MigrationRebinds, Types, ObserverOK
  <2>2. MapsOK'
    BY <1>3, <2>1, NewHostsType, StartFakeHostOK DEF MigrationRebinds, Types
  <2>3. ObserverOK'
    BY <1>3 DEF MigrationRebinds, Types, ObserverOK, Observer
  <2>. QED
    BY <1>3, <2>2, <2>3 DEF MigrationRebinds, Types, StopsOK
<1>4. ASSUME MigrationEnds PROVE Good
  BY <1>4, IdleObserverOK DEF MigrationEnds, Types, ObserverOK, MapsOK, StopsOK, maps
<1>5. ASSUME MigrationWakes PROVE Good
  <2>. DEFINE i == peerIPs[observer.peer]
  <2>1. i \in IP \cup {NoIP}
    BY <1>5 DEF MigrationWakes, Types, ObserverOK, MapsOK
  <2>2. ObserverOK'
    BY <1>5, <2>1, IdleObserverOK DEF MigrationWakes, Types, ObserverOK, Observer
  <2>. QED
    BY <1>5, <2>2 DEF MigrationWakes, Types, MapsOK, StopsOK, maps
<1>6. ASSUME MigrationStopsHost PROVE Good
  <2>1. observer.ip \in IP /\ observer.peer \in Peer
    BY <1>6 DEF MigrationStopsHost, Types, ObserverOK
  <2>2. MapsOK' /\ StopsOK'
    BY <1>0, <1>6, <2>1, StopBeginsOK DEF MigrationStopsHost, Types, MapsOK, StopsOK, maps
  <2>3. ObserverOK'
    BY <1>6, <2>1, IdleObserverOK DEF MigrationStopsHost, Types, ObserverOK, Observer
  <2>. QED
    BY <2>2, <2>3
<1>7. ASSUME MigrationRestarts PROVE Good
  <2>1. observer.peer \in Peer /\ observer.ip \in IP
    BY <1>7 DEF MigrationRestarts, Types, ObserverOK
  <2>2. MapsOK'
    BY <1>7, <2>1, NewHostsType, StartFakeHostOK DEF MigrationRestarts, Types, MapsOK, maps
  <2>. QED
    BY <1>7, <2>2, IdleObserverOK DEF MigrationRestarts, ObserverOK, Types, StopsOK
<1>8. Good
  BY <1>1, <1>2, <1>3, <1>4, <1>5, <1>6, <1>7
<1>9. mishaps' \subseteq Mishap
  BY NotesOK, LateOK DEF Types, RouterOK, MigrationStops, MigrationStopped,
     MigrationRebinds, MigrationEnds, MigrationWakes, MigrationStopsHost, MigrationRestarts
<1>10. UNCHANGED <<command, receiver, straggler, probes, router, watchers, currentHost,
                   connected, events>>
  BY DEF MigrationStops, MigrationStopped, MigrationRebinds, MigrationEnds, MigrationWakes,
         MigrationStopsHost, MigrationRestarts
<1>. QED
  BY <1>8, <1>9, <1>10 DEF Types, CommandOK, JoinOK, RouterOK

LEMMA NextTypes == Types /\ [Next]_vars => Types'
<1>. SUFFICES ASSUME Types, [Next]_vars PROVE Types'
  OBVIOUS
<1>1. CASE CommandStep
  BY <1>1, ResetCommandTypes, CommandTypes, JoinStartsHostTypes DEF CommandStep
<1>2. CASE RouterStep
  BY <1>2, WatcherResetsTypes, StopAllTypes, ProbeTypes DEF RouterStep
<1>3. CASE ObserverStep
  BY <1>3, HandleLeaveRoomTypes, MigrationBeginsTypes, MigrationTypes DEF ObserverStep
<1>4. CASE UNCHANGED vars
  BY <1>4 DEF vars, maps, Types, MapsOK, StopsOK, CommandOK, JoinOK, ObserverOK, RouterOK
<1>. QED
  BY <1>1, <1>2, <1>3, <1>4, StopGoesOnTypes, DynamicJoinAssignsTypes,
     DynamicJoinGoesOnTypes DEF Next


(***************************************************************************)
(* The address maps.  Each StopHost without the mutex relies, line by line *)
(* on what it found when it looked the peer up; nobody came between its    *)
(* lines, unless the history says so.                                      *)
(***************************************************************************)

\* No receive loop runs while a command that clears the maps is at work, nor
\* during Reset.
NoLoopMeanwhile ==
    (connected \/ receiver.pc # "idle") =>
        /\ command.pc \notin {"clearing", "naming", "assigning", "connecting"}
        /\ router.pc \in {"idle", "stop"}

Clean == "straggler" \notin mishaps /\ "unlocked" \notin mishaps

\* An address leads to the peer that has it ...
Led == \A p \in Peer, i \in IP : ipToPeer[i] = p => peerIPs[p] = i

\* ... and a peer's address to the peer, or to nobody for a moment ...
Known ==
    \A p \in Peer, i \in IP :
        peerIPs[p] = i => \/ ipToPeer[i] = p
                          \/ ipToPeer[i] = NoPeer /\ HalfFreed(p, i)

\* ... and no two peers have the same.
Alone ==
    \A p, q \in Peer : (peerIPs[p] = peerIPs[q] /\ peerIPs[p] # NoIP) => p = q

\* What w has looked up is still so, as far as w has not deleted it.
StopFits(w) ==
    LET i == stops[w].ip
        p == stops[w].peer
    IN  /\ stops[w].pc \in {"Hosts", "IPToPeerID"} =>
               \/ ipToPeer[i] = p
               \/ ipToPeer[i] = NoPeer /\ (p \in Peer => peerIPs[p] = NoIP)
        /\ stops[w].pc = "PeerIPs" =>
               ipToPeer[i] = NoPeer /\ (p \in Peer => peerIPs[p] \in {i, NoIP})
        /\ stops[w].pc = "PeerHosts" => (p \in Peer => peerIPs[p] = NoIP)

\* The address of a dynamicJoin under way is its peer's or nobody's.
Reserved ==
    receiver.pc # "idle" =>
        /\ \A p \in Peer : peerIPs[p] = receiver.ip => p = receiver.peer
        /\ peerIPs[receiver.peer] \in {receiver.ip, NoIP}

NoAddresses == \A p \in Peer : peerIPs[p] = NoIP

AddressesOK ==
    /\ router.pc = "IPToPeerID" \/ Led
    /\ Known
    /\ Alone
    /\ \A w \in Stopper : StopFits(w)
    /\ router.pc = "IPToPeerID" => NoAddresses
    /\ Reserved

Addresses == Clean => AddressesOK

IInv == Types /\ NoLoopMeanwhile /\ Addresses

\* This step leaves alone what w is about to delete.
Spares(w) ==
    LET i == stops[w].ip
        p == stops[w].peer
    IN  /\ hosts'[i] = hosts[i]
        /\ ipToPeer'[i] = ipToPeer[i]
        /\ p \in Peer => peerIPs'[p] = peerIPs[p] /\ peerHosts'[p] = peerHosts[p]

Midway(w) == stops[w].pc \notin {"idle", "lookup"}

LEMMA Frame ==
    ASSUME NEW S, Notes(S), "unlocked" \notin mishaps'
    PROVE  /\ \A w \in Stopper : (Midway(w) /\ stops'[w] = stops[w]) => Spares(w)
           /\ (Replacing /\ router' = router) => maps' = maps
           /\ mishaps \subseteq mishaps' /\ S \subseteq mishaps'
<1>1. ~Disturbs /\ mishaps' = mishaps \cup S
  BY DEF Notes
<1>. QED
  BY <1>1 DEF Disturbs, Spares, Midway

LEMMA NotesGrow ==
    ASSUME NEW S, Notes(S)
    PROVE  mishaps \subseteq mishaps' /\ S \subseteq mishaps' /\ (Clean' => Clean)
BY DEF Notes, Clean

LEMMA InitIInv == Init => IInv
<1>. SUFFICES ASSUME Init PROVE IInv
  OBVIOUS
<1>1. NoLoopMeanwhile
  BY DEF Init, NoLoopMeanwhile, NoJoin
<1>2. Led /\ Known /\ Alone /\ Reserved
  BY NoIPIsNone, RelayClientAssumption
     DEF Init, EmptyMaps, Led, Known, Alone, Reserved, NoJoin
<1>3. \A w \in Stopper : StopFits(w)
  BY DEF Init, StopFits, NoStop
<1>4. router.pc # "IPToPeerID"
  BY DEF Init, UnlockedRouter
<1>. QED
  BY <1>1, <1>2, <1>3, <1>4, InitTypes DEF IInv, Addresses, AddressesOK

LEMMA NextNoLoopMeanwhile == Types /\ NoLoopMeanwhile /\ [Next]_vars => NoLoopMeanwhile'
<1>. SUFFICES ASSUME Types, NoLoopMeanwhile, [Next]_vars PROVE NoLoopMeanwhile'
  OBVIOUS
<1>. DEFINE Calm == command.pc \notin {"clearing", "naming", "assigning", "connecting"}
            Looping == connected \/ receiver.pc # "idle"
            Free == router.pc \in {"idle", "stop"}
<1>0. ASSUME Looping' => Looping, Calm => Calm', Free => Free' PROVE NoLoopMeanwhile'
  BY <1>0 DEF NoLoopMeanwhile
<1>1. ASSUME NEW b \in BOOLEAN, ResetBegins(b) PROVE NoLoopMeanwhile'
  BY <1>1 DEF ResetBegins, NoLoopMeanwhile, NoJoin
<1>2. CASE CommandStep
  <2>1. ASSUME \/ \E S \in SUBSET Peer, p \in Peer : SelectGame(S, p)
               \/ CreateRoom
               \/ Close
        PROVE  NoLoopMeanwhile'
    BY <1>1, <2>1 DEF SelectGame, CreateRoom, Close, CommandResets
  <2>2. ASSUME CommandNamesHost PROVE NoLoopMeanwhile'
    BY <2>2 DEF CommandNamesHost, NoLoopMeanwhile
  <2>3. ASSUME CreateConnects PROVE NoLoopMeanwhile'
    <3>1. command'.pc \in {"idle", "failed"}
      BY <2>3 DEF CreateConnects, IdleCommand
    <3>. QED
      BY <2>3, <3>1 DEF CreateConnects, NoLoopMeanwhile, RouterUnlocked
  <2>4. ASSUME NEW p \in Peer, JoinConnects(p) PROVE NoLoopMeanwhile'
    <3>1. command'.pc \in {"starting", "failed"}
      BY <2>4 DEF JoinConnects, IdleCommand
    <3>. QED
      BY <2>4, <3>1 DEF JoinConnects, NoLoopMeanwhile, RouterUnlocked
  <2>5. ASSUME NEW p \in Peer, AssignPlayer(p) PROVE NoLoopMeanwhile'
    <3>1. UNCHANGED <<connected, receiver, router>> /\ ~Calm
      BY <2>5 DEF AssignPlayer
    <3>. QED
      BY <1>0, <3>1
  <2>6. ASSUME \/ HostRoom
               \/ SelectGameReturns
               \/ \E p \in Peer : JoinRanges(p)
               \/ JoinStartsHost
               \/ JoinFails
               \/ JoinReturns
        PROVE  NoLoopMeanwhile'
    <3>1. UNCHANGED <<connected, receiver, router>>
      BY <2>6 DEF HostRoom, SelectGameReturns, JoinRanges, JoinStartsHost, JoinFails, JoinReturns
    <3>2. Calm => Calm'
      <4>1. CASE HostRoom
        BY <4>1 DEF HostRoom
      <4>2. CASE SelectGameReturns \/ JoinFails \/ JoinReturns
        BY <4>2 DEF SelectGameReturns, JoinFails, JoinReturns, IdleCommand
      <4>3. ASSUME NEW p \in Peer, JoinRanges(p) PROVE Calm'
        BY <4>3 DEF JoinRanges, Types, CommandOK, Command
      <4>4. ASSUME JoinStartsHost PROVE Calm'
        <5>1. \/ command' = [command EXCEPT !.pc = "starting", !.peer = NoPeer, !.ip = NoIP]
              \/ command' = [IdleCommand EXCEPT !.pc = "failed"]
          BY <4>4 DEF JoinStartsHost
        <5>. QED
          BY <5>1 DEF Types, CommandOK, Command, IdleCommand
      <4>. QED
        BY <2>6, <4>1, <4>2, <4>3, <4>4
    <3>. QED
      BY <1>0, <3>1, <3>2
  <2>. QED
    BY <1>2, <2>1, <2>2, <2>3, <2>4, <2>5, <2>6 DEF CommandStep
<1>3. CASE RouterStep
  <2>1. CASE WatcherResets
    BY <1>1, <2>1 DEF WatcherResets
  <2>2. CASE (\E i \in IP : StopAllStops(i)) \/ StopAllStopped \/ NewPeerHosts \/ NewPeerIPs
             \/ ResetReturns
    <3>1. UNCHANGED <<connected, receiver>> /\ ~Free
      BY <2>2 DEF StopAllStops, StopAllStopped, NewPeerHosts, NewPeerIPs, ResetReturns
    <3>. QED
      BY <3>1 DEF NoLoopMeanwhile
  <2>3. CASE ProbeStopped \/ \E pr \in probes : ProbeFires(pr)
    BY <2>3 DEF ProbeStopped, ProbeFires, UnlockedRouter, NoLoopMeanwhile
  <2>. QED
    BY <1>3, <2>1, <2>2, <2>3 DEF RouterStep
<1>4. ASSUME NEW p \in Peer, DynamicJoinAssigns(p) PROVE NoLoopMeanwhile'
  BY <1>4 DEF DynamicJoinAssigns, NoLoopMeanwhile
<1>5. CASE DynamicJoinGoesOn
  <2>1. UNCHANGED <<connected, command, router>> /\ receiver.pc # "idle"
    BY <1>5 DEF DynamicJoinGoesOn, GuestStarts, GuestRecorded
  <2>. QED
    BY <2>1 DEF NoLoopMeanwhile
<1>6. CASE StragglerGoesOn \/ ObserverStep \/ \E w \in Stopper : StopGoesOn(w)
  <2>1. UNCHANGED <<connected, receiver, command, router>>
    BY <1>6 DEF StragglerGoesOn, ObserverStep, StopGoesOn, HandleLeaveRoom, MigrationBegins,
                MigrationStops, MigrationStopped, MigrationRebinds, MigrationEnds,
                MigrationWakes, MigrationStopsHost, MigrationRestarts
  <2>. QED
    BY <1>0, <2>1
<1>7. CASE UNCHANGED vars
  BY <1>7 DEF vars, NoLoopMeanwhile
<1>. QED
  BY <1>2, <1>3, <1>4, <1>5, <1>6, <1>7 DEF Next

\* A step that leaves the address maps alone: a StopHost may begin, or look up
\* or delete what is not there.
LEMMA AddressesKept ==
    ASSUME Addresses, mishaps \subseteq mishaps', UNCHANGED <<peerIPs, ipToPeer>>,
           \/ receiver' = receiver
           \/ receiver'.pc = "idle"
           \/ /\ receiver.pc # "idle"
              /\ receiver'.peer = receiver.peer /\ receiver'.ip = receiver.ip,
           router'.pc = router.pc \/ "IPToPeerID" \notin {router.pc, router'.pc},
           AddressesOK => \A w \in Stopper :
               stops'[w] = stops[w] \/ (stops[w].pc # "PeerIPs" /\ StopFits(w)')
    PROVE  Addresses'
<1>. SUFFICES ASSUME Clean' PROVE AddressesOK'
  BY DEF Addresses
<1>0. AddressesOK
  BY DEF Addresses, Clean
<1>1. \A w \in Stopper : StopFits(w)'
  <2>1. ASSUME NEW w \in Stopper PROVE StopFits(w)'
    <3>1. CASE stops'[w] = stops[w]
      BY <1>0, <3>1 DEF AddressesOK, StopFits
    <3>. QED
      BY <1>0, <3>1
  <2>. QED
    BY <2>1
<1>2. \A p, i : HalfFreed(p, i) => HalfFreed(p, i)'
  BY <1>0 DEF HalfFreed
<1>3. Known'
  BY <1>0, <1>2 DEF AddressesOK, Known
<1>4. Led => Led'
  BY DEF Led
<1>5. Alone' /\ Reserved'
  BY <1>0 DEF AddressesOK, Alone, Reserved
<1>6. NoAddresses => NoAddresses'
  BY DEF NoAddresses
<1>. QED
  BY <1>0, <1>1, <1>3, <1>4, <1>5, <1>6 DEF AddressesOK

\* AssignIP, by a command or by the receive loop.
LEMMA AssignIPAddresses ==
    ASSUME Types, AddressesOK, NEW p \in Peer, NEW i \in IP, AssignIP(p, i),
           UNCHANGED <<hosts, peerHosts, stops, router>>, Notes({}), "unlocked" \notin mishaps',
           \/ receiver' = receiver /\ receiver.pc = "idle"
           \/ receiver'.peer = p /\ receiver'.ip = i
    PROVE  AddressesOK'
<1>. USE NoIPIsNone
<1>1. /\ Led \/ router.pc = "IPToPeerID"
      /\ Known /\ Alone
      /\ \A w \in Stopper : StopFits(w)
  BY DEF AddressesOK
<1>2. CASE UNCHANGED <<peerIPs, ipToPeer>> /\ peerIPs[p] = i
  <2>1. Known' /\ Alone' /\ (Led => Led') /\ (NoAddresses => NoAddresses')
    BY <1>2 DEF AddressesOK, Known, Alone, Led, NoAddresses, HalfFreed
  <2>2. \A w \in Stopper : StopFits(w)'
    BY <1>2 DEF AddressesOK, StopFits
  <2>3. Reserved'
    BY <1>2 DEF AddressesOK, Reserved, Alone
  <2>. QED
    BY <2>1, <2>2, <2>3 DEF AddressesOK
<1>3. CASE /\ peerIPs[p] = NoIP /\ ipToPeer[i] = NoPeer
           /\ peerIPs' = [peerIPs EXCEPT ![p] = i]
           /\ ipToPeer' = [ipToPeer EXCEPT ![i] = p]
  <2>0. /\ peerIPs'[p] = i /\ ipToPeer'[i] = p
        /\ \A q \in Peer \ {p} : peerIPs'[q] = peerIPs[q]
        /\ \A j \in IP \ {i} : ipToPeer'[j] = ipToPeer[j]
    BY <1>3 DEF Types, MapsOK
  <2>1. ~Replacing
    <3>1. maps' # maps
      BY <1>3, <2>0 DEF maps
    <3>. QED
      BY <3>1, Frame
  <2>2. ASSUME NEW w \in Stopper, Midway(w) PROVE stops[w].ip # i /\ stops[w].peer # p
    <3>1. Spares(w)
      BY <2>2, Frame
    <3>. QED
      BY <1>3, <2>0, <3>1, RelayClientAssumption DEF Spares
  <2>3. router.pc # "IPToPeerID" /\ Led
    BY <2>1 DEF Replacing, AddressesOK
  <2>4. Led'
    <3>1. ASSUME NEW q \in Peer, NEW j \in IP, ipToPeer'[j] = q PROVE peerIPs'[q] = j
      <4>1. CASE j = i
        BY <2>0, <3>1, <4>1
      <4>2. CASE j # i
        <5>1. ipToPeer[j] = q
          BY <2>0, <3>1, <4>2
        <5>2. peerIPs[q] = j
          BY <2>3, <5>1 DEF Led
        <5>. QED
          BY <1>3, <2>0, <5>2
      <4>. QED
        BY <4>1, <4>2
    <3>. QED
      BY <3>1 DEF Led
  <2>5. ASSUME NEW q \in Peer PROVE ~(peerIPs[q] = i)
    <3>1. SUFFICES ASSUME peerIPs[q] = i PROVE FALSE
      OBVIOUS
    <3>2. HalfFreed(q, i)
      BY <1>3, <3>1, RelayClientAssumption DEF AddressesOK, Known
    <3>. QED
      BY <2>2, <3>2 DEF HalfFreed, Midway
  <2>6. Known'
    <3>1. ASSUME NEW q \in Peer, NEW j \in IP, peerIPs'[q] = j
          PROVE  ipToPeer'[j] = q \/ (ipToPeer'[j] = NoPeer /\ HalfFreed(q, j)')
      <4>1. CASE q = p
        BY <2>0, <3>1, <4>1
      <4>2. CASE q # p
        <5>1. peerIPs[q] = j /\ j # i
          BY <2>0, <2>5, <3>1, <4>2
        <5>2. ipToPeer'[j] = ipToPeer[j] /\ HalfFreed(q, j)' = HalfFreed(q, j)
          BY <2>0, <5>1 DEF HalfFreed
        <5>. QED
          BY <5>1, <5>2 DEF AddressesOK, Known
      <4>. QED
        BY <4>1, <4>2
    <3>. QED
      BY <3>1 DEF Known
  <2>7. Alone'
    BY <2>0, <2>5 DEF AddressesOK, Alone
  <2>8. ASSUME NEW w \in Stopper PROVE StopFits(w)'
    <3>1. StopFits(w) /\ (Midway(w) => stops[w].ip \in IP)
      BY DEF AddressesOK, Types, StopsOK, Midway
    <3>2. CASE Midway(w)
      BY <2>0, <2>2, <3>1, <3>2 DEF StopFits
    <3>3. CASE ~Midway(w)
      BY <3>3 DEF StopFits, Midway
    <3>. QED
      BY <3>2, <3>3
  <2>9. Reserved'
    BY <2>0, <2>5 DEF Reserved
  <2>. QED
    BY <2>3, <2>4, <2>6, <2>7, <2>8, <2>9 DEF AddressesOK
<1>. QED
  BY <1>2, <1>3 DEF AssignIP, NextIP, FreeIPs

\* SetHost, by the receive loop.
LEMMA SetHostAddresses ==
    ASSUME Types, AddressesOK, receiver.pc = "started", receiver'.pc = "idle",
           SetHost(receiver.ip, receiver.peer, receiver.host),
           UNCHANGED <<stops, router>>, router.pc # "IPToPeerID",
           NEW S, Notes(S), "unlocked" \notin mishaps'
    PROVE  AddressesOK'
<1>. USE NoIPIsNone
<1>. DEFINE i == receiver.ip
            p == receiver.peer
<1>0. p \in Peer /\ i \in IP
  BY DEF Types, JoinOK
<1>1. /\ peerIPs'[p] = i /\ ipToPeer'[i] = p
      /\ \A q \in Peer \ {p} : peerIPs'[q] = peerIPs[q]
      /\ \A j \in IP \ {i} : ipToPeer'[j] = ipToPeer[j]
  BY <1>0 DEF Types, MapsOK, SetHost
<1>2. Led /\ Reserved
  BY DEF AddressesOK
<1>3. \A q \in Peer \ {p} : peerIPs[q] # i /\ ipToPeer[i] # q
  BY <1>0, <1>2 DEF Reserved, Led
<1>4. ASSUME NEW w \in Stopper, Midway(w)
      PROVE  /\ stops[w].ip = i => ipToPeer[i] = p
             /\ stops[w].peer = p => peerIPs[p] = i
  <2>1. Spares(w)
    BY <1>4, Frame
  <2>. QED
    BY <1>0, <1>1, <2>1 DEF Spares
<1>5. Led'
  <2>1. ASSUME NEW q \in Peer, NEW j \in IP, ipToPeer'[j] = q PROVE peerIPs'[q] = j
    <3>1. CASE j = i
      BY <1>1, <2>1, <3>1
    <3>2. CASE j # i
      <4>1. ipToPeer[j] = q
        BY <1>1, <2>1, <3>2
      <4>2. peerIPs[q] = j
        BY <1>2, <4>1 DEF Led
      <4>3. q # p
        BY <1>2, <3>2, <4>2 DEF Reserved
      <4>. QED
        BY <1>1, <4>2, <4>3
    <3>. QED
      BY <3>1, <3>2
  <2>. QED
    BY <2>1 DEF Led
<1>6. Known'
  <2>1. ASSUME NEW q \in Peer, NEW j \in IP, peerIPs'[q] = j
        PROVE  ipToPeer'[j] = q \/ (ipToPeer'[j] = NoPeer /\ HalfFreed(q, j)')
    <3>1. CASE q = p
      BY <1>1, <2>1, <3>1
    <3>2. CASE q # p
      <4>1. peerIPs[q] = j /\ j # i
        BY <1>1, <1>3, <2>1, <3>2
      <4>2. ipToPeer'[j] = ipToPeer[j] /\ HalfFreed(q, j)' = HalfFreed(q, j)
        BY <1>1, <4>1 DEF HalfFreed
      <4>. QED
        BY <4>1, <4>2 DEF AddressesOK, Known
    <3>. QED
      BY <3>1, <3>2
  <2>. QED
    BY <2>1 DEF Known
<1>7. Alone'
  BY <1>1, <1>3 DEF AddressesOK, Alone
<1>8. ASSUME NEW w \in Stopper PROVE StopFits(w)'
  <2>1. StopFits(w) /\ (Midway(w) => stops[w].ip \in IP)
    BY DEF AddressesOK, Types, StopsOK, Midway
  <2>2. CASE Midway(w)
    <3>1. ipToPeer'[stops[w].ip] = ipToPeer[stops[w].ip]
      BY <1>1, <1>4, <2>1, <2>2
    <3>2. stops[w].peer \in Peer => peerIPs'[stops[w].peer] = peerIPs[stops[w].peer]
      BY <1>1, <1>4, <2>2
    <3>. QED
      BY <2>1, <3>1, <3>2 DEF StopFits
  <2>3. CASE ~Midway(w)
    BY <2>3 DEF StopFits, Midway
  <2>. QED
    BY <2>2, <2>3
<1>9. Reserved'
  BY DEF Reserved
<1>. QED
  BY <1>5, <1>6, <1>7, <1>8, <1>9 DEF AddressesOK

\* A departure: the address is taken from both maps.
LEMMA RemoveAddresses ==
    ASSUME Types, AddressesOK, NEW p \in Peer, RemoveByRemoteID(p),
           UNCHANGED <<stops, router, receiver>>, Notes({}), "unlocked" \notin mishaps'
    PROVE  AddressesOK'
<1>. USE NoIPIsNone
<1>1. CASE UNCHANGED maps
  <2>1. Known' /\ Alone' /\ (Led => Led') /\ (NoAddresses => NoAddresses') /\ Reserved'
    BY <1>1 DEF AddressesOK, Known, Alone, Led, NoAddresses, HalfFreed, Reserved, maps
  <2>2. \A w \in Stopper : StopFits(w)'
    BY <1>1 DEF AddressesOK, StopFits, maps
  <2>. QED
    BY <2>1, <2>2 DEF AddressesOK
<1>2. CASE /\ peerIPs[p] # NoIP
           /\ hosts[peerIPs[p]] # NoHost
           /\ StopHost(hosts[peerIPs[p]], peerIPs[p])
  <2>. PICK i \in IP : i = peerIPs[p]
    BY <1>2 DEF Types, MapsOK
  <2>0. hosts'[i] = NoHost /\ hosts[i] # NoHost
    BY <1>2 DEF StopHost, Types, MapsOK
  <2>1. ASSUME NEW w \in Stopper, Midway(w) PROVE stops[w].ip # i
    <3>1. Spares(w)
      BY <2>1, Frame
    <3>. QED
      BY <2>0, <3>1 DEF Spares
  <2>2. ipToPeer[i] = p
    BY <2>1 DEF AddressesOK, Known, HalfFreed, Midway
  <2>3. /\ ipToPeer'[i] = NoPeer /\ peerIPs'[p] = NoIP
        /\ \A q \in Peer \ {p} : peerIPs'[q] = peerIPs[q]
        /\ \A j \in IP \ {i} : ipToPeer'[j] = ipToPeer[j]
    BY <1>2, <2>2 DEF StopHost, Types, MapsOK
  <2>4. ASSUME NEW w \in Stopper, Midway(w) PROVE stops[w].peer # p
    <3>1. Spares(w)
      BY <2>4, Frame
    <3>. QED
      BY <2>3, <3>1 DEF Spares
  <2>5. Led => Led'
    BY <2>2, <2>3, RelayClientAssumption DEF Led
  <2>6. Known'
    <3>1. ASSUME NEW q \in Peer, NEW j \in IP, peerIPs'[q] = j
          PROVE  ipToPeer'[j] = q \/ (ipToPeer'[j] = NoPeer /\ HalfFreed(q, j)')
      <4>1. peerIPs[q] = j /\ q # p
        BY <2>3, <3>1
      <4>2. j # i
        BY <4>1 DEF AddressesOK, Alone
      <4>3. ipToPeer'[j] = ipToPeer[j] /\ HalfFreed(q, j)' = HalfFreed(q, j)
        BY <2>3, <4>2 DEF HalfFreed
      <4>. QED
        BY <4>1, <4>3 DEF AddressesOK, Known
    <3>. QED
      BY <3>1 DEF Known
  <2>7. Alone'
    BY <2>3 DEF AddressesOK, Alone
  <2>8. ASSUME NEW w \in Stopper PROVE StopFits(w)'
    <3>1. StopFits(w) /\ (Midway(w) => stops[w].ip \in IP)
      BY DEF AddressesOK, Types, StopsOK, Midway
    <3>2. CASE Midway(w)
      BY <2>1, <2>3, <2>4, <3>1, <3>2 DEF StopFits
    <3>3. CASE ~Midway(w)
      BY <3>3 DEF StopFits, Midway
    <3>. QED
      BY <3>2, <3>3
  <2>9. Reserved'
    <3>1. receiver.pc # "idle" => receiver.peer \in Peer /\ receiver.ip \in IP
      BY DEF Types, JoinOK
    <3>. QED
      BY <2>3, <3>1 DEF AddressesOK, Reserved
  <2>10. NoAddresses => NoAddresses'
    BY <2>3 DEF NoAddresses
  <2>. QED
    BY <2>5, <2>6, <2>7, <2>8, <2>9, <2>10 DEF AddressesOK
<1>. QED
  BY <1>1, <1>2 DEF RemoveByRemoteID

\* The lines of a StopHost that change the address maps.
LEMMA StopGoesOnAddresses ==
    ASSUME Types, AddressesOK, NEW w \in Stopper, StopGoesOn(w), Clean'
    PROVE  AddressesOK'
<1>. USE NoIPIsNone
<1>. DEFINE i == stops[w].ip
            p == stops[w].peer
<1>0. /\ \A v \in Stopper \ {w} : stops'[v] = stops[v]
      /\ stops[w].pc # "idle" => i \in IP
      /\ StopFits(w) /\ router' = router /\ receiver' = receiver
  BY StopChanges DEF Types, StopsOK, AddressesOK, StopGoesOn
<1>1. CASE StopDeletesAddress(w)
  <2>0. /\ stops[w].pc = "IPToPeerID" /\ i \in IP
        /\ ipToPeer'[i] = NoPeer /\ (\A j \in IP \ {i} : ipToPeer'[j] = ipToPeer[j])
        /\ peerIPs' = peerIPs
    BY <1>0, <1>1 DEF StopDeletesAddress, Types, MapsOK
  <2>1. stops'[w].pc = "PeerIPs" /\ stops'[w].ip = i /\ stops'[w].peer = p
    <3>1. stops'[w] = [stops[w] EXCEPT !.pc = "PeerIPs"] /\ stops[w] \in Stop
      BY <1>1, StopChanges DEF Types, StopsOK
    <3>. QED
      BY <3>1 DEF Stop
  <2>2. ASSUME NEW v \in Stopper \ {w}, Midway(v), stops[v].ip = i
        PROVE  ipToPeer[i] = NoPeer
    <3>1. Spares(v)
      BY <1>0, <1>1, <2>2, Frame DEF StopDeletesAddress, Clean
    <3>. QED
      BY <2>0, <2>2, <3>1 DEF Spares
  <2>3. Led => Led'
    BY <2>0, RelayClientAssumption DEF Led
  <2>4. ASSUME NEW q \in Peer, NEW j \in IP, HalfFreed(q, j) PROVE HalfFreed(q, j)'
    BY <1>0, <2>0, <2>4 DEF HalfFreed
  <2>5. Known'
    <3>1. ASSUME NEW q \in Peer, NEW j \in IP, peerIPs'[q] = j
          PROVE  ipToPeer'[j] = q \/ (ipToPeer'[j] = NoPeer /\ HalfFreed(q, j)')
      <4>0. peerIPs[q] = j /\ (ipToPeer[j] = q \/ (ipToPeer[j] = NoPeer /\ HalfFreed(q, j)))
        BY <2>0, <3>1 DEF AddressesOK, Known
      <4>1. CASE j = i /\ ipToPeer[i] = q
        <5>1. p = q
          BY <2>0, <4>1, RelayClientAssumption, <1>0 DEF StopFits
        <5>. QED
          BY <2>0, <2>1, <4>1, <5>1 DEF HalfFreed
      <4>2. CASE j # i \/ ipToPeer[j] # q
        BY <2>0, <2>4, <4>0, <4>2
      <4>. QED
        BY <4>1, <4>2
    <3>. QED
      BY <3>1 DEF Known
  <2>6. StopFits(w)'
    <3>1. p \in Peer => peerIPs[p] \in {i, NoIP}
      BY <1>0, <2>0 DEF StopFits, AddressesOK, Led, NoAddresses
    <3>. QED
      BY <2>0, <2>1, <3>1 DEF StopFits
  <2>7. ASSUME NEW v \in Stopper \ {w} PROVE StopFits(v)'
    <3>1. StopFits(v) /\ (Midway(v) => stops[v].ip \in IP) /\ stops'[v] = stops[v]
      BY <1>0 DEF AddressesOK, Types, StopsOK, Midway
    <3>2. Midway(v) => ipToPeer'[stops[v].ip] = ipToPeer[stops[v].ip]
      BY <2>0, <2>2, <3>1
    <3>. QED
      BY <2>0, <3>1, <3>2 DEF StopFits, Midway
  <2>8. Alone' /\ Reserved' /\ (NoAddresses => NoAddresses')
    BY <1>0, <2>0 DEF AddressesOK, Alone, Reserved, NoAddresses
  <2>. QED
    BY <1>0, <2>3, <2>5, <2>6, <2>7, <2>8 DEF AddressesOK
<1>2. CASE StopDeletesPeerIP(w)
  <2>0. /\ stops[w].pc = "PeerIPs" /\ i \in IP /\ ipToPeer' = ipToPeer
        /\ \A q \in Peer : peerIPs'[q] = IF q = p THEN NoIP ELSE peerIPs[q]
    BY <1>0, <1>2 DEF StopDeletesPeerIP
  <2>1. stops'[w].pc = "PeerHosts" /\ stops'[w].ip = i /\ stops'[w].peer = p
    <3>1. stops'[w] = [stops[w] EXCEPT !.pc = "PeerHosts"] /\ stops[w] \in Stop
      BY <1>2, StopChanges DEF Types, StopsOK
    <3>. QED
      BY <3>1 DEF Stop
  <2>2. ipToPeer[i] = NoPeer /\ (p \in Peer => peerIPs[p] \in {i, NoIP})
    BY <1>0, <2>0 DEF StopFits
  <2>3. Led => Led'
    <3>1. ASSUME Led, NEW q \in Peer, NEW j \in IP, ipToPeer'[j] = q PROVE peerIPs'[q] = j
      <4>1. peerIPs[q] = j
        BY <2>0, <3>1 DEF Led
      <4>2. q # p
        BY <2>0, <2>2, <3>1, <4>1, RelayClientAssumption
      <4>. QED
        BY <2>0, <4>1, <4>2
    <3>. QED
      BY <3>1 DEF Led
  <2>4. Known'
    <3>1. ASSUME NEW q \in Peer, NEW j \in IP, peerIPs'[q] = j
          PROVE  ipToPeer'[j] = q \/ (ipToPeer'[j] = NoPeer /\ HalfFreed(q, j)')
      <4>1. peerIPs[q] = j /\ q # p
        BY <2>0, <3>1
      <4>2. HalfFreed(q, j) => HalfFreed(q, j)'
        BY <1>0, <4>1 DEF HalfFreed
      <4>. QED
        BY <2>0, <4>1, <4>2 DEF AddressesOK, Known
    <3>. QED
      BY <3>1 DEF Known
  <2>5. Alone'
    BY <2>0 DEF AddressesOK, Alone
  <2>6. StopFits(w)'
    BY <2>0, <2>1 DEF StopFits
  <2>7. ASSUME NEW v \in Stopper \ {w} PROVE StopFits(v)'
    BY <1>0, <2>0 DEF AddressesOK, StopFits
  <2>8. Reserved' /\ (NoAddresses => NoAddresses')
    <3>1. receiver.pc # "idle" => receiver.peer \in Peer /\ receiver.ip \in IP
      BY DEF Types, JoinOK
    <3>. QED
      BY <1>0, <2>0, <3>1 DEF AddressesOK, Reserved, NoAddresses
  <2>. QED
    BY <1>0, <2>3, <2>4, <2>5, <2>6, <2>7, <2>8 DEF AddressesOK
<1>3. CASE StopLooksUp(w) \/ StopDeletesHost(w) \/ StopDeletesPeerHost(w)
  <2>1. UNCHANGED <<peerIPs, ipToPeer>> /\ stops[w].pc # "PeerIPs" /\ mishaps \subseteq mishaps'
    BY <1>3, NotesGrow DEF StopLooksUp, StopDeletesHost, StopDeletesPeerHost, maps
  <2>2. StopFits(w)'
    <3>1. CASE StopLooksUp(w)
      <4>1. stops'[w] = [pc |-> "Hosts", ip |-> i, peer |-> ipToPeer[i]]
        BY <3>1, StopChanges DEF Types
      <4>. QED
        BY <2>1, <4>1 DEF StopFits
    <3>2. CASE StopDeletesHost(w)
      <4>1. stops'[w] = [stops[w] EXCEPT !.pc = "IPToPeerID"] /\ stops[w] \in Stop
        BY <3>2, StopChanges DEF Types, StopsOK
      <4>2. stops'[w].pc = "IPToPeerID" /\ stops'[w].ip = i /\ stops'[w].peer = p
        BY <4>1 DEF Stop
      <4>. QED
        BY <1>0, <2>1, <3>2, <4>2 DEF StopFits, StopDeletesHost
    <3>3. CASE StopDeletesPeerHost(w)
      BY <3>3, StopChanges, NoStopOK DEF Types, StopFits
    <3>. QED
      BY <1>3, <3>1, <3>2, <3>3
  <2>. QED
    BY <1>0, <2>1, <2>2, AddressesKept DEF Addresses, Clean
<1>. QED
  BY <1>1, <1>2, <1>3 DEF StopGoesOn

\* The last two lines of Reset.
LEMMA StopAllAddresses ==
    ASSUME Types, NoLoopMeanwhile, Clean => AddressesOK, NewPeerIPs \/ ResetReturns, Clean'
    PROVE  AddressesOK'
<1>. USE NoIPIsNone
<1>1. UNCHANGED <<stops, receiver>> /\ receiver.pc = "idle"
  BY DEF NewPeerIPs, ResetReturns, NoLoopMeanwhile
<1>2. NoAddresses'
  <2>1. CASE NewPeerIPs
    BY <2>1 DEF NewPeerIPs, NoAddresses
  <2>2. CASE ResetReturns /\ EmptyMaps'
    BY <2>2 DEF EmptyMaps, NoAddresses
  <2>3. CASE ResetReturns /\ Notes({})
    BY <2>3, NotesGrow DEF ResetReturns, AddressesOK, NoAddresses
  <2>. QED
    BY <2>1, <2>2, <2>3 DEF ResetReturns
<1>3. Known' /\ Alone' /\ Reserved'
  BY <1>1, <1>2 DEF Known, Alone, Reserved, NoAddresses
<1>4. router'.pc = "IPToPeerID" \/ Led'
  <2>1. CASE NewPeerIPs
    BY <2>1 DEF NewPeerIPs, Types, RouterOK, Router
  <2>2. CASE ResetReturns
    BY <2>2, RelayClientAssumption DEF ResetReturns, Led
  <2>. QED
    BY <2>1, <2>2
<1>5. ASSUME NEW w \in Stopper PROVE StopFits(w)'
  <2>1. CASE ~Midway(w)
    BY <1>1, <2>1 DEF StopFits, Midway
  <2>2. CASE ResetReturns /\ Midway(w)
    <3>1. ipToPeer'[stops[w].ip] = NoPeer
      BY <2>2 DEF ResetReturns, Types, StopsOK, Midway
    <3>. QED
      BY <1>1, <1>2, <3>1 DEF StopFits, NoAddresses
  <2>3. CASE NewPeerIPs /\ Midway(w)
    <3>1. Spares(w) /\ Clean
      BY <1>1, <2>3, Frame, NotesGrow DEF NewPeerIPs, Clean
    <3>2. StopFits(w)
      BY <3>1 DEF AddressesOK
    <3>. QED
      BY <1>1, <1>2, <3>1, <3>2 DEF StopFits, Spares, NoAddresses
  <2>. QED
    BY <2>1, <2>2, <2>3
<1>. QED
  BY <1>2, <1>3, <1>4, <1>5 DEF AddressesOK

LEMMA StopBeginsFits ==
    ASSUME StopsOK, NEW v \in Stopper, NEW h, NEW i, StopBegins(v, h, i)
    PROVE  \A w \in Stopper : stops'[w] = stops[w] \/ (stops[w].pc = "idle" /\ StopFits(w)')
<1>1. stops'[v] = [NoStop EXCEPT !.pc = "lookup", !.ip = i] /\ stops[v].pc = "idle"
      /\ \A w \in Stopper \ {v} : stops'[w] = stops[w]
  BY DEF StopBegins, StopsOK
<1>2. stops'[v].pc = "lookup"
  BY <1>1 DEF NoStop
<1>. QED
  BY <1>1, <1>2 DEF StopFits

LEMMA CommandAddresses ==
    ASSUME IInv, CommandStep
    PROVE  Addresses'
<1>0. Types /\ NoLoopMeanwhile /\ Addresses
  BY DEF IInv
<1>1. CASE \/ \E S \in SUBSET Peer, p \in Peer : SelectGame(S, p)
           \/ CreateRoom
           \/ Close
  <2>1. ResetBegins(TRUE)
    BY <1>1 DEF SelectGame, CreateRoom, Close, CommandResets
  <2>2. receiver'.pc = "idle" /\ router.pc = "idle" /\ router'.pc = "range"
        /\ mishaps' = mishaps /\ UNCHANGED <<peerIPs, ipToPeer, stops>>
    BY <2>1 DEF ResetBegins, RouterUnlocked, NoJoin, maps
  <2>. QED
    BY <1>0, <2>2, AddressesKept
<1>2. CASE \/ CommandNamesHost
           \/ CreateConnects
           \/ HostRoom
           \/ SelectGameReturns
           \/ \E p \in Peer : JoinConnects(p)
           \/ \E p \in Peer : JoinRanges(p)
           \/ JoinFails
           \/ JoinReturns
  <2>1. UNCHANGED <<peerIPs, ipToPeer, stops, router, receiver, mishaps>>
    BY <1>2 DEF CommandNamesHost, CreateConnects, HostRoom, SelectGameReturns, JoinConnects,
                JoinRanges, JoinFails, JoinReturns, maps
  <2>. QED
    BY <1>0, <2>1, AddressesKept
<1>3. CASE JoinStartsHost
  <2>1. UNCHANGED <<peerIPs, ipToPeer, stops, router, receiver>> /\ mishaps \subseteq mishaps'
    BY <1>3, NotesGrow DEF JoinStartsHost, StartFakeHost
  <2>. QED
    BY <1>0, <2>1, AddressesKept
<1>4. ASSUME NEW p \in Peer, AssignPlayer(p) PROVE Addresses'
  <2>0. UNCHANGED <<hosts, peerHosts, stops, router, receiver>> /\ Notes({})
    BY <1>4 DEF AssignPlayer
  <2>1. receiver.pc = "idle"
    BY <1>0, <1>4 DEF AssignPlayer, NoLoopMeanwhile
  <2>2. ASSUME NEW i \in IP, AssignIP(p, i) PROVE Addresses'
    BY <1>0, <2>0, <2>1, <2>2, AssignIPAddresses, NotesGrow DEF Addresses, Clean
  <2>3. CASE UNCHANGED <<peerIPs, ipToPeer>>
    BY <1>0, <2>0, <2>3, AddressesKept, NotesGrow
  <2>. QED
    BY <1>4, <2>2, <2>3 DEF AssignPlayer
<1>. QED
  BY <1>1, <1>2, <1>3, <1>4 DEF CommandStep

LEMMA RouterAddresses ==
    ASSUME IInv, RouterStep
    PROVE  Addresses'
<1>0. Types /\ NoLoopMeanwhile /\ Addresses
  BY DEF IInv
<1>1. CASE WatcherResets
  <2>1. receiver'.pc = "idle" /\ router.pc = "idle" /\ router'.pc = "range"
        /\ mishaps' = mishaps /\ UNCHANGED <<peerIPs, ipToPeer, stops>>
    BY <1>1 DEF WatcherResets, ResetBegins, RouterUnlocked, NoJoin, maps
  <2>. QED
    BY <1>0, <2>1, AddressesKept
<1>2. ASSUME NEW i \in IP, StopAllStops(i) PROVE Addresses'
  <2>1. "router" \in Stopper
    BY DEF Stopper
  <2>2. \A w \in Stopper : stops'[w] = stops[w] \/ (stops[w].pc = "idle" /\ StopFits(w)')
    BY <1>0, <1>2, <2>1, StopBeginsFits DEF StopAllStops, Types
  <2>3. router'.pc = router.pc
    BY <1>0, <1>2 DEF StopAllStops, Types, RouterOK, Router
  <2>4. UNCHANGED <<peerIPs, ipToPeer, receiver, mishaps>>
    BY <1>2 DEF StopAllStops, maps
  <2>. QED
    BY <1>0, <2>2, <2>3, <2>4, AddressesKept
<1>3. CASE StopAllStopped \/ NewPeerHosts
  <2>1. UNCHANGED <<peerIPs, ipToPeer, receiver, stops>> /\ mishaps \subseteq mishaps'
    BY <1>3, NotesGrow DEF StopAllStopped, NewPeerHosts
  <2>2. "IPToPeerID" \notin {router.pc, router'.pc}
    BY <1>0, <1>3 DEF StopAllStopped, NewPeerHosts, Types, RouterOK, Router
  <2>. QED
    BY <1>0, <2>1, <2>2, AddressesKept
<1>4. CASE NewPeerIPs \/ ResetReturns
  BY <1>0, <1>4, StopAllAddresses DEF Addresses
<1>5. ASSUME NEW pr \in probes, ProbeFires(pr) PROVE Addresses'
  <2>1. "router" \in Stopper
    BY DEF Stopper
  <2>2. \A w \in Stopper : stops'[w] = stops[w] \/ (stops[w].pc = "idle" /\ StopFits(w)')
    BY <1>0, <1>5, <2>1, StopBeginsFits DEF ProbeFires, Types
  <2>3. "IPToPeerID" \notin {router.pc, router'.pc}
    BY <1>5 DEF ProbeFires, RouterUnlocked, UnlockedRouter
  <2>4. UNCHANGED <<peerIPs, ipToPeer, receiver, mishaps>>
    BY <1>5 DEF ProbeFires, maps
  <2>. QED
    BY <1>0, <2>2, <2>3, <2>4, AddressesKept
<1>6. CASE ProbeStopped
  <2>1. "IPToPeerID" \notin {router.pc, router'.pc}
    BY <1>6 DEF ProbeStopped, UnlockedRouter
  <2>2. UNCHANGED <<peerIPs, ipToPeer, receiver, mishaps, stops>>
    BY <1>6 DEF ProbeStopped, maps
  <2>. QED
    BY <1>0, <2>1, <2>2, AddressesKept
<1>. QED
  BY <1>1, <1>2, <1>3, <1>4, <1>5, <1>6 DEF RouterStep

LEMMA ReceiverAddresses ==
    ASSUME IInv,
           \/ \E p \in Peer : DynamicJoinAssigns(p)
           \/ DynamicJoinGoesOn
           \/ StragglerGoesOn
    PROVE  Addresses'
<1>0. Types /\ NoLoopMeanwhile /\ Addresses
  BY DEF IInv
<1>1. ASSUME NEW p \in Peer, DynamicJoinAssigns(p) PROVE Addresses'
  <2>0. UNCHANGED <<hosts, peerHosts, stops, router>> /\ Notes({})
    BY <1>1 DEF DynamicJoinAssigns
  <2>1. PICK i \in IP :
            /\ AssignIP(p, i)
            /\ receiver' = [NoJoin EXCEPT !.pc = "assigned", !.peer = p, !.ip = i,
                                          !.tcp = (currentHost = Self)]
    BY <1>1 DEF DynamicJoinAssigns
  <2>2. receiver'.peer = p /\ receiver'.ip = i
    BY <2>1 DEF NoJoin
  <2>. QED
    BY <1>0, <2>0, <2>1, <2>2, AssignIPAddresses, NotesGrow DEF Addresses, Clean
<1>2. CASE DynamicJoinGoesOn
  <2>0. UNCHANGED <<stops, router>> /\ Notes(Late(receiver.peer, receiver.ip))
    BY <1>2 DEF DynamicJoinGoesOn
  <2>1. CASE GuestStarts(receiver, receiver')
    <3>1. UNCHANGED <<peerIPs, ipToPeer>>
      BY <2>1 DEF GuestStarts, StartFakeHost, maps
    <3>2. \/ receiver'.pc = "idle"
          \/ /\ receiver.pc # "idle"
             /\ receiver'.peer = receiver.peer /\ receiver'.ip = receiver.ip
      <4>1. receiver \in Join /\ receiver.pc = "assigned"
        BY <1>0, <2>1 DEF Types, JoinOK, GuestStarts
      <4>2. CASE receiver' = NoJoin
        BY <4>2 DEF NoJoin
      <4>3. ASSUME NEW h, receiver' = [receiver EXCEPT !.pc = "started", !.host = h]
            PROVE  receiver'.peer = receiver.peer /\ receiver'.ip = receiver.ip
        BY <4>1, <4>3 DEF Join
      <4>. QED
        BY <2>1, <4>1, <4>2, <4>3 DEF GuestStarts
    <3>3. mishaps \subseteq mishaps'
      BY <2>0, NotesGrow
    <3>. QED
      BY <1>0, <2>0, <3>1, <3>2, <3>3, AddressesKept
  <2>2. CASE GuestRecorded(receiver, receiver')
    <3>1. /\ receiver.pc = "started" /\ receiver'.pc = "idle"
          /\ SetHost(receiver.ip, receiver.peer, receiver.host)
      BY <2>2 DEF GuestRecorded, NoJoin
    <3>2. router.pc # "IPToPeerID"
      BY <1>0, <3>1 DEF NoLoopMeanwhile
    <3>. QED
      BY <1>0, <2>0, <3>1, <3>2, SetHostAddresses, NotesGrow DEF Addresses, Clean
  <2>. QED
    BY <1>2, <2>1, <2>2 DEF DynamicJoinGoesOn
<1>3. CASE StragglerGoesOn
  BY <1>3, NotesGrow DEF StragglerGoesOn, Addresses, Clean
<1>. QED
  BY <1>1, <1>2, <1>3

LEMMA ObserverAddresses ==
    ASSUME IInv, ObserverStep
    PROVE  Addresses'
<1>0. Types /\ NoLoopMeanwhile /\ Addresses /\ "observer" \in Stopper
  BY DEF IInv, Stopper
<1>1. ASSUME NEW p \in Peer, HandleLeaveRoom(p) PROVE Addresses'
  <2>1. RemoveByRemoteID(p) /\ UNCHANGED <<stops, router, receiver>> /\ Notes({})
    BY <1>1 DEF HandleLeaveRoom
  <2>. QED
    BY <1>0, <2>1, RemoveAddresses, NotesGrow DEF Addresses, Clean
<1>2. ASSUME \/ \E p \in Peer \cup {Self} : MigrationBegins(p)
             \/ MigrationStopped
             \/ \E p \in Peer : MigrationRebinds(p)
             \/ MigrationEnds
             \/ MigrationWakes
             \/ MigrationRestarts
      PROVE  Addresses'
  <2>1. UNCHANGED <<peerIPs, ipToPeer, stops, router, receiver>>
    BY <1>2 DEF MigrationBegins, MigrationStopped, MigrationRebinds, MigrationEnds,
                MigrationWakes, MigrationRestarts, StartFakeHost, maps
  <2>2. mishaps' = mishaps \/ \E S : Notes(S)
    BY <1>2 DEF MigrationBegins, MigrationStopped, MigrationRebinds, MigrationEnds,
                MigrationWakes, MigrationRestarts
  <2>3. mishaps \subseteq mishaps'
    BY <2>2, NotesGrow
  <2>. QED
    BY <1>0, <2>1, <2>3, AddressesKept
<1>3. ASSUME MigrationStopsHost \/ \E p \in Peer : MigrationStops(p)
      PROVE  Addresses'
  <2>1. UNCHANGED <<peerIPs, ipToPeer, router, receiver, mishaps>>
    BY <1>3 DEF MigrationStopsHost, MigrationStops, maps
  <2>2. stops' = stops \/ \E h, i : StopBegins("observer", h, i)
    BY <1>3 DEF MigrationStopsHost, MigrationStops
  <2>3. \A w \in Stopper : stops'[w] = stops[w] \/ (stops[w].pc = "idle" /\ StopFits(w)')
    BY <1>0, <2>2, StopBeginsFits DEF Types
  <2>. QED
    BY <1>0, <2>1, <2>3, AddressesKept
<1>. QED
  BY <1>1, <1>2, <1>3 DEF ObserverStep

LEMMA NextIInv == IInv /\ [Next]_vars => IInv'
<1>. SUFFICES ASSUME IInv, [Next]_vars PROVE IInv'
  OBVIOUS
<1>1. Types' /\ NoLoopMeanwhile'
  BY NextTypes, NextNoLoopMeanwhile DEF IInv
<1>2. ASSUME NEW w \in Stopper, StopGoesOn(w) PROVE Addresses'
  <2>1. Clean' => Clean
    BY <1>2, NotesGrow DEF StopGoesOn, StopLooksUp, StopDeletesHost, StopDeletesAddress,
                           StopDeletesPeerIP, StopDeletesPeerHost, Clean
  <2>. QED
    BY <1>2, <2>1, StopGoesOnAddresses DEF IInv, Addresses
<1>3. ASSUME UNCHANGED vars PROVE Addresses'
  BY <1>3, AddressesKept DEF vars, maps, IInv
<1>4. ASSUME \/ \E p \in Peer : DynamicJoinAssigns(p)
             \/ DynamicJoinGoesOn
             \/ StragglerGoesOn
      PROVE  Addresses'
  BY <1>4, ReceiverAddresses
<1>5. Addresses'
  BY <1>2, <1>3, <1>4, CommandAddresses, RouterAddresses, ObserverAddresses DEF Next
<1>. QED
  BY <1>1, <1>5 DEF IInv

LEMMA Invariance == Spec => []IInv
BY InitIInv, NextIInv, PTL DEF Spec

\* Everybody who is about to start or stop a fake host has a peer and an
\* address for it, and every address given out is one of the loopback network's.
THEOREM TypeCorrect == Spec => []TypeOK
<1>1. IInv => TypeOK
  BY DEF IInv, Types, TypeOK, MapsOK, StopsOK, CommandOK, JoinOK, ObserverOK, RouterOK
<1>. QED
  BY <1>1, Invariance, PTL

\* PeerIPs and IPToPeerID are each other's inverse, but between two lines of a
\* StopHost or StopAll that hold no mutex, for any number of peers and
\* addresses: as long as no dynamicJoin outlives a Reset and nobody comes
\* between those lines.
THEOREM AddressesAreInverse == Spec => []AddressesAgree
<1>1. ASSUME IInv PROVE AddressesAgree
  <2>1. ASSUME Clean, NEW p \in Peer, NEW i \in IP, router.pc # "IPToPeerID"
        PROVE  (peerIPs[p] = i <=> ipToPeer[i] = p) \/ HalfFreed(p, i)
    BY <1>1, <2>1 DEF IInv, Addresses, AddressesOK, Led, Known
  <2>. QED
    BY <2>1 DEF AddressesAgree, Clean
<1>. QED
  BY <1>1, Invariance, PTL

(***************************************************************************)
(* The fake hosts.  Besides HostsAgree: what StopHost or StopAll has       *)
(* deleted so far stays deleted, and a host the receive loop has started   *)
(* is in the maps while its peer keeps its address.                        *)
(***************************************************************************)

HostFits(i) ==
    hosts[i] # NoHost =>
        /\ hosts[i] \in running \/ Leaving(i)
        /\ hosts[i].ip = i
        /\ ipToPeer[i] = hosts[i].peer
        /\ peerHosts[hosts[i].peer] = hosts[i]

PeerHostFits(p) ==
    peerHosts[p] # NoHost =>
        /\ peerHosts[p].peer = p
        /\ \/ hosts[peerHosts[p].ip] = peerHosts[p]
           \/ HalfStopped(p)
           \/ router.pc = "PeerHosts"

Replaced ==
    /\ Replacing => \A i \in IP : hosts[i] = NoHost
    /\ router.pc \in {"PeerIPs", "IPToPeerID"} => \A p \in Peer : peerHosts[p] = NoHost

HostDeleted(w) ==
    stops[w].pc \in {"IPToPeerID", "PeerIPs", "PeerHosts"} => hosts[stops[w].ip] = NoHost

Freeing(i) ==
    \E w \in Stopper : stops[w].pc \in {"IPToPeerID", "PeerIPs"} /\ stops[w].ip = i

StartedHost ==
    (receiver.pc = "started" /\ peerIPs[receiver.peer] = receiver.ip) =>
        hosts[receiver.ip] = receiver.host \/ Freeing(receiver.ip)

HostsOK ==
    /\ \A i \in IP : HostFits(i)
    /\ \A p \in Peer : PeerHostFits(p)
    /\ Replaced
    /\ \A w \in Stopper : HostDeleted(w)
    /\ StartedHost

Recorded == mishaps = {} => HostsOK

ProbesFit == \A pr \in probes : pr.ip = pr.host.ip

HostsInv == IInv /\ Recorded /\ ProbesFit

LEMMA Unharmed ==
    ASSUME NEW S, Notes(S), mishaps' = {}
    PROVE  mishaps = {} /\ S = {} /\ "unlocked" \notin mishaps'
BY DEF Notes

LEMMA HostsTyped ==
    ASSUME Types
    PROVE  /\ \A i \in IP : hosts[i] # NoHost =>
                  hosts[i] \in FakeHost /\ hosts[i].peer \in Peer /\ hosts[i].ip \in IP
           /\ \A p \in Peer : peerHosts[p] # NoHost =>
                  peerHosts[p] \in FakeHost /\ peerHosts[p].ip \in IP
           /\ \A w \in Stopper : Midway(w) => stops[w].ip \in IP
BY DEF Types, MapsOK, StopsOK, FakeHost, Midway

\* A step that leaves the maps alone: a StopHost may begin or look up.
LEMMA HostsKept ==
    ASSUME HostsOK, UNCHANGED maps,
           \A i \in IP : hosts[i] \in running => hosts[i] \in running' \/ Leaving(i)',
           receiver' = receiver \/ receiver'.pc # "started",
           router'.pc = router.pc \/ (~Replacing /\ ~Replacing'),
           \A w \in Stopper :
               \/ stops'[w] = stops[w]
               \/ stops[w].pc = "idle" /\ stops'[w].pc = "lookup"
               \/ /\ stops[w].pc = "lookup" /\ stops'[w].pc = "Hosts"
                  /\ stops'[w].ip = stops[w].ip
    PROVE  HostsOK'
<1>1. ASSUME NEW i \in IP PROVE HostFits(i)'
  <2>1. Leaving(i) => Leaving(i)'
    <3>1. ASSUME NEW w \in Stopper, stops[w].pc \in {"lookup", "Hosts"}, stops[w].ip = i
          PROVE  stops'[w].pc \in {"lookup", "Hosts"} /\ stops'[w].ip = i
      BY <3>1
    <3>. QED
      BY <3>1 DEF Leaving
  <2>. QED
    BY <2>1 DEF HostsOK, HostFits, maps
<1>2. ASSUME NEW p \in Peer PROVE PeerHostFits(p)'
  <2>1. HalfStopped(p) => HalfStopped(p)'
    <3>1. ASSUME NEW w \in Stopper, stops[w].pc \in {"IPToPeerID", "PeerIPs", "PeerHosts"}
          PROVE  stops'[w] = stops[w]
      BY <3>1
    <3>. QED
      BY <3>1 DEF HalfStopped
  <2>2. router.pc = "PeerHosts" => router'.pc = "PeerHosts"
    BY DEF Replacing
  <2>. QED
    BY <2>1, <2>2 DEF HostsOK, PeerHostFits, maps
<1>3. Replaced'
  BY DEF HostsOK, Replaced, Replacing, maps
<1>4. ASSUME NEW w \in Stopper PROVE HostDeleted(w)'
  <2>1. stops'[w].pc \in {"IPToPeerID", "PeerIPs", "PeerHosts"} => stops'[w] = stops[w]
    OBVIOUS
  <2>. QED
    BY <2>1 DEF HostsOK, HostDeleted, maps
<1>5. StartedHost'
  <2>1. \A i : Freeing(i) => Freeing(i)'
    <3>1. ASSUME NEW w \in Stopper, stops[w].pc \in {"IPToPeerID", "PeerIPs"}
          PROVE  stops'[w] = stops[w]
      BY <3>1
    <3>. QED
      BY <3>1 DEF Freeing
  <2>. QED
    BY <2>1 DEF HostsOK, StartedHost, maps
<1>. QED
  BY <1>1, <1>2, <1>3, <1>4, <1>5 DEF HostsOK

\* w begins to stop the host h, started at i.
LEMMA StopBeginsRecorded ==
    ASSUME Types, HostsOK, NEW v \in Stopper, NEW h, NEW i \in IP, h.ip = i,
           StopBegins(v, h, i), UNCHANGED maps,
           receiver' = receiver,
           router'.pc = router.pc \/ (~Replacing /\ ~Replacing')
    PROVE  HostsOK'
<1>1. stops'[v] = [NoStop EXCEPT !.pc = "lookup", !.ip = i] /\ stops[v].pc = "idle"
      /\ \A w \in Stopper \ {v} : stops'[w] = stops[w]
  BY DEF StopBegins, Types, StopsOK
<1>2. stops'[v].pc = "lookup" /\ stops'[v].ip = i
  BY <1>1 DEF NoStop
<1>3. ASSUME NEW k \in IP, hosts[k] \in running PROVE hosts[k] \in running' \/ Leaving(k)'
  <2>1. CASE hosts[k] # h
    BY <1>3, <2>1 DEF StopBegins
  <2>2. CASE hosts[k] = h
    <3>1. hosts[k] # NoHost
      BY <1>3, NoHostIsNone DEF Types, MapsOK
    <3>2. k = i
      BY <2>2, <3>1 DEF HostsOK, HostFits
    <3>. QED
      BY <1>2, <3>2 DEF Leaving
  <2>. QED
    BY <2>1, <2>2
<1>. QED
  BY <1>1, <1>2, <1>3, HostsKept

\* A fake host is started for a peer at the peer's address.
LEMMA StartRecorded ==
    ASSUME Types, AddressesOK, HostsOK,
           NEW p \in Peer, NEW i \in IP, NEW h \in FakeHost, h.peer = p, h.ip = i,
           h \notin InUse, StartFakeHost(p, i, h), peerIPs[p] = i,
           UNCHANGED <<stops, router>>, NEW S, Notes(S), "unlocked" \notin mishaps',
           \/ receiver' = receiver
           \/ receiver'.pc # "started"
           \/ receiver'.ip = i /\ receiver'.host = h
    PROVE  HostsOK'
<1>0. /\ hosts[i] = NoHost /\ hosts'[i] = h /\ peerHosts'[p] = h /\ h # NoHost
      /\ \A j \in IP \ {i} : hosts'[j] = hosts[j]
      /\ \A q \in Peer \ {p} : peerHosts'[q] = peerHosts[q]
      /\ peerIPs' = peerIPs /\ ipToPeer' = ipToPeer /\ running' = running \cup {h}
  BY NoHostIsNone DEF StartFakeHost, Types, MapsOK
<1>1. ~Replacing /\ ~Replacing'
  <2>1. maps' # maps
    BY <1>0 DEF maps
  <2>. QED
    BY <2>1, Frame DEF Replacing
<1>2. ASSUME NEW w \in Stopper, Midway(w) PROVE stops[w].ip # i /\ stops[w].peer # p
  <2>1. Spares(w)
    BY <1>2, Frame
  <2>2. peerHosts'[p] # peerHosts[p]
    BY <1>0 DEF InUse
  <2>. QED
    BY <1>0, <2>1, <2>2 DEF Spares
<1>3. ipToPeer[i] = p
  BY <1>2 DEF AddressesOK, Known, HalfFreed, Midway
<1>4. ASSUME NEW k \in IP PROVE HostFits(k)'
  <2>1. CASE k = i
    BY <1>0, <1>3, <2>1 DEF HostFits
  <2>2. CASE k # i /\ hosts[k] # NoHost
    <3>0. hosts[k].peer \in Peer
      BY <2>2, HostsTyped
    <3>1. hosts[k].peer # p
      <4>1. Led
        BY <1>1 DEF AddressesOK, Replacing
      <4>. QED
        BY <2>2, <4>1 DEF HostsOK, HostFits, Led
    <3>2. Leaving(k)' = Leaving(k)
      BY DEF Leaving
    <3>. QED
      BY <1>0, <2>2, <3>0, <3>1, <3>2 DEF HostsOK, HostFits
  <2>3. CASE k # i /\ hosts[k] = NoHost
    BY <1>0, <2>3 DEF HostFits
  <2>. QED
    BY <2>1, <2>2, <2>3
<1>5. ASSUME NEW q \in Peer PROVE PeerHostFits(q)'
  <2>1. CASE q = p
    BY <1>0, <2>1 DEF PeerHostFits
  <2>2. CASE q # p /\ peerHosts[q] # NoHost
    <3>1. peerHosts[q].ip \in IP
      BY <2>2, HostsTyped
    <3>2. HalfStopped(q)' = HalfStopped(q)
      BY DEF HalfStopped
    <3>3. peerHosts[q].peer = q /\ (hosts[peerHosts[q].ip] = peerHosts[q] \/ HalfStopped(q))
      BY <1>1, <2>2 DEF HostsOK, PeerHostFits, Replacing
    <3>4. hosts[peerHosts[q].ip] = peerHosts[q] => peerHosts[q].ip # i
      BY <1>0, <2>2
    <3>. QED
      BY <1>0, <2>2, <3>1, <3>2, <3>3, <3>4 DEF PeerHostFits
  <2>3. CASE q # p /\ peerHosts[q] = NoHost
    BY <1>0, <2>3 DEF PeerHostFits
  <2>. QED
    BY <2>1, <2>2, <2>3
<1>6. Replaced'
  BY <1>1 DEF Replaced, Replacing
<1>7. ASSUME NEW w \in Stopper PROVE HostDeleted(w)'
  <2>1. CASE Midway(w)
    <3>1. stops[w].ip \in IP \ {i}
      BY <1>2, <2>1, HostsTyped
    <3>. QED
      BY <1>0, <3>1 DEF HostsOK, HostDeleted
  <2>2. CASE ~Midway(w)
    BY <2>2 DEF HostDeleted, Midway
  <2>. QED
    BY <2>1, <2>2
<1>8. StartedHost'
  <2>1. CASE receiver' = receiver
    <3>1. Freeing(receiver.ip)' = Freeing(receiver.ip)
      BY <2>1 DEF Freeing
    <3>2. receiver.pc = "started" => receiver.ip \in IP /\ receiver.host # NoHost
      BY NoHostIsNone DEF Types, JoinOK
    <3>. QED
      BY <1>0, <2>1, <3>1, <3>2 DEF HostsOK, StartedHost
  <2>. QED
    BY <1>0, <2>1 DEF StartedHost
<1>. QED
  BY <1>4, <1>5, <1>6, <1>7, <1>8 DEF HostsOK

LEMMA AssignIPRecorded ==
    ASSUME Types, HostsOK, NEW p \in Peer, NEW i \in IP, AssignIP(p, i),
           UNCHANGED <<hosts, peerHosts, stops, router, running>>, receiver'.pc # "started"
    PROVE  HostsOK'
<1>1. ASSUME NEW k \in IP PROVE HostFits(k)'
  <2>1. CASE hosts[k] # NoHost
    <3>1. ipToPeer[k] # NoPeer
      BY <2>1, HostsTyped, RelayClientAssumption DEF HostsOK, HostFits
    <3>2. ipToPeer'[k] = ipToPeer[k]
      BY <3>1 DEF AssignIP, NextIP, FreeIPs, Types, MapsOK
    <3>3. Leaving(k)' = Leaving(k)
      BY DEF Leaving
    <3>. QED
      BY <2>1, <3>2, <3>3 DEF HostsOK, HostFits
  <2>2. CASE hosts[k] = NoHost
    BY <2>2 DEF HostFits
  <2>. QED
    BY <2>1, <2>2
<1>2. \A q \in Peer : PeerHostFits(q)'
  BY DEF HostsOK, PeerHostFits, HalfStopped
<1>3. Replaced' /\ (\A w \in Stopper : HostDeleted(w)') /\ StartedHost'
  BY DEF HostsOK, Replaced, Replacing, HostDeleted, StartedHost
<1>. QED
  BY <1>1, <1>2, <1>3 DEF HostsOK

\* SetHost, by the receive loop: the maps say so already.
LEMMA SetHostRecorded ==
    ASSUME Types, AddressesOK, HostsOK, receiver.pc = "started", receiver'.pc = "idle",
           SetHost(receiver.ip, receiver.peer, receiver.host),
           peerIPs[receiver.peer] = receiver.ip,
           UNCHANGED <<stops, router, running>>, NEW S, Notes(S), "unlocked" \notin mishaps'
    PROVE  HostsOK'
<1>. DEFINE i == receiver.ip
            p == receiver.peer
            h == receiver.host
<1>0. p \in Peer /\ i \in IP /\ h \in FakeHost /\ h # NoHost
  BY NoHostIsNone DEF Types, JoinOK
<1>1. hosts'[i] = h
  BY <1>0 DEF SetHost, Types, MapsOK
<1>2. hosts[i] = h
  <2>1. ASSUME NEW w \in Stopper, stops[w].pc \in {"IPToPeerID", "PeerIPs"}, stops[w].ip = i
        PROVE  FALSE
    <3>1. Spares(w)
      BY <2>1, Frame DEF Midway
    <3>2. hosts[i] = NoHost
      BY <2>1 DEF HostsOK, HostDeleted
    <3>. QED
      BY <1>0, <1>1, <2>1, <3>1, <3>2 DEF Spares
  <2>. QED
    BY <2>1 DEF HostsOK, StartedHost, Freeing
<1>3. ipToPeer[i] = h.peer /\ peerHosts[h.peer] = h /\ h.peer \in Peer
  BY <1>0, <1>2, HostsTyped DEF HostsOK, HostFits
<1>4. h.peer = p
  BY <1>0, <1>3, RelayClientAssumption DEF AddressesOK, Known
<1>5. UNCHANGED maps
  BY <1>0, <1>2, <1>3, <1>4 DEF SetHost, maps, Types, MapsOK
<1>. QED
  BY <1>5, HostsKept

\* A departure takes the peer's fake host from every map.
LEMMA RemoveRecorded ==
    ASSUME Types, AddressesOK, HostsOK, NEW p \in Peer, RemoveByRemoteID(p),
           UNCHANGED <<stops, router, receiver>>, Notes({}), "unlocked" \notin mishaps'
    PROVE  HostsOK'
<1>1. CASE UNCHANGED <<maps, running>>
  BY <1>1, HostsKept
<1>2. CASE /\ peerIPs[p] # NoIP
           /\ hosts[peerIPs[p]] # NoHost
           /\ StopHost(hosts[peerIPs[p]], peerIPs[p])
  <2>. PICK i \in IP : i = peerIPs[p]
    BY <1>2 DEF Types, MapsOK
  <2>. DEFINE h == hosts[i]
  <2>0. hosts'[i] = NoHost /\ h # NoHost /\ h \in FakeHost /\ h.peer \in Peer
        /\ running' = running \ {h}
        /\ \A j \in IP \ {i} : hosts'[j] = hosts[j]
    BY <1>2, HostsTyped DEF StopHost, Types, MapsOK
  <2>1. ipToPeer[i] = h.peer /\ peerHosts[h.peer] = h /\ h.ip = i
    BY <2>0 DEF HostsOK, HostFits
  <2>2. h.peer = p
    BY <2>0, <2>1, RelayClientAssumption DEF AddressesOK, Known
  <2>3. /\ ipToPeer'[i] = NoPeer /\ peerIPs'[p] = NoIP /\ peerHosts'[p] = NoHost
        /\ \A q \in Peer \ {p} : peerIPs'[q] = peerIPs[q] /\ peerHosts'[q] = peerHosts[q]
        /\ \A j \in IP \ {i} : ipToPeer'[j] = ipToPeer[j]
    BY <1>2, <2>1, <2>2 DEF StopHost, Types, MapsOK
  <2>4. ~Replacing /\ ~Replacing'
    <3>1. ~Replacing
      BY <2>0 DEF HostsOK, Replaced
    <3>. QED
      BY <3>1 DEF Replacing
  <2>5. ASSUME NEW k \in IP PROVE HostFits(k)'
    <3>1. CASE k # i /\ hosts[k] # NoHost
      <4>1. hosts[k].peer \in Peer /\ hosts[k].ip = k /\ peerHosts[hosts[k].peer] = hosts[k]
        BY <3>1, HostsTyped DEF HostsOK, HostFits
      <4>2. hosts[k] # h /\ hosts[k].peer # p
        BY <2>1, <2>2, <3>1, <4>1
      <4>3. Leaving(k)' = Leaving(k)
        BY DEF Leaving
      <4>. QED
        BY <2>0, <2>3, <3>1, <4>1, <4>2, <4>3 DEF HostsOK, HostFits
    <3>2. CASE k = i \/ hosts[k] = NoHost
      BY <2>0, <3>2 DEF HostFits
    <3>. QED
      BY <3>1, <3>2
  <2>6. ASSUME NEW q \in Peer PROVE PeerHostFits(q)'
    <3>1. CASE q # p /\ peerHosts[q] # NoHost
      <4>1. peerHosts[q].ip \in IP /\ peerHosts[q].peer = q
            /\ (hosts[peerHosts[q].ip] = peerHosts[q] \/ HalfStopped(q))
        BY <2>4, <3>1, HostsTyped DEF HostsOK, PeerHostFits, Replacing
      <4>2. hosts[peerHosts[q].ip] = peerHosts[q] => peerHosts[q].ip # i
        BY <2>2, <3>1, <4>1
      <4>3. HalfStopped(q)' = HalfStopped(q)
        BY DEF HalfStopped
      <4>. QED
        BY <2>0, <2>3, <3>1, <4>1, <4>2, <4>3 DEF PeerHostFits
    <3>2. CASE q = p \/ peerHosts[q] = NoHost
      BY <2>3, <3>2 DEF PeerHostFits
    <3>. QED
      BY <3>1, <3>2
  <2>7. Replaced'
    BY <2>4 DEF Replaced, Replacing
  <2>8. ASSUME NEW w \in Stopper PROVE HostDeleted(w)'
    <3>1. Midway(w) => stops[w].ip \in IP
      BY HostsTyped
    <3>. QED
      BY <2>0, <3>1 DEF HostsOK, HostDeleted, Midway
  <2>9. StartedHost'
    <3>1. receiver.pc = "started" => receiver.ip \in IP /\ receiver.peer \in Peer
      BY DEF Types, JoinOK
    <3>2. Freeing(receiver.ip)' = Freeing(receiver.ip)
      BY DEF Freeing
    <3>3. ASSUME receiver.pc = "started", peerIPs'[receiver.peer] = receiver.ip
          PROVE  receiver.ip # i /\ peerIPs[receiver.peer] = receiver.ip
      BY <2>3, <3>1, <3>3, NoIPIsNone DEF AddressesOK, Alone
    <3>. QED
      BY <2>0, <3>1, <3>2, <3>3 DEF HostsOK, StartedHost
  <2>. QED
    BY <2>5, <2>6, <2>7, <2>8, <2>9 DEF HostsOK
<1>. QED
  BY <1>1, <1>2 DEF RemoveByRemoteID

\* delete(hm.Hosts, ...)
LEMMA StopDeletesHostRecorded ==
    ASSUME Types, AddressesOK, HostsOK, NEW w \in Stopper, StopDeletesHost(w),
           \A v \in Stopper \ {w} : stops'[v] = stops[v],
           UNCHANGED <<router, receiver, running>>
    PROVE  HostsOK'
<1>. DEFINE i == stops[w].ip
            p == stops[w].peer
<1>0. /\ i \in IP /\ hosts'[i] = NoHost
      /\ \A j \in IP \ {i} : hosts'[j] = hosts[j]
      /\ UNCHANGED <<peerIPs, ipToPeer, peerHosts>>
  BY HostsTyped DEF StopDeletesHost, Types, MapsOK, Midway
<1>1. stops'[w].pc = "IPToPeerID" /\ stops'[w].ip = i /\ stops'[w].peer = p
  <2>1. stops'[w] = [stops[w] EXCEPT !.pc = "IPToPeerID"] /\ stops[w] \in Stop
    BY StopChanges DEF Types, StopsOK
  <2>. QED
    BY <2>1 DEF Stop
<1>2. ASSUME NEW k \in IP PROVE HostFits(k)'
  <2>1. CASE k # i
    <3>1. Leaving(k) => Leaving(k)'
      <4>1. ASSUME NEW v \in Stopper, stops[v].ip = k PROVE stops'[v] = stops[v]
        BY <2>1, <4>1
      <4>. QED
        BY <4>1 DEF Leaving
    <3>. QED
      BY <1>0, <2>1, <3>1 DEF HostsOK, HostFits
  <2>2. CASE k = i
    BY <1>0, <2>2 DEF HostFits
  <2>. QED
    BY <2>1, <2>2
<1>3. ASSUME NEW q \in Peer PROVE PeerHostFits(q)'
  <2>1. HalfStopped(q) => HalfStopped(q)'
    <3>1. ASSUME NEW v \in Stopper, stops[v].pc \in {"IPToPeerID", "PeerIPs", "PeerHosts"}
          PROVE  stops'[v] = stops[v]
      BY <3>1 DEF StopDeletesHost
    <3>. QED
      BY <3>1 DEF HalfStopped
  <2>2. CASE peerHosts[q] # NoHost /\ peerHosts[q].ip = i /\ hosts[i] = peerHosts[q]
    <3>1. peerHosts[q].peer = q
      BY <2>2 DEF HostsOK, PeerHostFits
    <3>2. ipToPeer[i] = q
      BY <1>0, <2>2, <3>1 DEF HostsOK, HostFits
    <3>3. p = q
      <4>1. StopFits(w) /\ stops[w].pc = "Hosts"
        BY DEF AddressesOK, StopDeletesHost
      <4>. QED
        BY <3>2, <4>1, RelayClientAssumption DEF StopFits
    <3>. QED
      BY <1>0, <1>1, <3>1, <3>3 DEF PeerHostFits, HalfStopped
  <2>3. CASE peerHosts[q] # NoHost /\ ~(peerHosts[q].ip = i /\ hosts[i] = peerHosts[q])
    <3>1. peerHosts[q].ip \in IP
      BY <2>3, HostsTyped
    <3>. QED
      BY <1>0, <2>1, <2>3, <3>1 DEF HostsOK, PeerHostFits
  <2>4. CASE peerHosts[q] = NoHost
    BY <1>0, <2>4 DEF PeerHostFits
  <2>. QED
    BY <2>2, <2>3, <2>4
<1>4. Replaced'
  BY <1>0 DEF HostsOK, Replaced, Replacing
<1>5. ASSUME NEW v \in Stopper PROVE HostDeleted(v)'
  <2>1. CASE v = w
    BY <1>0, <1>1, <2>1 DEF HostDeleted
  <2>2. CASE v # w
    <3>1. Midway(v) => stops[v].ip \in IP
      BY HostsTyped
    <3>. QED
      BY <1>0, <2>2, <3>1 DEF HostsOK, HostDeleted, Midway
  <2>. QED
    BY <2>1, <2>2
<1>6. StartedHost'
  <2>1. receiver.pc = "started" => receiver.ip \in IP
    BY DEF Types, JoinOK
  <2>2. CASE receiver.ip = i
    BY <1>1, <2>2 DEF StartedHost, Freeing
  <2>3. CASE receiver.ip # i
    <3>1. Freeing(receiver.ip) => Freeing(receiver.ip)'
      <4>1. ASSUME NEW v \in Stopper, stops[v].ip = receiver.ip PROVE stops'[v] = stops[v]
        BY <2>3, <4>1
      <4>. QED
        BY <4>1 DEF Freeing
    <3>. QED
      BY <1>0, <2>1, <2>3, <3>1 DEF HostsOK, StartedHost
  <2>. QED
    BY <2>2, <2>3
<1>. QED
  BY <1>2, <1>3, <1>4, <1>5, <1>6 DEF HostsOK

\* The deletions from the address maps and from PeerHosts.
LEMMA StopGoesOnRecorded ==
    ASSUME Types, AddressesOK, HostsOK, NEW w \in Stopper, StopGoesOn(w)
    PROVE  HostsOK'
<1>. DEFINE i == stops[w].ip
            p == stops[w].peer
<1>0. /\ \A v \in Stopper \ {w} : stops'[v] = stops[v]
      /\ UNCHANGED <<router, receiver, running>>
      /\ Midway(w) => i \in IP
      /\ StopFits(w) /\ HostDeleted(w) /\ stops[w] \in Stop
  BY StopChanges, HostsTyped DEF Types, StopGoesOn, AddressesOK, HostsOK, StopsOK
<1>1. CASE StopLooksUp(w)
  <2>1. stops[w].pc = "lookup" /\ stops'[w].pc = "Hosts" /\ stops'[w].ip = i /\ UNCHANGED maps
    <3>1. stops'[w] = [pc |-> "Hosts", ip |-> i, peer |-> ipToPeer[i]]
      BY <1>1, StopChanges DEF Types
    <3>. QED
      BY <1>1, <3>1 DEF StopLooksUp
  <2>. QED
    BY <1>0, <2>1, HostsKept
<1>2. CASE StopDeletesHost(w)
  BY <1>0, <1>2, StopDeletesHostRecorded
<1>3. CASE StopDeletesAddress(w)
  <2>0. /\ stops[w].pc = "IPToPeerID" /\ i \in IP /\ hosts[i] = NoHost
        /\ \A j \in IP \ {i} : ipToPeer'[j] = ipToPeer[j]
        /\ UNCHANGED <<peerIPs, hosts, peerHosts>>
    BY <1>0, <1>3 DEF StopDeletesAddress, Types, MapsOK, Midway, HostDeleted
  <2>1. stops'[w].pc = "PeerIPs" /\ stops'[w].ip = i /\ stops'[w].peer = p
    BY <1>0, <1>3, StopChanges DEF Types, Stop
  <2>2. ASSUME NEW k \in IP PROVE HostFits(k)'
    <3>1. Leaving(k) => Leaving(k)'
      BY <1>0, <2>0 DEF Leaving
    <3>. QED
      BY <1>0, <2>0, <3>1 DEF HostsOK, HostFits
  <2>3. ASSUME NEW q \in Peer PROVE PeerHostFits(q)'
    <3>1. HalfStopped(q) => HalfStopped(q)'
      BY <1>0, <2>0, <2>1 DEF HalfStopped
    <3>. QED
      BY <1>0, <2>0, <3>1 DEF HostsOK, PeerHostFits
  <2>4. Replaced'
    BY <1>0, <2>0 DEF HostsOK, Replaced, Replacing
  <2>5. ASSUME NEW v \in Stopper PROVE HostDeleted(v)'
    BY <1>0, <2>0, <2>1 DEF HostsOK, HostDeleted
  <2>6. StartedHost'
    <3>1. Freeing(receiver.ip) => Freeing(receiver.ip)'
      BY <1>0, <2>0, <2>1 DEF Freeing
    <3>. QED
      BY <1>0, <2>0, <3>1 DEF HostsOK, StartedHost
  <2>. QED
    BY <2>2, <2>3, <2>4, <2>5, <2>6 DEF HostsOK
<1>4. CASE StopDeletesPeerIP(w)
  <2>0. /\ stops[w].pc = "PeerIPs" /\ i \in IP
        /\ \A q \in Peer : peerIPs'[q] = IF q = p THEN NoIP ELSE peerIPs[q]
        /\ UNCHANGED <<ipToPeer, hosts, peerHosts>>
    BY <1>0, <1>4 DEF StopDeletesPeerIP, Midway
  <2>1. stops'[w].pc = "PeerHosts" /\ stops'[w].ip = i /\ stops'[w].peer = p
    BY <1>0, <1>4, StopChanges DEF Types, Stop
  <2>2. ASSUME NEW k \in IP PROVE HostFits(k)'
    <3>1. Leaving(k) => Leaving(k)'
      BY <1>0, <2>0 DEF Leaving
    <3>. QED
      BY <1>0, <2>0, <3>1 DEF HostsOK, HostFits
  <2>3. ASSUME NEW q \in Peer PROVE PeerHostFits(q)'
    <3>1. HalfStopped(q) => HalfStopped(q)'
      BY <1>0, <2>0, <2>1 DEF HalfStopped
    <3>. QED
      BY <1>0, <2>0, <3>1 DEF HostsOK, PeerHostFits
  <2>4. Replaced'
    BY <1>0, <2>0 DEF HostsOK, Replaced, Replacing
  <2>5. ASSUME NEW v \in Stopper PROVE HostDeleted(v)'
    BY <1>0, <2>0, <2>1 DEF HostsOK, HostDeleted
  <2>6. StartedHost'
    <3>1. SUFFICES ASSUME receiver.pc = "started", peerIPs'[receiver.peer] = receiver.ip
                   PROVE  hosts[receiver.ip] = receiver.host \/ Freeing(receiver.ip)'
      BY <1>0, <2>0 DEF StartedHost
    <3>2. receiver.ip \in IP /\ receiver.peer \in Peer
      BY <3>1 DEF Types, JoinOK
    <3>3. peerIPs[receiver.peer] = receiver.ip /\ receiver.peer # p
      BY <2>0, <3>1, <3>2, NoIPIsNone
    <3>4. ASSUME NEW v \in Stopper, stops[v].pc \in {"IPToPeerID", "PeerIPs"},
                 stops[v].ip = receiver.ip
          PROVE  Freeing(receiver.ip)'
      <4>1. CASE v # w
        BY <1>0, <3>4, <4>1 DEF Freeing
      <4>2. CASE v = w
        <5>1. ipToPeer[i] = NoPeer
          BY <1>0, <2>0 DEF StopFits
        <5>2. HalfFreed(receiver.peer, i)
          BY <3>2, <3>3, <3>4, <4>2, <5>1, RelayClientAssumption DEF AddressesOK, Known
        <5>. QED
          BY <1>0, <3>3, <3>4, <4>2, <5>2 DEF HalfFreed, Freeing
      <4>. QED
        BY <4>1, <4>2
    <3>. QED
      BY <3>1, <3>3, <3>4 DEF HostsOK, StartedHost, Freeing
  <2>. QED
    BY <2>2, <2>3, <2>4, <2>5, <2>6 DEF HostsOK
<1>5. CASE StopDeletesPeerHost(w)
  <2>0. /\ stops[w].pc = "PeerHosts"
        /\ \A q \in Peer : peerHosts'[q] = IF q = p THEN NoHost ELSE peerHosts[q]
        /\ UNCHANGED <<ipToPeer, hosts, peerIPs>>
        /\ stops'[w].pc = "idle"
    BY <1>5, StopChanges, NoStopOK DEF StopDeletesPeerHost, Types
  <2>2. ASSUME NEW k \in IP PROVE HostFits(k)'
    <3>1. Leaving(k) => Leaving(k)'
      BY <1>0, <2>0 DEF Leaving
    <3>2. CASE hosts[k] # NoHost
      <4>1. hosts[k].peer \in Peer /\ ipToPeer[k] = hosts[k].peer
            /\ peerHosts[hosts[k].peer] = hosts[k]
        BY <3>2, HostsTyped DEF HostsOK, HostFits
      <4>2. Led
        BY <3>2 DEF AddressesOK, HostsOK, Replaced, Replacing
      <4>3. peerIPs[hosts[k].peer] = k
        BY <4>1, <4>2 DEF Led
      <4>4. hosts[k].peer # p
        BY <1>0, <2>0, <4>1, <4>3, NoIPIsNone DEF StopFits
      <4>. QED
        BY <1>0, <2>0, <3>1, <3>2, <4>1, <4>4 DEF HostsOK, HostFits
    <3>3. CASE hosts[k] = NoHost
      BY <2>0, <3>3 DEF HostFits
    <3>. QED
      BY <3>2, <3>3
  <2>3. ASSUME NEW q \in Peer PROVE PeerHostFits(q)'
    <3>1. (q # p /\ HalfStopped(q)) => HalfStopped(q)'
      BY <1>0, <2>0 DEF HalfStopped
    <3>. QED
      BY <1>0, <2>0, <3>1 DEF HostsOK, PeerHostFits
  <2>4. Replaced'
    BY <1>0, <2>0 DEF HostsOK, Replaced, Replacing
  <2>5. ASSUME NEW v \in Stopper PROVE HostDeleted(v)'
    BY <1>0, <2>0 DEF HostsOK, HostDeleted
  <2>6. StartedHost'
    <3>1. Freeing(receiver.ip) => Freeing(receiver.ip)'
      BY <1>0, <2>0 DEF Freeing
    <3>. QED
      BY <1>0, <2>0, <3>1 DEF HostsOK, StartedHost
  <2>. QED
    BY <2>2, <2>3, <2>4, <2>5, <2>6 DEF HostsOK
<1>. QED
  BY <1>1, <1>2, <1>3, <1>4, <1>5 DEF StopGoesOn

\* The lines of StopAll after the range, and the end of Reset.
LEMMA StopAllRecorded ==
    ASSUME Types, NoLoopMeanwhile, mishaps = {} => HostsOK, mishaps' = {},
           StopAllStopped \/ NewPeerHosts \/ NewPeerIPs \/ ResetReturns
    PROVE  HostsOK'
<1>1. UNCHANGED <<stops, receiver, running>> /\ receiver.pc = "idle"
  BY DEF StopAllStopped, NewPeerHosts, NewPeerIPs, ResetReturns, NoLoopMeanwhile
<1>2. StartedHost'
  BY <1>1 DEF StartedHost
<1>3. ASSUME ~ResetReturns PROVE HostsOK
  BY <1>3, Unharmed DEF StopAllStopped, NewPeerHosts, NewPeerIPs
<1>4. \A i \in IP : hosts'[i] = NoHost
  <2>1. CASE StopAllStopped
    BY <2>1 DEF StopAllStopped
  <2>2. CASE ResetReturns /\ EmptyMaps'
    BY <2>2 DEF EmptyMaps
  <2>3. CASE ResetReturns /\ ~EmptyMaps'
    <3>1. HostsOK /\ Replacing /\ hosts' = hosts
      BY <2>3, Unharmed DEF ResetReturns, Replacing
    <3>. QED
      BY <3>1 DEF HostsOK, Replaced
  <2>4. CASE NewPeerHosts \/ NewPeerIPs
    <3>1. HostsOK /\ Replacing /\ hosts' = hosts
      BY <1>3, <2>4 DEF NewPeerHosts, NewPeerIPs, Replacing, ResetReturns
    <3>. QED
      BY <3>1 DEF HostsOK, Replaced
  <2>. QED
    BY <2>1, <2>2, <2>3, <2>4
<1>5. \/ router'.pc = "PeerHosts" /\ HostsOK /\ peerHosts' = peerHosts
      \/ \A p \in Peer : peerHosts'[p] = NoHost
  <2>1. CASE StopAllStopped
    BY <1>3, <2>1 DEF StopAllStopped, Types, RouterOK, Router, ResetReturns
  <2>2. CASE ResetReturns /\ EmptyMaps'
    BY <2>2 DEF EmptyMaps
  <2>3. CASE ResetReturns /\ ~EmptyMaps'
    <3>1. HostsOK /\ router.pc = "IPToPeerID" /\ peerHosts' = peerHosts
      BY <2>3, Unharmed DEF ResetReturns
    <3>. QED
      BY <3>1 DEF HostsOK, Replaced
  <2>4. CASE NewPeerHosts
    BY <2>4 DEF NewPeerHosts
  <2>5. CASE NewPeerIPs
    <3>1. HostsOK /\ router.pc = "PeerIPs" /\ peerHosts' = peerHosts
      BY <1>3, <2>5 DEF NewPeerIPs, ResetReturns
    <3>. QED
      BY <3>1 DEF HostsOK, Replaced
  <2>. QED
    BY <2>1, <2>2, <2>3, <2>4, <2>5
<1>6. Replaced' /\ (\A w \in Stopper : HostDeleted(w)') /\ (\A i \in IP : HostFits(i)')
  <2>1. ASSUME NEW w \in Stopper PROVE HostDeleted(w)'
    <3>1. Midway(w) => stops[w].ip \in IP
      BY HostsTyped
    <3>. QED
      BY <1>1, <1>4, <3>1 DEF HostDeleted, Midway
  <2>. QED
    BY <1>4, <1>5, <2>1 DEF Replaced, HostFits
<1>7. ASSUME NEW p \in Peer PROVE PeerHostFits(p)'
  BY <1>5 DEF HostsOK, PeerHostFits
<1>. QED
  BY <1>2, <1>6, <1>7 DEF HostsOK

LEMMA CommandRecorded ==
    ASSUME HostsInv, CommandStep
    PROVE  Recorded' /\ ProbesFit'
<1>0. Types /\ NoLoopMeanwhile /\ (mishaps = {} => AddressesOK /\ HostsOK) /\ ProbesFit
  BY DEF HostsInv, IInv, Addresses, Clean, Recorded
<1>1. CASE \/ \E S \in SUBSET Peer, p \in Peer : SelectGame(S, p)
           \/ CreateRoom
           \/ Close
  <2>1. ResetBegins(TRUE)
    BY <1>1 DEF SelectGame, CreateRoom, Close, CommandResets
  <2>2. /\ receiver'.pc = "idle" /\ router.pc = "idle" /\ router'.pc = "range"
        /\ UNCHANGED <<maps, running, stops, mishaps, probes>>
    BY <2>1 DEF ResetBegins, RouterUnlocked, NoJoin
  <2>. QED
    BY <1>0, <2>2, HostsKept DEF Recorded, ProbesFit, Replacing
<1>2. CASE \/ CommandNamesHost
           \/ CreateConnects
           \/ HostRoom
           \/ SelectGameReturns
           \/ \E p \in Peer : JoinConnects(p)
           \/ \E p \in Peer : JoinRanges(p)
           \/ JoinFails
           \/ JoinReturns
  <2>1. UNCHANGED <<maps, running, stops, router, receiver, mishaps, probes>>
    BY <1>2 DEF CommandNamesHost, CreateConnects, HostRoom, SelectGameReturns, JoinConnects,
                JoinRanges, JoinFails, JoinReturns
  <2>. QED
    BY <1>0, <2>1, HostsKept DEF Recorded, ProbesFit
<1>3. CASE JoinStartsHost
  <2>. DEFINE p == command.peer
              i == command.ip
              isHost == p = command.host
  <2>0. p \in Peer /\ i \in IP
    BY <1>0, <1>3 DEF JoinStartsHost, Types, CommandOK
  <2>1. PICK h \in NewHosts(p, i, isHost) :
            /\ StartFakeHost(p, i, h)
            /\ probes' \subseteq probes \cup {NewProbe(h, i)}
    BY <1>3 DEF JoinStartsHost
  <2>2. h \in FakeHost /\ h.peer = p /\ h.ip = i /\ h \notin InUse
    BY <2>0, <2>1, NewHostsType
  <2>3. UNCHANGED <<stops, router, receiver>> /\ Notes(Late(p, i))
    BY <1>3 DEF JoinStartsHost
  <2>4. ProbesFit'
    BY <1>0, <2>1, <2>2 DEF ProbesFit, NewProbe
  <2>5. ASSUME mishaps' = {} PROVE HostsOK'
    <3>1. mishaps = {} /\ Late(p, i) = {} /\ "unlocked" \notin mishaps'
      BY <2>3, <2>5, Unharmed
    <3>2. peerIPs[p] = i
      BY <3>1 DEF Late
    <3>. QED
      BY <1>0, <2>0, <2>1, <2>2, <2>3, <3>1, <3>2, StartRecorded
  <2>. QED
    BY <2>4, <2>5 DEF Recorded
<1>4. ASSUME NEW p \in Peer, AssignPlayer(p) PROVE Recorded' /\ ProbesFit'
  <2>0. UNCHANGED <<hosts, peerHosts, stops, router, receiver, running, probes>> /\ Notes({})
    BY <1>4 DEF AssignPlayer
  <2>1. receiver.pc = "idle"
    BY <1>0, <1>4 DEF AssignPlayer, NoLoopMeanwhile
  <2>2. ASSUME NEW i \in IP, AssignIP(p, i), mishaps' = {} PROVE HostsOK'
    BY <1>0, <2>0, <2>1, <2>2, Unharmed, AssignIPRecorded
  <2>3. ASSUME UNCHANGED <<peerIPs, ipToPeer>>, mishaps' = {} PROVE HostsOK'
    <3>1. UNCHANGED maps /\ mishaps = {}
      BY <2>0, <2>3, Unharmed DEF maps
    <3>. QED
      BY <1>0, <2>0, <3>1, HostsKept
  <2>. QED
    BY <1>0, <1>4, <2>0, <2>2, <2>3 DEF AssignPlayer, Recorded, ProbesFit
<1>. QED
  BY <1>1, <1>2, <1>3, <1>4 DEF CommandStep

LEMMA RouterRecorded ==
    ASSUME HostsInv, RouterStep
    PROVE  Recorded' /\ ProbesFit'
<1>0. Types /\ NoLoopMeanwhile /\ (mishaps = {} => HostsOK) /\ ProbesFit /\ "router" \in Stopper
  BY DEF HostsInv, IInv, Recorded, Stopper
<1>1. CASE WatcherResets
  <2>1. /\ receiver'.pc = "idle" /\ router.pc = "idle" /\ router'.pc = "range"
        /\ UNCHANGED <<maps, running, stops, mishaps, probes>>
    BY <1>1 DEF WatcherResets, ResetBegins, RouterUnlocked, NoJoin
  <2>. QED
    BY <1>0, <2>1, HostsKept DEF Recorded, ProbesFit, Replacing
<1>2. ASSUME NEW i \in IP, StopAllStops(i) PROVE Recorded' /\ ProbesFit'
  <2>1. /\ hosts[i] # NoHost /\ StopBegins("router", hosts[i], i)
        /\ UNCHANGED <<maps, receiver, mishaps, probes>>
    BY <1>2 DEF StopAllStops
  <2>2. router'.pc = router.pc
    BY <1>0, <1>2 DEF StopAllStops, Types, RouterOK, Router
  <2>3. HostsOK => hosts[i].ip = i
    BY <2>1 DEF HostsOK, HostFits
  <2>. QED
    BY <1>0, <2>1, <2>2, <2>3, StopBeginsRecorded DEF Recorded, ProbesFit
<1>3. CASE StopAllStopped \/ NewPeerHosts \/ NewPeerIPs \/ ResetReturns
  <2>1. probes' = probes
    BY <1>3 DEF StopAllStopped, NewPeerHosts, NewPeerIPs, ResetReturns
  <2>. QED
    BY <1>0, <1>3, <2>1, StopAllRecorded DEF Recorded, ProbesFit
<1>4. ASSUME NEW pr \in probes, ProbeFires(pr) PROVE Recorded' /\ ProbesFit'
  <2>1. /\ StopBegins("router", pr.host, pr.ip) /\ probes' \subseteq probes
        /\ UNCHANGED <<maps, receiver, mishaps>>
    BY <1>4 DEF ProbeFires
  <2>2. ~Replacing /\ ~Replacing'
    BY <1>4 DEF ProbeFires, RouterUnlocked, UnlockedRouter, Replacing
  <2>3. pr.host.ip = pr.ip /\ pr.ip \in IP
    BY <1>0 DEF ProbesFit, Types, Probe
  <2>. QED
    BY <1>0, <2>1, <2>2, <2>3, StopBeginsRecorded DEF Recorded, ProbesFit
<1>5. CASE ProbeStopped
  <2>1. ~Replacing /\ ~Replacing'
    BY <1>5 DEF ProbeStopped, UnlockedRouter, Replacing
  <2>2. UNCHANGED <<maps, running, receiver, stops, mishaps, probes>>
    BY <1>5 DEF ProbeStopped
  <2>. QED
    BY <1>0, <2>1, <2>2, HostsKept DEF Recorded, ProbesFit
<1>. QED
  BY <1>1, <1>2, <1>3, <1>4, <1>5 DEF RouterStep

LEMMA ReceiverRecorded ==
    ASSUME HostsInv,
           \/ \E p \in Peer : DynamicJoinAssigns(p)
           \/ DynamicJoinGoesOn
           \/ StragglerGoesOn
    PROVE  Recorded' /\ ProbesFit'
<1>0. Types /\ (mishaps = {} => AddressesOK /\ HostsOK) /\ ProbesFit
  BY DEF HostsInv, IInv, Addresses, Clean, Recorded
<1>1. ProbesFit'
  <2>1. probes' = probes
    BY DEF DynamicJoinAssigns, DynamicJoinGoesOn, StragglerGoesOn
  <2>. QED
    BY <1>0, <2>1 DEF ProbesFit
<1>2. ASSUME NEW p \in Peer, DynamicJoinAssigns(p) PROVE Recorded'
  <2>0. UNCHANGED <<hosts, peerHosts, stops, router, running>> /\ Notes({})
    BY <1>2 DEF DynamicJoinAssigns
  <2>1. PICK i \in IP :
            /\ AssignIP(p, i)
            /\ receiver' = [NoJoin EXCEPT !.pc = "assigned", !.peer = p, !.ip = i,
                                          !.tcp = (currentHost = Self)]
    BY <1>2 DEF DynamicJoinAssigns
  <2>2. receiver'.pc # "started"
    BY <2>1 DEF NoJoin
  <2>. QED
    BY <1>0, <2>0, <2>1, <2>2, AssignIPRecorded, Unharmed DEF Recorded
<1>3. ASSUME DynamicJoinGoesOn, mishaps' = {} PROVE HostsOK'
  <2>. DEFINE p == receiver.peer
              i == receiver.ip
  <2>0. UNCHANGED <<stops, router>> /\ Notes(Late(p, i))
    BY <1>3 DEF DynamicJoinGoesOn
  <2>1. mishaps = {} /\ Late(p, i) = {} /\ "unlocked" \notin mishaps'
    BY <1>3, <2>0, Unharmed
  <2>2. peerIPs[p] = i
    BY <2>1 DEF Late
  <2>3. CASE receiver' = NoJoin /\ UNCHANGED <<maps, running>>
    BY <1>0, <2>0, <2>1, <2>3, HostsKept DEF NoJoin
  <2>4. ASSUME receiver.pc = "assigned", NEW h \in NewHosts(p, i, receiver.tcp),
               StartFakeHost(p, i, h),
               receiver' = [receiver EXCEPT !.pc = "started", !.host = h]
        PROVE  HostsOK'
    <3>1. p \in Peer /\ i \in IP /\ receiver.tcp \in BOOLEAN /\ receiver \in Join
      BY <1>0, <2>4 DEF Types, JoinOK, Join
    <3>2. h \in FakeHost /\ h.peer = p /\ h.ip = i /\ h \notin InUse
      BY <2>4, <3>1, NewHostsType
    <3>3. receiver'.ip = i /\ receiver'.host = h
      BY <2>4, <3>1 DEF Join
    <3>. QED
      BY <1>0, <2>0, <2>1, <2>2, <2>4, <3>1, <3>2, <3>3, StartRecorded
  <2>5. CASE GuestRecorded(receiver, receiver')
    <3>1. /\ receiver.pc = "started" /\ receiver'.pc = "idle" /\ running' = running
          /\ SetHost(i, p, receiver.host)
      BY <2>5 DEF GuestRecorded, NoJoin
    <3>. QED
      BY <1>0, <2>0, <2>1, <2>2, <3>1, SetHostRecorded
  <2>. QED
    BY <1>3, <2>3, <2>4, <2>5 DEF DynamicJoinGoesOn, GuestStarts
<1>4. ASSUME StragglerGoesOn PROVE Recorded'
  <2>1. "straggler" \in mishaps'
    BY <1>4, NotesGrow DEF StragglerGoesOn
  <2>. QED
    BY <2>1 DEF Recorded
<1>. QED
  BY <1>1, <1>2, <1>3, <1>4 DEF Recorded

LEMMA ObserverRecorded ==
    ASSUME HostsInv, ObserverStep
    PROVE  Recorded' /\ ProbesFit'
<1>0. /\ Types /\ (mishaps = {} => AddressesOK /\ HostsOK) /\ ProbesFit
      /\ "observer" \in Stopper
  BY DEF HostsInv, IInv, Addresses, Clean, Recorded, Stopper
<1>1. ProbesFit' /\ UNCHANGED <<router, receiver>>
  <2>1. UNCHANGED <<probes, router, receiver>>
    BY DEF ObserverStep, HandleLeaveRoom, MigrationBegins, MigrationStops, MigrationStopped,
           MigrationRebinds, MigrationEnds, MigrationWakes, MigrationStopsHost,
           MigrationRestarts
  <2>. QED
    BY <1>0, <2>1 DEF ProbesFit
<1>2. ASSUME NEW p \in Peer, HandleLeaveRoom(p) PROVE Recorded'
  <2>1. RemoveByRemoteID(p) /\ UNCHANGED <<stops, router, receiver>> /\ Notes({})
    BY <1>2 DEF HandleLeaveRoom
  <2>. QED
    BY <1>0, <2>1, RemoveRecorded, Unharmed DEF Recorded
<1>3. ASSUME \/ \E p \in Peer \cup {Self} : MigrationBegins(p)
             \/ MigrationStopped
             \/ MigrationEnds
             \/ MigrationWakes
      PROVE  Recorded'
  <2>1. UNCHANGED <<maps, running, stops, mishaps>>
    BY <1>3 DEF MigrationBegins, MigrationStopped, MigrationEnds, MigrationWakes
  <2>. QED
    BY <1>0, <1>1, <2>1, HostsKept DEF Recorded
<1>4. ASSUME NEW p \in Peer, MigrationStops(p) PROVE Recorded'
  <2>1. /\ peerHosts[p] # NoHost /\ StopBegins("observer", peerHosts[p], peerHosts[p].ip)
        /\ UNCHANGED <<maps, mishaps>>
    BY <1>4 DEF MigrationStops
  <2>2. peerHosts[p].ip \in IP
    BY <1>0, <2>1, HostsTyped
  <2>. QED
    BY <1>0, <1>1, <2>1, <2>2, StopBeginsRecorded DEF Recorded
<1>5. ASSUME MigrationStopsHost PROVE Recorded'
  <2>. DEFINE h == hosts[observer.ip]
  <2>1. UNCHANGED <<maps, mishaps>> /\ observer.ip \in IP
    BY <1>0, <1>5 DEF MigrationStopsHost, Types, ObserverOK
  <2>2. CASE h # NoHost /\ StopBegins("observer", h, observer.ip)
    <3>1. HostsOK => h.ip = observer.ip
      BY <2>1, <2>2 DEF HostsOK, HostFits
    <3>. QED
      BY <1>0, <1>1, <2>1, <2>2, <3>1, StopBeginsRecorded DEF Recorded
  <2>3. CASE UNCHANGED <<stops, running>>
    BY <1>0, <1>1, <2>1, <2>3, HostsKept DEF Recorded
  <2>. QED
    BY <1>5, <2>2, <2>3 DEF MigrationStopsHost
<1>6. ASSUME NEW p \in Peer, NEW i \in IP, NEW h \in NewHosts(p, i, TRUE),
             StartFakeHost(p, i, h), Notes(Late(p, i)), UNCHANGED stops
      PROVE  Recorded'
  <2>1. h \in FakeHost /\ h.peer = p /\ h.ip = i /\ h \notin InUse
    BY NewHostsType
  <2>2. ASSUME mishaps' = {} PROVE HostsOK'
    <3>1. mishaps = {} /\ Late(p, i) = {} /\ "unlocked" \notin mishaps'
      BY <1>6, <2>2, Unharmed
    <3>2. peerIPs[p] = i
      BY <3>1 DEF Late
    <3>. QED
      BY <1>0, <1>1, <1>6, <2>1, <3>1, <3>2, StartRecorded
  <2>. QED
    BY <2>2 DEF Recorded
<1>7. ASSUME NEW p \in Peer, MigrationRebinds(p) PROVE Recorded'
  <2>1. observer.saved[p] \in IP
    BY <1>0, <1>7 DEF MigrationRebinds, Types, ObserverOK
  <2>. QED
    BY <1>6, <1>7, <2>1 DEF MigrationRebinds
<1>8. ASSUME MigrationRestarts PROVE Recorded'
  <2>1. observer.peer \in Peer /\ observer.ip \in IP
    BY <1>0, <1>8 DEF MigrationRestarts, Types, ObserverOK
  <2>2. ASSUME UNCHANGED <<maps, running, mishaps, stops>> PROVE Recorded'
    BY <1>0, <1>1, <2>2, HostsKept DEF Recorded
  <2>. QED
    BY <1>6, <1>8, <2>1, <2>2 DEF MigrationRestarts
<1>. QED
  BY <1>1, <1>2, <1>3, <1>4, <1>5, <1>7, <1>8 DEF ObserverStep

LEMMA NextHostsInv == HostsInv /\ [Next]_vars => HostsInv'
<1>. SUFFICES ASSUME HostsInv, [Next]_vars PROVE Recorded' /\ ProbesFit'
  BY NextIInv DEF HostsInv
<1>1. ASSUME NEW w \in Stopper, StopGoesOn(w) PROVE Recorded' /\ ProbesFit'
  <2>1. probes' = probes
    BY <1>1 DEF StopGoesOn
  <2>2. mishaps' = {} => mishaps = {}
    BY <1>1, Unharmed DEF StopGoesOn, StopLooksUp, StopDeletesHost, StopDeletesAddress,
                          StopDeletesPeerIP, StopDeletesPeerHost
  <2>. QED
    BY <1>1, <2>1, <2>2, StopGoesOnRecorded
       DEF HostsInv, IInv, Addresses, Clean, Recorded, ProbesFit
<1>2. ASSUME UNCHANGED vars PROVE Recorded' /\ ProbesFit'
  BY <1>2, HostsKept DEF vars, maps, HostsInv, Recorded, ProbesFit
<1>3. ASSUME \/ \E p \in Peer : DynamicJoinAssigns(p)
             \/ DynamicJoinGoesOn
             \/ StragglerGoesOn
      PROVE  Recorded' /\ ProbesFit'
  BY <1>3, ReceiverRecorded
<1>. QED
  BY <1>1, <1>2, <1>3, CommandRecorded, RouterRecorded, ObserverRecorded DEF Next

LEMMA HostsInvariance == Spec => []HostsInv
<1>1. Init => HostsInv
  <2>. SUFFICES ASSUME Init PROVE HostsInv
    OBVIOUS
  <2>1. HostsOK
    BY DEF Init, EmptyMaps, HostsOK, HostFits, PeerHostFits, Replaced, Replacing, HostDeleted,
           StartedHost, UnlockedRouter, NoStop, NoJoin
  <2>2. ProbesFit
    BY DEF Init, ProbesFit
  <2>. QED
    BY <2>1, <2>2, InitIInv DEF HostsInv, Recorded
<1>. QED
  BY <1>1, NextHostsInv, PTL DEF Spec

\* Hosts and PeerHosts hold the same running fake hosts, each under the peer and
\* the address it was started for, but for what a StopHost or StopAll is midway
\* with: as long as no dynamicJoin outlives a Reset, no host is started at an
\* address its peer has lost, and nobody comes between the lines of a StopHost
\* or StopAll that holds no mutex.
THEOREM FakeHostsAgree == Spec => []HostsAgree
<1>1. HostsInv => HostsAgree
  BY DEF HostsInv, Recorded, HostsOK, HostFits, PeerHostFits, HostsAgree
<1>. QED
  BY <1>1, HostsInvariance, PTL

\* A departure stops the fake host of the peer that left, nobody else's, under
\* the same conditions.
THEOREM DepartureStopsOwnHost == Spec => OwnHostOnly
<1>1. ASSUME HostsInv, [Next]_vars, HostsInv'
      PROVE  [mishaps = {} =>
                  \A p \in Peer : HandleLeaveRoom(p) =>
                      \A h \in running \ running' : h.peer = p]_vars
  <2>1. ASSUME mishaps = {}, NEW p \in Peer, HandleLeaveRoom(p), NEW h \in running \ running'
        PROVE  h.peer = p
    <3>0. Types /\ AddressesOK /\ HostsOK
      BY <1>1, <2>1 DEF HostsInv, IInv, Addresses, Clean, Recorded
    <3>1. RemoveByRemoteID(p)
      BY <2>1 DEF HandleLeaveRoom
    <3>2. StopHost(hosts[peerIPs[p]], peerIPs[p]) /\ peerIPs[p] # NoIP /\ hosts[peerIPs[p]] # NoHost
      BY <2>1, <3>1 DEF RemoveByRemoteID
    <3>3. h = hosts[peerIPs[p]] /\ peerIPs[p] \in IP
      BY <2>1, <3>0, <3>2 DEF StopHost, Types, MapsOK
    <3>4. ipToPeer[peerIPs[p]] = h.peer /\ h.peer \in Peer
      BY <3>0, <3>2, <3>3, HostsTyped DEF HostsOK, HostFits
    <3>. QED
      BY <3>0, <3>3, <3>4, RelayClientAssumption DEF AddressesOK, Known
  <2>. QED
    BY <2>1
<1>. QED
  BY <1>1, HostsInvariance, PTL DEF Spec, OwnHostOnly
-----------------------------------------------------------------------------
(* Redirects, for any number of connections *)

RunState ==
    {"none", "accepting", "accepted", "looping", "reading", "holding", "ended"}

Shape ==
    /\ run \in [Proxy -> RunState]
    /\ late \in [Proxy -> 0..2]

\* No proxy runs before both are made.
OnlyWhenRunning == \A p \in Proxy : run[p] # "none" => started = "running"

\* Having forwarded once too late, a proxy is back at the top of its loop, or
\* beyond, where it looks at the context.
LateIsLast ==
    \A p \in Proxy : late[p] # 0 =>
        late[p] = 1 /\ cancelled /\ run[p] \in {"looping", "ended"}

RedirectsInv ==
    /\ Shape
    /\ OnlyWhenRunning
    /\ LateIsLast
    /\ EndsTogether

LEMMA InitRedirectsInv == RedirectsInit => RedirectsInv
BY DEF RedirectsInit, RedirectsInv, Shape, RunState, OnlyWhenRunning, LateIsLast, EndsTogether

(***************************************************************************)
(* The ways in which a step can touch what the invariant is about          *)
(***************************************************************************)

LEMMA QuietKeeps ==
    ASSUME RedirectsInv, UNCHANGED <<kind, run, late>>, cancelled => cancelled',
           started' = started \/ started # "running"
    PROVE  RedirectsInv'
BY DEF RedirectsInv, Shape, OnlyWhenRunning, LateIsLast, EndsTogether

LEMMA GoesKeeps ==
    ASSUME RedirectsInv, NEW p \in Proxy, NEW pc \in RunState \ {"none", "ended"},
           run[p] # "none", late[p] = 0, run' = [run EXCEPT ![p] = pc],
           UNCHANGED <<kind, started, late, cancelled>>
    PROVE  RedirectsInv'
<1>1. \A q \in Proxy : run'[q] = IF q = p THEN pc ELSE run[q]
  BY DEF RedirectsInv, Shape
<1>2. Shape'
  BY DEF RedirectsInv, Shape
<1>. QED
  BY <1>1, <1>2 DEF RedirectsInv, OnlyWhenRunning, LateIsLast, EndsTogether

LEMMA EndsKeeps ==
    ASSUME RedirectsInv, NEW p \in Proxy, NEW failed \in BOOLEAN, run[p] # "none",
           Ends(p, failed), ~failed => p = "tcp" /\ kind.tcp = "dial",
           UNCHANGED <<kind, started, late>>
    PROVE  RedirectsInv'
<1>1. \A q \in Proxy : run'[q] = IF q = p THEN "ended" ELSE run[q]
  BY DEF RedirectsInv, Shape, Ends
<1>2. cancelled' = (cancelled \/ failed)
  BY DEF Ends
<1>3. Shape'
  BY DEF RedirectsInv, Shape, RunState, Ends
<1>. QED
  BY <1>1, <1>2, <1>3 DEF RedirectsInv, OnlyWhenRunning, LateIsLast, EndsTogether

(***************************************************************************)
(* The steps                                                               *)
(***************************************************************************)

\* Both proxies begin together: neither has ended, nor forwarded anything.
LEMMA BeginKeeps ==
    ASSUME RedirectsInv, Begin
    PROVE  RedirectsInv'
<1>1. \A p \in Proxy : run[p] = "none" /\ late[p] = 0
  BY DEF RedirectsInv, Begin, OnlyWhenRunning, LateIsLast
<1>2. \A p \in Proxy : run'[p] \in {"none", "accepting", "looping"}
  BY DEF Begin
<1>3. run' \in [Proxy -> RunState]
  BY DEF Begin, RunState
<1>4. Shape' /\ started' = "running" /\ UNCHANGED <<kind, late, cancelled>>
  BY <1>3 DEF RedirectsInv, Shape, Begin
<1>. QED
  BY <1>1, <1>2, <1>4 DEF RedirectsInv, OnlyWhenRunning, LateIsLast, EndsTogether

LEMMA AcceptingKeeps ==
    ASSUME RedirectsInv, Accept \/ AcceptFails \/ Store
    PROVE  RedirectsInv'
<1>1. "tcp" \in Proxy
  BY DEF Proxy
<1>2. CASE Accept
  <2>1. run.tcp = "accepting" /\ late["tcp"] = 0
    BY <1>1, <1>2 DEF Accept, RedirectsInv, LateIsLast
  <2>. QED
    BY <1>1, <1>2, <2>1, GoesKeeps DEF Accept, RunState
<1>3. CASE AcceptFails
  BY <1>1, <1>3, EndsKeeps DEF AcceptFails
<1>4. CASE Store
  <2>1. run.tcp = "accepted" /\ late["tcp"] = 0
    BY <1>1, <1>4 DEF Store, RedirectsInv, LateIsLast
  <2>. QED
    BY <1>1, <1>4, <2>1, GoesKeeps DEF Store, Goes, RunState
<1>. QED
  BY <1>2, <1>3, <1>4

LEMMA LoopKeeps ==
    ASSUME RedirectsInv, NEW p \in Proxy, Loop(p)
    PROVE  RedirectsInv'
<1>1. run[p] = "looping" /\ UNCHANGED <<kind, started, late>>
  BY DEF Loop
<1>2. Ends(p, TRUE) \/ (~cancelled /\ Goes(p, "reading"))
  BY DEF Loop
<1>3. CASE Ends(p, TRUE)
  BY <1>1, <1>3, EndsKeeps
<1>4. CASE ~cancelled /\ Goes(p, "reading")
  <2>1. late[p] = 0
    BY <1>4 DEF RedirectsInv, LateIsLast
  <2>. QED
    BY <1>1, <1>4, <2>1, GoesKeeps DEF Goes, RunState
<1>. QED
  BY <1>2, <1>3, <1>4

LEMMA ReadKeeps ==
    ASSUME RedirectsInv, NEW p \in Proxy, Read(p)
    PROVE  RedirectsInv'
<1>1. run[p] = "reading" /\ late[p] = 0 /\ UNCHANGED <<kind, started, late>>
  BY DEF Read, RedirectsInv, LateIsLast
<1>2. \/ \E pc \in {"looping", "holding"} : Goes(p, pc)
      \/ Ends(p, TRUE)
      \/ p = "tcp" /\ kind.tcp = "dial" /\ Ends(p, FALSE)
  <2>1. ReadOrClosed(p) =>
            (\E pc \in {"looping", "holding"} : Goes(p, pc)) \/ Ends(p, TRUE)
    BY DEF ReadOrClosed
  <2>2. HandleConnection(p) =>
            (\E pc \in {"looping", "holding"} : Goes(p, pc)) \/ Ends(p, TRUE)
    BY <2>1 DEF HandleConnection
  <2>3. \A failed \in BOOLEAN : Ends(p, failed) => Ends(p, TRUE) \/ Ends(p, FALSE)
    OBVIOUS
  <2>. QED
    BY <2>1, <2>2, <2>3 DEF Read, RunListenerUDP, RunDialerTCP, RunDialerUDP
<1>3. ASSUME NEW pc \in {"looping", "holding"}, Goes(p, pc) PROVE RedirectsInv'
  BY <1>1, <1>3, GoesKeeps DEF Goes, RunState
<1>4. CASE Ends(p, TRUE)
  BY <1>1, <1>4, EndsKeeps
<1>5. CASE p = "tcp" /\ kind.tcp = "dial" /\ Ends(p, FALSE)
  BY <1>1, <1>5, EndsKeeps
<1>. QED
  BY <1>2, <1>3, <1>4, <1>5

\* The one step that counts; the proxy held the message, so it is the first.
LEMMA ForwardKeeps ==
    ASSUME RedirectsInv, NEW p \in Proxy, Forward(p)
    PROVE  RedirectsInv'
<1>1. run[p] = "holding" /\ late[p] = 0 /\ UNCHANGED <<kind, started>>
  BY DEF Forward, RedirectsInv, LateIsLast
<1>2. Goes(p, "looping") \/ Ends(p, TRUE)
  BY DEF Forward, SendPacket, WriteToChannel, Sends
<1>3. PICK next \in {"looping", "ended"} : run' = [run EXCEPT ![p] = next]
  BY <1>2 DEF Goes, Ends
<1>4. (cancelled => cancelled') /\ (run'[p] = "ended" => cancelled')
  <2>1. CASE Goes(p, "looping")
    BY <2>1 DEF Goes, RedirectsInv, Shape
  <2>2. CASE Ends(p, TRUE)
    BY <2>2 DEF Ends
  <2>. QED
    BY <1>2, <2>1, <2>2
<1>5. late' = IF cancelled THEN [late EXCEPT ![p] = 1] ELSE late
  BY <1>1 DEF Forward
<1>6. Shape'
  BY <1>3, <1>5 DEF RedirectsInv, Shape, RunState
<1>7. \A q \in Proxy :
          /\ run'[q] = IF q = p THEN next ELSE run[q]
          /\ late'[q] = IF q = p /\ cancelled THEN 1 ELSE late[q]
  BY <1>3, <1>5 DEF RedirectsInv, Shape
<1>. QED
  BY <1>1, <1>3, <1>4, <1>6, <1>7
  DEF RedirectsInv, OnlyWhenRunning, LateIsLast, EndsTogether

LEMMA NextRedirectsInv == RedirectsInv /\ [RedirectsNext]_redirectsVars => RedirectsInv'
<1>. SUFFICES ASSUME RedirectsInv, [RedirectsNext]_redirectsVars PROVE RedirectsInv'
  OBVIOUS
<1>1. CASE ListenTCP \/ DialTCP \/ ListenUDP \/ DialUDP \/ StartFails
  <2>1. UNCHANGED <<kind, run, late, cancelled>> /\ started # "running"
    BY <1>1 DEF ListenTCP, DialTCP, ListenUDP, DialUDP, UDPIsNext, Opens, StartFails
  <2>. QED
    BY <2>1, QuietKeeps
<1>2. CASE StartHost \/ StartGuest \/ NewPipeRouter
  BY <1>2, BeginKeeps DEF StartHost, StartGuest, NewPipeRouter
<1>3. ASSUME NEW c \in Client, GameConnects(c) \/ HangUp(c) PROVE RedirectsInv'
  BY <1>3, QuietKeeps DEF GameConnects, HangUp
<1>4. CASE ServerHangsUp
  BY <1>4, QuietKeeps DEF ServerHangsUp
<1>5. CASE Accept \/ AcceptFails \/ Store
  BY <1>5, AcceptingKeeps
<1>6. ASSUME NEW p \in Proxy, Loop(p) \/ Read(p) \/ Forward(p) PROVE RedirectsInv'
  BY <1>6, LoopKeeps, ReadKeeps, ForwardKeeps
<1>7. CASE WatcherCloses
  BY <1>7, QuietKeeps DEF WatcherCloses
<1>8. ASSUME NEW w \in Caller, StopHostCancels(w) \/ StopHostTCP(w) \/ StopHostUDP(w)
      PROVE  RedirectsInv'
  <2>1. CASE StopHostCancels(w)
    BY <2>1, QuietKeeps DEF StopHostCancels
  <2>2. CASE StopHostTCP(w)
    BY <2>2, QuietKeeps DEF StopHostTCP
  <2>3. CASE StopHostUDP(w)
    BY <2>3, QuietKeeps DEF StopHostUDP
  <2>. QED
    BY <1>8, <2>1, <2>2, <2>3
<1>9. CASE ClosePipe \/ SessionEnds
  BY <1>9, QuietKeeps DEF ClosePipe, SessionEnds
<1>10. CASE StartProbe \/ ProbeEnds \/ ProbeHangsUp
  BY <1>10, QuietKeeps DEF StartProbe, ProbeEnds, ProbeHangsUp
<1>11. CASE UNCHANGED redirectsVars
  BY <1>11, QuietKeeps DEF redirectsVars
<1>. QED
  BY <1>1, <1>2, <1>3, <1>4, <1>5, <1>6, <1>7, <1>8, <1>9, <1>10, <1>11 DEF RedirectsNext

LEMMA RedirectsInvariance == RedirectsSpec => []RedirectsInv
BY InitRedirectsInv, NextRedirectsInv, PTL DEF RedirectsSpec

-----------------------------------------------------------------------------

\* Once the context of a pair is cancelled each proxy forwards one message at
\* most, the one it is reading then (the loops of listener_tcp.go,
\* listener_udp.go and dialer_*.go).
THEOREM LastMessage == RedirectsSpec => []AtMostOneLate
<1>1. RedirectsInv => AtMostOneLate
  BY DEF RedirectsInv, Shape, LateIsLast, AtMostOneLate
<1>. QED
  BY <1>1, RedirectsInvariance, PTL

\* No proxy of a pair ends alone, but for DialerTCP after its server has hung
\* up (host_manager.go, the errgroup).
THEOREM PairsEnd == RedirectsSpec => []EndsTogether
<1>1. RedirectsInv => EndsTogether
  BY DEF RedirectsInv
<1>. QED
  BY <1>1, RedirectsInvariance, PTL

=============================================================================
