------------------------------ MODULE Redirects ------------------------------
(***************************************************************************)
(* What stands behind the address of one other player (backend/redirect,   *)
(* PipeRouter of backend/proxy/p2p/peer.go): a TCP and a UDP proxy, each   *)
(* with a goroutine that reads what the local game sends and forwards it,  *)
(* under one context.  They belong to a FakeHost, which HostManager        *)
(* starts and StopHost stops, or to a PipeRouter.                          *)
(*                                                                         *)
(* ListenerTCP accepts one connection, the first, and serves it until it   *)
(* ends.  Its clients are the game, which may dial again, and the probe    *)
(* that Relay.Join starts for the host of a game.                          *)
(*                                                                         *)
(* What is forwarded, and Write, which forwards the other way, change no   *)
(* state.                                                                  *)
(***************************************************************************)
EXTENDS Sequences, FiniteSets, SequencesExt

CONSTANTS
    Client,     \* the connections that ListenerTCP may be asked for
    ProbeConn,  \* the one that StartProbeTCP makes
    Nobody      \* no connection

VARIABLES
    kind,       \* never changes
    started,    \* how far StartHost, StartGuest or createDataChannels is
    socket,     \* of each proxy: gone when the other side has hung up
    conn,       \* ListenerTCP: its clients' connections
    backlog,    \* those it has not accepted
    accepted,   \* the one it has
    stored,     \* ListenerTCP.conn
    run,        \* where each proxy's Run is
    watcher,    \* the goroutine of ListenerTCP.Run that waits for the context
    cancelled,  \* the context of the two proxies
    over,       \* the session's context has ended
    stop,       \* StopHost, called by the owner or by the probe
    probe,      \* the goroutine of StartProbeTCP
    late        \* history: how often each proxy forwarded after cancelled

listenVars == <<conn, backlog, accepted, stored>>
redirectsVars ==
    <<kind, started, socket, listenVars, run, watcher, cancelled, over, stop, probe, late>>

ASSUME RedirectsAssumption == ProbeConn \in Client /\ Nobody \notin Client

-----------------------------------------------------------------------------

Proxy == {"tcp", "udp"}
Caller == {"owner", "probe"}

Redirected(owner, tcp, udp) == [owner |-> owner, tcp |-> tcp, udp |-> udp]

\* Relay.Join and the migration to another host; Join, for who is no host;
\* dynamicJoin and the migration to oneself; dynamicJoin in another's game.
FakeHosts ==
    {Redirected("FakeHost", "listen", "listen"),
     Redirected("FakeHost", "none", "listen"),
     Redirected("FakeHost", "dial", "dial"),
     Redirected("FakeHost", "none", "dial")}

\* NewTCPRedirect and NewUDPRedirect for OtherUserIsHost and for
\* OtherUserHasJoined; NewPeer gives no other mode to a peer with a channel.
Pipes ==
    {Redirected("PipeRouter", "listen", "listen"),
     Redirected("PipeRouter", "listen udp", "listen")}

Kinds == FakeHosts \cup Pipes

Held == {"open", "gone"}

RedirectsTypeOK ==
    /\ kind \in Kinds
    /\ started \in {"tcp", "udp", "made", "running", "failed"}
    /\ socket \in [Proxy -> {"none", "closed"} \cup Held]
    /\ kind.tcp = "none" => socket.tcp = "none"
    /\ conn \in [Client -> {"none", "queued", "closed"} \cup Held]
    /\ backlog \in Seq(Client)
    /\ accepted \in Client \cup {Nobody}
    /\ stored \in {Nobody, accepted}
    /\ run \in [Proxy -> {"none", "accepting", "accepted", "looping", "reading",
                          "holding", "ended"}]
    /\ watcher \in {"none", "waiting", "done"}
    /\ cancelled \in BOOLEAN
    /\ over \in BOOLEAN
    /\ stop \in [Caller -> {"no", "cancelled", "tcp closed", "done"}]
    /\ probe \in {"none", "watching", "ended"}
    /\ late \in [Proxy -> 0..2]

RedirectsInit ==
    /\ kind \in Kinds
    /\ started = "tcp"
    /\ socket = [p \in Proxy |-> "none"]
    /\ conn = [c \in Client |-> "none"]
    /\ backlog = <<>>
    /\ accepted = Nobody
    /\ stored = Nobody
    /\ run = [p \in Proxy |-> "none"]
    /\ watcher = "none"
    /\ cancelled = FALSE
    /\ over = FALSE
    /\ stop = [w \in Caller |-> "no"]
    /\ probe = "none"
    /\ late = [p \in Proxy |-> 0]

-----------------------------------------------------------------------------
(* StartHost, StartGuest, createDataChannels *)

Opens(p, next) ==
    /\ started' = next
    /\ socket' = [socket EXCEPT ![p] = "open"]
    /\ UNCHANGED <<kind, listenVars, run, watcher, cancelled, over, stop, probe, late>>

ListenTCP == started = "tcp" /\ kind.tcp \in {"listen", "listen udp"} /\ Opens("tcp", "udp")
DialTCP == started = "tcp" /\ kind.tcp = "dial" /\ Opens("tcp", "udp")

UDPIsNext == started = "udp" \/ (started = "tcp" /\ kind.tcp = "none")

\* The TCP redirect to a guest of a pipe is a UDP listener too, on the same
\* default port, so that the second cannot be had.
ListenUDP ==
    /\ UDPIsNext
    /\ kind.udp = "listen"
    /\ kind.tcp # "listen udp"
    /\ Opens("udp", "made")

DialUDP ==
    /\ UDPIsNext
    /\ kind.udp = "dial"
    /\ Opens("udp", "made")

\* An address or a port is taken, there is no game server, no data channel can
\* be made: what has been opened by then stays open.
StartFails ==
    /\ started = "made" => kind.owner = "PipeRouter"
    /\ started \in {"tcp", "udp", "made"}
    /\ started' = "failed"
    /\ UNCHANGED <<kind, socket, listenVars, run, watcher, cancelled, over, stop,
                   probe, late>>

Serves(p) == p = "tcp" /\ kind.tcp = "listen"

Begin ==
    /\ started = "made"
    /\ started' = "running"
    /\ run' = [p \in Proxy |->
                  IF kind[p] = "none" THEN "none"
                  ELSE IF Serves(p) THEN "accepting" ELSE "looping"]
    /\ watcher' = IF kind.tcp = "listen" THEN "waiting" ELSE "none"
    /\ UNCHANGED <<kind, socket, listenVars, cancelled, over, stop, probe, late>>

StartHost == kind.owner = "FakeHost" /\ kind.udp = "listen" /\ Begin
StartGuest == kind.owner = "FakeHost" /\ kind.udp = "dial" /\ Begin
NewPipeRouter == kind.owner = "PipeRouter" /\ Begin

-----------------------------------------------------------------------------
(* The game, and the game server *)

Connect(c) ==
    /\ socket.tcp = "open"
    /\ kind.tcp = "listen"
    /\ conn[c] = "none"
    /\ conn' = [conn EXCEPT ![c] = "queued"]
    /\ backlog' = Append(backlog, c)
    /\ UNCHANGED <<accepted, stored>>

GameConnects(c) ==
    /\ c # ProbeConn
    /\ Connect(c)
    /\ UNCHANGED <<kind, started, socket, run, watcher, cancelled, over, stop,
                   probe, late>>

HangUp(c) ==
    /\ c # ProbeConn
    /\ conn[c] \in {"queued", "open"}
    /\ conn' = [conn EXCEPT ![c] = "gone"]
    /\ UNCHANGED <<kind, started, socket, backlog, accepted, stored, run, watcher,
                   cancelled, over, stop, probe, late>>

ServerHangsUp ==
    /\ kind.tcp = "dial"
    /\ socket.tcp = "open"
    /\ socket' = [socket EXCEPT !.tcp = "gone"]
    /\ UNCHANGED <<kind, started, listenVars, run, watcher, cancelled, over, stop,
                   probe, late>>

-----------------------------------------------------------------------------
(* Run *)

Goes(p, pc) ==
    /\ run' = [run EXCEPT ![p] = pc]
    /\ UNCHANGED <<socket, conn, cancelled>>

\* The connection that Run reads from.
Reads(p) == IF Serves(p) THEN conn[accepted] ELSE socket[p]

\* Mutation: ListenerTCP takes the end of its connection for a success.
EndsQuietly(p, failed) ==
    /\ run' = [run EXCEPT ![p] = "ended"]
    /\ IF Serves(p)
       THEN /\ conn' = [c \in Client |-> IF c = accepted THEN "closed" ELSE conn[c]]
            /\ UNCHANGED <<socket, cancelled>>
       ELSE /\ socket' = [socket EXCEPT ![p] = "closed"]
            /\ cancelled' = (cancelled \/ failed)
            /\ UNCHANGED conn

\* The deferred Close, and what errgroup does with an error.
Ends(p, failed) ==
    /\ run' = [run EXCEPT ![p] = "ended"]
    /\ IF Serves(p)
       THEN /\ conn' = [c \in Client |-> IF c = accepted THEN "closed" ELSE conn[c]]
            /\ UNCHANGED socket
       ELSE /\ socket' = [socket EXCEPT ![p] = "closed"]
            /\ UNCHANGED conn
    /\ cancelled' = (cancelled \/ failed)

Accept ==
    /\ run.tcp = "accepting"
    /\ socket.tcp = "open"
    /\ backlog # <<>>
    /\ run' = [run EXCEPT !.tcp = "accepted"]
    /\ accepted' = Head(backlog)
    /\ backlog' = Tail(backlog)
    /\ conn' = [conn EXCEPT ![Head(backlog)] = IF @ = "queued" THEN "open" ELSE @]
    /\ UNCHANGED <<kind, started, socket, stored, watcher, cancelled, over, stop,
                   probe, late>>

AcceptFails ==
    /\ run.tcp = "accepting"
    /\ socket.tcp = "closed"
    /\ Ends("tcp", TRUE)
    /\ UNCHANGED <<kind, started, backlog, accepted, stored, watcher, over, stop,
                   probe, late>>

Store ==
    /\ run.tcp = "accepted"
    /\ stored' = accepted
    /\ Goes("tcp", "looping")
    /\ UNCHANGED <<kind, started, backlog, accepted, watcher, over, stop, probe, late>>

\* Mutation: only a connection that has been closed ends the loop.
LoopHeedless(p) ==
    /\ run[p] = "looping"
    /\ Goes(p, "reading")
    /\ UNCHANGED <<kind, started, backlog, accepted, stored, watcher, over, stop,
                   probe, late>>

\* The select at the top of the loop; only ListenerUDP has a closing channel.
Loop(p) ==
    LET closing == p = "udp" /\ kind.udp = "listen" /\ socket.udp = "closed" IN
    /\ run[p] = "looping"
    /\ IF cancelled \/ closing THEN Ends(p, TRUE) ELSE Goes(p, "reading")
    /\ UNCHANGED <<kind, started, backlog, accepted, stored, watcher, over, stop,
                   probe, late>>

\* Of any proxy: data, the deadline, or Close.
ReadOrClosed(p) ==
    \/ Reads(p) = "open" /\ Goes(p, "holding")
    \/ Reads(p) = "open" /\ Goes(p, "looping")
    \/ Reads(p) = "closed" /\ Ends(p, TRUE)

\* The probe never sends anything.
HandleConnection(p) ==
    /\ Serves(p)
    /\ \/ accepted # ProbeConn /\ ReadOrClosed(p)
       \/ accepted = ProbeConn /\ conn[ProbeConn] = "open" /\ Goes(p, "looping")
       \/ accepted = ProbeConn /\ conn[ProbeConn] = "closed" /\ Ends(p, TRUE)
       \/ conn[accepted] = "gone" /\ Ends(p, TRUE)

RunListenerUDP(p) == p = "udp" /\ kind.udp = "listen" /\ ReadOrClosed(p)

\* io.EOF is no error here.
RunDialerTCP(p) ==
    /\ p = "tcp" /\ kind.tcp = "dial"
    /\ \/ ReadOrClosed(p)
       \/ socket.tcp = "gone" /\ \E failed \in BOOLEAN : Ends(p, failed)

\* A datagram sent before may have been refused.
RunDialerUDP(p) ==
    /\ p = "udp" /\ kind.udp = "dial"
    /\ \/ ReadOrClosed(p)
       \/ socket.udp = "open" /\ Ends(p, TRUE)

Read(p) ==
    /\ run[p] = "reading"
    /\ HandleConnection(p) \/ RunListenerUDP(p) \/ RunDialerTCP(p) \/ RunDialerUDP(p)
    /\ UNCHANGED <<kind, started, backlog, accepted, stored, watcher, over, stop,
                   probe, late>>

Sends(p) == Goes(p, "looping") \/ Ends(p, TRUE)

SendPacket(p) == kind.owner = "FakeHost" /\ Sends(p)
WriteToChannel(p) == kind.owner = "PipeRouter" /\ Sends(p)

\* onReceive
Forward(p) ==
    /\ run[p] = "holding"
    /\ SendPacket(p) \/ WriteToChannel(p)
    /\ late' = IF cancelled /\ late[p] < 2 THEN [late EXCEPT ![p] = @ + 1] ELSE late
    /\ UNCHANGED <<kind, started, backlog, accepted, stored, watcher, over, stop, probe>>

-----------------------------------------------------------------------------
(* Close and StopHost *)

\* Mutation: a listener that serves somebody is left open.
CloseListenerOrConn ==
    IF socket.tcp = "closed" THEN UNCHANGED <<socket, conn, backlog>>
    ELSE IF stored # Nobody
    THEN conn' = [conn EXCEPT ![stored] = "closed"] /\ UNCHANGED <<socket, backlog>>
    ELSE /\ socket' = [socket EXCEPT !.tcp = "closed"]
         /\ conn' = [c \in Client |-> IF c \in ToSet(backlog) THEN "closed" ELSE conn[c]]
         /\ backlog' = <<>>

\* ListenerTCP.Close: a connection that is accepted and not yet stored is not
\* closed here.
CloseListener ==
    IF socket.tcp = "closed" THEN UNCHANGED <<socket, conn, backlog>>
    ELSE /\ socket' = [socket EXCEPT !.tcp = "closed"]
         /\ conn' = [c \in Client |->
                        IF c = stored \/ c \in ToSet(backlog) THEN "closed" ELSE conn[c]]
         /\ backlog' = <<>>

\* Of a FakeHost's ProxyTCP, if it has one.
CloseTCP ==
    IF kind.tcp = "listen" THEN CloseListener
    ELSE /\ socket' = [socket EXCEPT !.tcp = IF @ = "none" THEN @ ELSE "closed"]
         /\ UNCHANGED <<conn, backlog>>

\* Mutation: only a listener that serves somebody is closed.
WatcherClosesServing ==
    /\ watcher = "waiting"
    /\ cancelled
    /\ watcher' = "done"
    /\ IF stored = Nobody THEN UNCHANGED <<socket, conn, backlog>> ELSE CloseListener
    /\ UNCHANGED <<kind, started, accepted, stored, run, cancelled, over, stop,
                   probe, late>>

WatcherCloses ==
    /\ watcher = "waiting"
    /\ cancelled
    /\ watcher' = "done"
    /\ CloseListener
    /\ UNCHANGED <<kind, started, accepted, stored, run, cancelled, over, stop,
                   probe, late>>

\* StopHost begins: stopFunc.
StopHostCancels(w) ==
    /\ stop[w] = "no"
    /\ started = "running" /\ kind.owner = "FakeHost"
    /\ w = "probe" => probe = "ended"
    /\ stop' = [stop EXCEPT ![w] = "cancelled"]
    /\ cancelled' = TRUE
    /\ UNCHANGED <<kind, started, socket, listenVars, run, watcher, over, probe, late>>

StopHostTCP(w) ==
    /\ stop[w] = "cancelled"
    /\ stop' = [stop EXCEPT ![w] = "tcp closed"]
    /\ CloseTCP
    /\ UNCHANGED <<kind, started, accepted, stored, run, watcher, cancelled, over,
                   probe, late>>

CloseUDP == socket' = [socket EXCEPT !.udp = "closed"]

StopHostUDP(w) ==
    /\ stop[w] = "tcp closed"
    /\ stop' = [stop EXCEPT ![w] = "done"]
    /\ CloseUDP
    /\ UNCHANGED <<kind, started, listenVars, run, watcher, cancelled, over, probe, late>>

\* PipeRouter.Close: Terminate, or the data channel has closed.
ClosePipe ==
    /\ started = "running" /\ kind.owner = "PipeRouter"
    /\ cancelled' = TRUE
    /\ UNCHANGED <<kind, started, socket, listenVars, run, watcher, over, stop,
                   probe, late>>

\* StartGuest alone does not use the session's context.
SessionEnds ==
    /\ started = "running"
    /\ over' = TRUE
    /\ cancelled' = (cancelled \/ kind.udp = "listen")
    /\ UNCHANGED <<kind, started, socket, listenVars, run, watcher, stop, probe, late>>

-----------------------------------------------------------------------------
(* StartProbeTCP *)

StartProbe ==
    /\ started = "running" /\ kind.owner = "FakeHost"
    /\ Connect(ProbeConn)
    /\ probe' = "watching"
    /\ UNCHANGED <<kind, started, socket, run, watcher, cancelled, over, stop, late>>

\* onDisconnect, which is to stop the host, is called whatever has ended it.
ProbeEnds ==
    /\ probe = "watching"
    /\ conn[ProbeConn] = "closed" \/ over
    /\ probe' = "ended"
    /\ UNCHANGED <<kind, started, socket, listenVars, run, watcher, cancelled, over,
                   stop, late>>

ProbeHangsUp ==
    /\ stop["probe"] = "done"
    /\ conn[ProbeConn] = "open"
    /\ conn' = [conn EXCEPT ![ProbeConn] = "gone"]
    /\ UNCHANGED <<kind, started, socket, backlog, accepted, stored, run, watcher,
                   cancelled, over, stop, probe, late>>

-----------------------------------------------------------------------------

RedirectsNext ==
    \/ ListenTCP \/ DialTCP \/ ListenUDP \/ DialUDP \/ StartFails
    \/ StartHost \/ StartGuest \/ NewPipeRouter
    \/ \E c \in Client : GameConnects(c) \/ HangUp(c)
    \/ ServerHangsUp
    \/ Accept \/ AcceptFails \/ Store
    \/ \E p \in Proxy : Loop(p) \/ Read(p) \/ Forward(p)
    \/ WatcherCloses
    \/ \E w \in Caller : StopHostCancels(w) \/ StopHostTCP(w) \/ StopHostUDP(w)
    \/ ClosePipe \/ SessionEnds
    \/ StartProbe \/ ProbeEnds \/ ProbeHangsUp

\* Goroutines that can go on do; a read ends at its deadline.  Nobody has to
\* connect, hang up, start or stop anything.
Fairness ==
    /\ WF_redirectsVars(Accept) /\ WF_redirectsVars(AcceptFails) /\ WF_redirectsVars(Store)
    /\ \A p \in Proxy : /\ WF_redirectsVars(Loop(p)) /\ WF_redirectsVars(Read(p))
                         /\ WF_redirectsVars(Forward(p))
    /\ WF_redirectsVars(WatcherCloses)
    /\ \A w \in Caller : WF_redirectsVars(StopHostTCP(w)) /\ WF_redirectsVars(StopHostUDP(w))
    /\ WF_redirectsVars(ProbeEnds) /\ WF_redirectsVars(StopHostCancels("probe"))
    /\ WF_redirectsVars(ProbeHangsUp)

RedirectsSpec == RedirectsInit /\ [][RedirectsNext]_redirectsVars /\ Fairness

-----------------------------------------------------------------------------
(* Properties *)

\* When one proxy of a pair ends, the other's context is cancelled, except
\* when it was DialerTCP whose server hung up (host_manager.go, the errgroup).
EndsTogether ==
    \A p \in Proxy : run[p] = "ended" /\ ~cancelled => p = "tcp" /\ kind.tcp = "dial"

\* Once the context is cancelled a proxy forwards at most what it is reading
\* at that moment (the loops of listener_tcp.go, listener_udp.go, dialer_*.go).
AtMostOneLate == \A p \in Proxy : late[p] <= 1

Quiet ==
    /\ \A p \in Proxy : run[p] \in {"none", "ended"} /\ socket[p] \notin Held
    /\ accepted # Nobody => conn[accepted] = "closed"
    /\ watcher # "waiting"
    /\ probe # "watching"

\* Stopping ends everything, the probe included, although a connection may be
\* accepted while Close runs, and Close be called by three goroutines
\* (host_manager.go StopHost, listener_tcp.go Close and Run).
StopEnds ==
    /\ cancelled \/ stop["owner"] # "no" ~> Quiet
    /\ probe = "ended" ~> Quiet

\* A client of ListenerTCP waits only while another is being served: for as
\* long as the probe is, if the probe was first (listener_tcp.go Run).  But
\* when the start has failed nobody is served, and it waits for ever.
WaitsForAnother ==
    \A c \in Client :
        conn[c] = "queued" /\ started = "running"
            ~> \/ conn[c] # "queued"
               \/ \E d \in Client \ {c} : d = accepted /\ conn[d] \in Held

=============================================================================
