----------------------------- MODULE Controller -----------------------------
(***************************************************************************)
(* The window of the launcher (app/ui/controller.go and the buttons of its *)
(* pages): it starts and stops a console and a backend in its own process, *)
(* and shows whether they run.  What it shows comes from a Probe           *)
(* (probe/probe.go) by way of a channel: Signal sends on it, unbuffered,   *)
(* and a goroutine of each start receives and sets a binding, whose        *)
(* listener writes the label.  Those goroutines never end.                 *)
(*                                                                         *)
(* All buttons run on the window's goroutine, one after the other.  What a *)
(* console and a backend do between start and stop is other modules'.      *)
(***************************************************************************)
EXTENDS Integers, FiniteSets

CONSTANTS MaxStarts,  \* bound: starts of each
          AllStarts   \* bound: starts altogether

ASSUME ControllerAssumption == MaxStarts \in Nat /\ AllStarts \in Nat

VARIABLES
    portTaken,  \* another program answers at the console's address
    console,    \* Controller.Console: the start it is of; 0: nil
    backend,    \* Controller.Backend
    window,     \* where the window's goroutine is
    starts,     \* how often each has been started
    server,     \* httpServer of each console
    run,        \* Multiplayer.Run of each console
    prober,     \* the goroutine of Probe.Check
    listener,   \* Backend.listener of each backend
    listens,    \* the goroutine that calls Backend.Listen
    serves,     \* the backend it calls it of
    health,     \* Probe.Health
    receiver,   \* the goroutines that receive from SignalChange
    running,    \* consoleRunning, backendRunning
    queued,     \* their listeners are to be called
    label,      \* whether the label says "Running"
    panic,
    mishaps     \* history: what the code does not prevent

consoleVars == <<console, server, run, prober>>
backendVars == <<backend, listener, listens, serves>>
shownVars == <<receiver, running, queued, label>>
vars == <<portTaken, consoleVars, backendVars, window, starts, health,
          shownVars, panic, mishaps>>

-----------------------------------------------------------------------------

Service == {"console", "backend"}
Start == 1..MaxStarts
Code == {"NotRunning", "FailingToStart", "Running", "Closing"}

\* Of whoever calls Signal: code is what it sends while at "signal", and then
\* is where it goes on.
At(place) == [at |-> place, code |-> "NotRunning", then |-> place]

Goroutine(places) == [at : places \cup {"signal"}, code : Code, then : places]

Mishap == {"gave up", "foreign", "early", "late", "overtaken", "between"}

TypeOK ==
    /\ portTaken \in BOOLEAN
    /\ console \in 0..starts["console"]
    /\ backend \in 0..starts["backend"]
    /\ window \in Goroutine({"idle", "stop probe", "stop", "drain", "listen",
                             "shut down"})
    /\ starts \in [Service -> 0..MaxStarts]
    /\ server \in [Start -> {"none", "launched", "listening", "closed"}]
    /\ run \in [Start -> {"none", "launched", "running", "told", "ended"}]
    /\ prober \in [Start -> Goroutine({"none", "starting", "running", "ended"})]
    /\ listener \in [Start -> {"none", "open", "closed"}]
    /\ listens \in [Start -> Goroutine({"none", "launched", "listening", "found", "ended"})]
    /\ serves \in [Start -> 0..MaxStarts]
    /\ health \in [Service -> Code]
    /\ receiver \in [Service -> [Start -> {"none", "idle"} \cup Code]]
    /\ \A s \in Service, g \in Start : g > starts[s] => receiver[s][g] = "none"
    /\ running \in [Service -> BOOLEAN]
    /\ queued \in [Service -> BOOLEAN]
    /\ label \in [Service -> BOOLEAN]
    /\ panic \in BOOLEAN
    /\ mishaps \subseteq Mishap

Init ==
    /\ portTaken \in BOOLEAN
    /\ console = 0 /\ backend = 0
    /\ window = At("idle")
    /\ starts = [s \in Service |-> 0]
    /\ server = [g \in Start |-> "none"]
    /\ run = [g \in Start |-> "none"]
    /\ prober = [g \in Start |-> At("none")]
    /\ listener = [g \in Start |-> "none"]
    /\ listens = [g \in Start |-> At("none")]
    /\ serves = [g \in Start |-> 0]
    /\ health = [s \in Service |-> "NotRunning"]
    /\ receiver = [s \in Service |-> [g \in Start |-> "none"]]
    /\ running = [s \in Service |-> FALSE]
    /\ queued = [s \in Service |-> FALSE]
    /\ label = [s \in Service |-> FALSE]
    /\ panic = FALSE
    /\ mishaps = {}

-----------------------------------------------------------------------------
(* Probe *)

\* Signal(code), after which the caller is at place: it waits for a receiver
\* unless that is the status already.
Signalling(s, code, place) ==
    IF health[s] = code THEN At(place)
    ELSE [at |-> "signal", code |-> code, then |-> place]

SetHealth(s, code) == health' = [health EXCEPT ![s] = code]

Mishaps(m, b) == mishaps' = IF b THEN mishaps \cup {m} ELSE mishaps

ProberSignals(g, code, place) ==
    /\ prober' = [prober EXCEPT ![g] = Signalling("console", code, place)]
    /\ SetHealth("console", code)
    /\ UNCHANGED <<portTaken, console, server, run, backendVars, starts,
                   shownVars, panic>>

Answers(g) == portTaken \/ server[g] = "listening"

\* The startup probe: retryUntil ends within ten seconds.
CheckSucceeds(g) ==
    /\ prober[g].at = "starting"
    /\ Answers(g)
    /\ ProberSignals(g, "Running", "running")
    /\ Mishaps("foreign", server[g] # "listening")
    /\ UNCHANGED window

CheckGivesUp(g) ==
    /\ prober[g].at = "starting"
    /\ ProberSignals(g, "FailingToStart", "ended")
    /\ Mishaps("gave up", TRUE)
    /\ UNCHANGED window

CheckFails(g) ==
    /\ prober[g].at = "running"
    /\ ProberSignals(g, "NotRunning", "ended")
    /\ Mishaps("gave up", TRUE)
    /\ UNCHANGED window

\* Mutation: nobody waits for the goroutine to receive from the channel.
StopStartupProbeAtOnce ==
    /\ window.at = "stop probe"
    /\ window' = At("stop")
    /\ UNCHANGED <<portTaken, consoleVars, backendVars, starts, health,
                   shownVars, panic, mishaps>>

\* The goroutine receives from cancel in its loop only, and closes it when it
\* ends: sending on it then panics.
StopStartupProbe ==
    LET g == starts["console"] IN
    /\ window.at = "stop probe"
    /\ \/ /\ prober[g].at = "running"
          /\ ProberSignals(g, "Closing", "ended")
          /\ window' = At("stop")
          /\ UNCHANGED mishaps
       \/ /\ prober[g].at = "ended"
          /\ panic' = TRUE
          /\ UNCHANGED <<portTaken, consoleVars, backendVars, window, starts,
                         health, shownVars, mishaps>>

-----------------------------------------------------------------------------
(* The console *)

CanStart(s) ==
    /\ window = At("idle")
    /\ starts[s] < MaxStarts
    /\ starts["console"] + starts["backend"] < AllStarts

Launch(s) ==
    LET g == starts[s] + 1 IN
    /\ starts' = [starts EXCEPT ![s] = g]
    /\ receiver' = [receiver EXCEPT ![s][g] = "idle"]
    /\ UNCHANGED <<portTaken, running, queued, label, panic>>

StartConsole ==
    LET g == starts["console"] + 1 IN
    /\ CanStart("console")
    /\ console = 0
    /\ Launch("console")
    /\ console' = g
    /\ server' = [server EXCEPT ![g] = "launched"]
    /\ prober' = [prober EXCEPT ![g] = At("starting")]
    /\ UNCHANGED <<run, backendVars, window, health, mishaps>>

ConsoleStep == UNCHANGED <<portTaken, backendVars, starts, health, shownVars>>

\* Handlers' start: Run and the server.  ListenAndServe returns an error when
\* the port is taken, and when Shutdown came first.
Serve(g) ==
    /\ server[g] = "launched"
    /\ run[g] = "none"
    /\ run' = [run EXCEPT ![g] = "launched"]
    /\ UNCHANGED <<console, server, prober, window, panic, mishaps>> /\ ConsoleStep

ListenAndServe(g) ==
    /\ server[g] = "launched"
    /\ run[g] # "none"
    /\ server' = [server EXCEPT ![g] = IF portTaken THEN "closed" ELSE "listening"]
    /\ UNCHANGED <<console, run, prober, window, panic, mishaps>> /\ ConsoleStep

Run(g) ==
    /\ run[g] = "launched"
    /\ run' = [run EXCEPT ![g] = "running"]
    /\ UNCHANGED <<console, server, prober, window, panic, mishaps>> /\ ConsoleStep

\* Reset.  Its context ends with start's, too.
RunEnds(g) ==
    /\ \/ run[g] = "told"
       \/ run[g] = "running" /\ server[g] = "closed"
    /\ run' = [run EXCEPT ![g] = "ended"]
    /\ UNCHANGED <<console, server, prober, window, panic, mishaps>> /\ ConsoleStep

StopConsole ==
    /\ window = At("idle")
    /\ console # 0
    /\ window' = At("stop probe")
    /\ UNCHANGED <<portTaken, consoleVars, backendVars, starts, health,
                   shownVars, panic, mishaps>>

\* Handlers' shutdown.  Multiplayer.Stop calls what Run has set.
ConsoleStop ==
    /\ window.at = "stop"
    /\ IF run[console] \in {"none", "launched"}
       THEN panic' = TRUE /\ Mishaps("early", TRUE) /\ UNCHANGED <<run, window>>
       ELSE /\ run' = [run EXCEPT ![console] = IF @ = "running" THEN "told" ELSE @]
            /\ window' = At("drain")
            /\ UNCHANGED <<panic, mishaps>>
    /\ UNCHANGED <<console, server, prober>> /\ ConsoleStep

\* Mutation: the console that was stopped is kept.
ConsoleStoppedKept ==
    /\ window.at = "drain"
    /\ server' = [server EXCEPT ![console] = "closed"]
    /\ window' = At("idle")
    /\ UNCHANGED <<console, run, prober, panic, mishaps>> /\ ConsoleStep

\* httpServer.Shutdown has waited for the requests; db.Close, Console, cancel.
ConsoleStopped ==
    /\ window.at = "drain"
    /\ server' = [server EXCEPT ![console] = "closed"]
    /\ console' = 0
    /\ window' = At("idle")
    /\ UNCHANGED <<run, prober, panic, mishaps>> /\ ConsoleStep

-----------------------------------------------------------------------------
(* The backend *)

BackendStep == UNCHANGED <<portTaken, consoleVars>>

\* The window's goroutine calls Signal; only the backend's probe gets one there.
WindowSignals(code, place) ==
    /\ window' = Signalling("backend", code, place)
    /\ SetHealth("backend", code)

\* Backend.Start, which fails when the game's port is taken.
BackendStart(g) ==
    \/ UNCHANGED <<listener, window, health>>
    \/ /\ listener' = [listener EXCEPT ![g] = "open"]
       /\ WindowSignals("Running", "listen")

\* When Start fails, the backend is kept all the same.
StartBackend ==
    LET g == starts["backend"] + 1 IN
    /\ CanStart("backend")
    /\ backend = 0
    /\ Launch("backend")
    /\ backend' = g
    /\ BackendStart(g)
    /\ UNCHANGED <<consoleVars, listens, serves, mishaps>>

StartListening ==
    /\ window.at = "listen"
    /\ window' = At("idle")
    /\ listens' = [listens EXCEPT ![backend] = At("launched")]
    /\ UNCHANGED <<backend, listener, serves, starts, health, shownVars, panic, mishaps>>
    /\ BackendStep

\* The goroutine reads Controller.Backend when it gets to run.
Listen(g) ==
    /\ listens[g].at = "launched"
    /\ IF backend = 0
       THEN panic' = TRUE /\ UNCHANGED <<listens, serves>>
       ELSE /\ listens' = [listens EXCEPT ![g] = At("listening")]
            /\ serves' = [serves EXCEPT ![g] = backend]
            /\ UNCHANGED panic
    /\ Mishaps("early", backend # g)
    /\ UNCHANGED <<backend, listener, window, starts, health, shownVars>>
    /\ BackendStep

\* Listen asks, at each turn, whether there is a listener, and then reads the
\* field again to call Accept.
FindListener(g) ==
    /\ listens[g].at = "listening"
    /\ listener[serves[g]] = "open"
    /\ listens' = [listens EXCEPT ![g] = At("found")]
    /\ UNCHANGED <<backend, listener, serves, window, starts, health, shownVars,
                   panic, mishaps>>
    /\ BackendStep

\* Accept waits for a client, who starts another turn, unless Shutdown has made
\* the field nil.
Accept(g) ==
    /\ listens[g].at = "found"
    /\ IF listener[serves[g]] = "open"
       THEN listens' = [listens EXCEPT ![g] = At("listening")] /\ UNCHANGED panic
       ELSE panic' = TRUE /\ UNCHANGED listens
    /\ UNCHANGED <<backend, listener, serves, window, starts, health, shownVars, mishaps>>
    /\ BackendStep

\* Listen returns when the listener is closed, and when there is none.
ListenReturns(g) ==
    /\ listens[g].at = "listening"
    /\ listener[serves[g]] # "open"
    /\ listens' = [listens EXCEPT ![g] = Signalling("backend", "NotRunning", "ended")]
    /\ SetHealth("backend", "NotRunning")
    /\ Mishaps("late", starts["backend"] # g)
    /\ UNCHANGED <<backend, listener, serves, window, starts, shownVars, panic>>
    /\ BackendStep

StopBackend ==
    /\ window = At("idle")
    /\ backend # 0
    /\ WindowSignals("Closing", "shut down")
    /\ UNCHANGED <<backend, listener, listens, serves, starts, shownVars, panic, mishaps>>
    /\ BackendStep

\* Mutation: the listener is left open.
ShutdownForgets ==
    /\ window.at = "shut down"
    /\ backend' = 0
    /\ WindowSignals("NotRunning", "idle")
    /\ UNCHANGED <<listener, listens, serves, starts, shownVars, panic, mishaps>>
    /\ BackendStep

Shutdown ==
    /\ window.at = "shut down"
    /\ listener' = [listener EXCEPT ![backend] = IF @ = "open" THEN "closed" ELSE @]
    /\ backend' = 0
    /\ WindowSignals("NotRunning", "idle")
    /\ Mishaps("between", \E g \in Start : listens[g].at = "found" /\ serves[g] = backend)
    /\ UNCHANGED <<listens, serves, starts, shownVars, panic>>
    /\ BackendStep

-----------------------------------------------------------------------------
(* The labels *)

Sent(sender) == IF sender.at = "signal" THEN {sender.code} ELSE {}

\* Mutation: a receiver ends with the context of its start.
ReceivesWhileUp(s, g) ==
    IF s = "console" THEN server[g] # "closed" ELSE listener[g] = "open"

\* Whether the goroutine of the g-th start still receives: it does not return
\* when its context is cancelled.
Receives(s, g) == receiver[s][g] = "idle"

Senders(s) ==
    IF s = "console" THEN {h \in Start : prober[h].at = "signal"}
    ELSE {h \in Start : listens[h].at = "signal"}
            \cup {h \in {0} : window.at = "signal"}

\* A code goes from a caller of Signal to a receiver, and the codes of several
\* callers, or those that several receivers hold, in any order.
Receive(s, g, code) ==
    /\ Receives(s, g)
    /\ receiver' = [receiver EXCEPT ![s][g] = code]
    /\ Mishaps("overtaken", \/ Cardinality(Senders(s)) > 1
                            \/ \E h \in Start : receiver[s][h] \in Code)
    /\ UNCHANGED <<portTaken, console, server, run, backend, listener, serves, starts,
                   health, running, queued, label, panic>>

Passed(sender) == At(sender.then)

SignalChange(s, g) ==
    \/ /\ s = "console"
       /\ \E h \in Start : \E code \in Sent(prober[h]) :
             /\ Receive(s, g, code)
             /\ prober' = [prober EXCEPT ![h] = Passed(@)]
       /\ UNCHANGED <<window, listens>>
    \/ /\ s = "backend"
       /\ \E code \in Sent(window) : Receive(s, g, code)
       /\ window' = Passed(window)
       /\ UNCHANGED <<prober, listens>>
    \/ /\ s = "backend"
       /\ \E h \in Start : \E code \in Sent(listens[h]) :
             /\ Receive(s, g, code)
             /\ listens' = [listens EXCEPT ![h] = Passed(@)]
       /\ UNCHANGED <<prober, window>>

\* A binding calls its listener, on the window's goroutine, when it changes.
SetRunning(s, g) ==
    LET is == receiver[s][g] = "Running" IN
    /\ receiver[s][g] \in Code
    /\ receiver' = [receiver EXCEPT ![s][g] = "idle"]
    /\ running' = [running EXCEPT ![s] = is]
    /\ queued' = [queued EXCEPT ![s] = @ \/ running[s] # is]
    /\ UNCHANGED <<portTaken, consoleVars, backendVars, window, starts, health,
                   label, panic, mishaps>>

\* The listener asks the probe.
Shows(s) == health[s] = "Running"

ShowStatus(s) ==
    /\ window = At("idle")
    /\ queued[s]
    /\ queued' = [queued EXCEPT ![s] = FALSE]
    /\ label' = [label EXCEPT ![s] = Shows(s)]
    /\ UNCHANGED <<portTaken, consoleVars, backendVars, window, starts, health,
                   receiver, running, panic, mishaps>>

-----------------------------------------------------------------------------

WindowGoesOn == StopStartupProbe \/ ConsoleStop \/ ConsoleStopped
                    \/ StartListening \/ Shutdown

Next ==
    /\ ~panic
    /\ \/ StartConsole \/ StopConsole \/ StartBackend \/ StopBackend
       \/ StopStartupProbe \/ ConsoleStop \/ ConsoleStopped
       \/ StartListening \/ Shutdown
       \/ \E g \in Start :
             \/ Serve(g) \/ ListenAndServe(g) \/ Run(g) \/ RunEnds(g)
             \/ CheckSucceeds(g) \/ CheckGivesUp(g) \/ CheckFails(g)
             \/ Listen(g) \/ FindListener(g) \/ Accept(g) \/ ListenReturns(g)
             \/ \E s \in Service : SignalChange(s, g) \/ SetRunning(s, g)
       \/ \E s \in Service : ShowStatus(s)

\* Goroutines that can go on do, and the startup probe ends.  Nobody has to
\* press a button, and a console need not fail.
Fairness ==
    /\ WF_vars(~panic /\ WindowGoesOn)
    /\ \A g \in Start :
          /\ WF_vars(~panic /\ (CheckSucceeds(g) \/ CheckGivesUp(g)))
          /\ WF_vars(~panic /\ (Serve(g) \/ ListenAndServe(g)))
          /\ WF_vars(~panic /\ Run(g)) /\ WF_vars(~panic /\ RunEnds(g))
          /\ WF_vars(~panic /\ Listen(g)) /\ WF_vars(~panic /\ ListenReturns(g))
          /\ WF_vars(~panic /\ Accept(g))
    /\ \A s \in Service :
          /\ WF_vars(~panic /\ \E g \in Start : SignalChange(s, g))
          /\ \A g \in Start : WF_vars(~panic /\ SetRunning(s, g))
          /\ WF_vars(~panic /\ ShowStatus(s))

Spec == Init /\ [][Next]_vars /\ Fairness

-----------------------------------------------------------------------------
(* Properties *)

\* One goroutine at most probes the console, and it is the one of the console
\* there is: stopping has waited for it (controller.go consoleStop, probe.go
\* StopStartupProbe).
OneProber ==
    \A g \in Start : prober[g].at \in {"starting", "running"} => g = console

\* The program panics only when the console has not answered a health check, a
\* stop came before the goroutines of its start had run, or a backend was shut
\* down between the two reads of its listener (probe.go StopStartupProbe,
\* controller.go StartBackend, backend.go Listen).
OnlyMishapsPanic == panic => mishaps \cap {"gave up", "early", "between"} # {}

\* A button that was pressed lets go of the window, although it may have to
\* wait for a startup probe, for a receiver of each signal, and for requests;
\* unless the program panics (probe.go Signal and StopStartupProbe).
ButtonsReturn == window # At("idle") ~> window = At("idle") \/ panic

Settled(s) ==
    /\ window = At("idle") /\ ~queued[s]
    /\ \A g \in Start :
          /\ receiver[s][g] \in {"none", "idle"}
          /\ prober[g].at \notin {"starting", "signal"}
          /\ listens[g].at \in {"none", "listening", "found", "ended"}
          /\ listens[g].at \in {"listening", "found"} => listener[serves[g]] = "open"

Up(s) == IF s = "console" THEN \E g \in Start : server[g] = "listening"
         ELSE \E g \in Start : listener[g] = "open"

\* Once nothing is on its way a label says "Running" exactly when a server
\* listens, unless signals of two starts have met (controller.go StartConsole,
\* StartBackend).
LabelsAgree ==
    \A s \in Service : mishaps = {} /\ ~panic /\ Settled(s) => (label[s] <=> Up(s))

=============================================================================
