-------------------------- MODULE ControllerProofs --------------------------
(***************************************************************************)
(* Proofs about Controller, for any number of starts.                      *)
(***************************************************************************)
EXTENDS Controller, FiniteSetTheorems, TLAPS

(***************************************************************************)
(* The inductive invariant                                                 *)
(***************************************************************************)

\* Where the goroutine of Check goes on once its signal has been received.
Place(g) == IF prober[g].at = "signal" THEN prober[g].then ELSE prober[g].at

\* It has yet to receive from cancel.
Active(g) == Place(g) \in {"starting", "running"}

\* It has closed cancel, or is about to.
Ends(g) == Place(g) = "ended"

\* The console there is was started last: StopStartupProbe sends to its prober.
ConsoleIsLatest == console \in {0, starts["console"]}

\* Only the buttons of the backend send a signal from the window's goroutine.
WindowSignalsBackend ==
    window.at = "signal" => window.then \in {"idle", "listen", "shut down"}

StoppingConsole ==
    window.at \in {"stop probe", "stop", "drain"} => console # 0

\* Once StopStartupProbe has returned no prober is active.
ActiveIsConsole ==
    \A g \in Start : Active(g) => g = console /\ window.at \notin {"stop", "drain"}

\* A prober ends before it is stopped only by giving up.
EndedGaveUp ==
    console # 0 /\ window.at \notin {"stop", "drain"} /\ Ends(console)
        => "gave up" \in mishaps

Inv ==
    /\ ConsoleIsLatest
    /\ WindowSignalsBackend
    /\ StoppingConsole
    /\ ActiveIsConsole
    /\ EndedGaveUp
    /\ OnlyMishapsPanic

\* A listener that Listen has found, and that is gone, was shut down after it
\* had been found; and a signal of that goroutine is its last.
FoundInTime ==
    \A g \in Start :
       /\ listens[g].at \in {"listening", "found"} => serves[g] \in Start
       /\ listens[g].at = "found" /\ listener[serves[g]] # "open" => "between" \in mishaps
       /\ listens[g].at = "signal" => listens[g].then = "ended"

IInv == TypeOK /\ Inv /\ FoundInTime

(***************************************************************************)
(* Types                                                                   *)
(***************************************************************************)

LEMMA AtType ==
    ASSUME NEW places, NEW place \in places
    PROVE  At(place) \in Goroutine(places)
BY DEF At, Goroutine, Code

LEMMA InitTypeOK == Init => TypeOK
<1>. SUFFICES ASSUME Init PROVE TypeOK
  OBVIOUS
<1>1. /\ window \in Goroutine({"idle", "stop probe", "stop", "drain", "listen", "shut down"})
      /\ prober \in [Start -> Goroutine({"none", "starting", "running", "ended"})]
      /\ listens \in [Start -> Goroutine({"none", "launched", "listening", "found", "ended"})]
  BY AtType DEF Init
<1>2. /\ starts \in [Service -> 0..MaxStarts]
      /\ console \in 0..starts["console"] /\ backend \in 0..starts["backend"]
      /\ serves \in [Start -> 0..MaxStarts]
  BY ControllerAssumption DEF Init, Service
<1>. QED
  BY <1>1, <1>2 DEF Init, TypeOK, Code, Mishap

LEMMA SignallingType ==
    ASSUME NEW places, NEW s, NEW code \in Code, NEW place \in places
    PROVE  Signalling(s, code, place) \in Goroutine(places)
BY AtType DEF Signalling, Goroutine

LEMMA ProberSignalsTypeOK ==
    ASSUME TypeOK, NEW g, NEW code \in Code,
           NEW place \in {"none", "starting", "running", "ended"},
           ProberSignals(g, code, place), mishaps' \subseteq Mishap,
           window' \in Goroutine({"idle", "stop probe", "stop", "drain", "listen", "shut down"})
    PROVE  TypeOK'
<1>1. prober' \in [Start -> Goroutine({"none", "starting", "running", "ended"})]
  BY SignallingType DEF TypeOK, ProberSignals
<1>2. health' \in [Service -> Code]
  BY DEF TypeOK, ProberSignals, SetHealth
<1>. QED
  BY <1>1, <1>2 DEF TypeOK, ProberSignals, backendVars, shownVars

LEMMA CheckTypeOK ==
    ASSUME TypeOK, NEW g \in Start, CheckSucceeds(g) \/ CheckGivesUp(g) \/ CheckFails(g)
    PROVE  TypeOK'
<1>1. PICK code \in Code, place \in {"running", "ended"} : ProberSignals(g, code, place)
  BY DEF CheckSucceeds, CheckGivesUp, CheckFails, Code
<1>2. mishaps' \subseteq Mishap
  BY DEF TypeOK, CheckSucceeds, CheckGivesUp, CheckFails, Mishaps, Mishap
<1>3. window' \in Goroutine({"idle", "stop probe", "stop", "drain", "listen", "shut down"})
  BY DEF TypeOK, CheckSucceeds, CheckGivesUp, CheckFails
<1>. QED
  BY <1>1, <1>2, <1>3, ProberSignalsTypeOK

LEMMA StopStartupProbeTypeOK ==
    ASSUME TypeOK, StopStartupProbe
    PROVE  TypeOK'
<1>. DEFINE g == starts["console"]
<1>1. CASE /\ ProberSignals(g, "Closing", "ended")
           /\ window' = At("stop")
           /\ UNCHANGED mishaps
  <2>1. "Closing" \in Code /\ mishaps' \subseteq Mishap
    BY <1>1 DEF TypeOK, Code
  <2>2. window' \in Goroutine({"idle", "stop probe", "stop", "drain", "listen", "shut down"})
    BY <1>1, AtType
  <2>. QED
    BY <1>1, <2>1, <2>2, ProberSignalsTypeOK
<1>2. CASE /\ panic' = TRUE
           /\ UNCHANGED <<portTaken, consoleVars, backendVars, window, starts,
                          health, shownVars, mishaps>>
  BY <1>2 DEF TypeOK, consoleVars, backendVars, shownVars
<1>. QED
  BY <1>1, <1>2 DEF StopStartupProbe

LEMMA InRange ==
    ASSUME TypeOK
    PROVE  /\ \A s \in Service : starts[s] \in Int /\ starts[s] \in 0..MaxStarts
           /\ console \in 0..MaxStarts /\ backend \in 0..MaxStarts
<1>1. \A s \in Service : starts[s] \in 0..MaxStarts
  BY DEF TypeOK
<1>2. starts["console"] \in 0..MaxStarts /\ starts["backend"] \in 0..MaxStarts
  BY <1>1 DEF Service
<1>3. console \in 0..starts["console"] /\ backend \in 0..starts["backend"]
  BY DEF TypeOK
<1>. QED
  BY <1>1, <1>2, <1>3, ControllerAssumption

LEMMA ConsoleInStart ==
    ASSUME TypeOK, console # 0
    PROVE  console \in Start
<1>1. console \in 0..MaxStarts
  BY InRange
<1>. QED
  BY <1>1, ControllerAssumption DEF Start

LEMMA LaunchTypeOK ==
    ASSUME TypeOK, NEW s \in Service, starts[s] < MaxStarts, Launch(s)
    PROVE  /\ starts[s] + 1 \in Start
           /\ starts' \in [Service -> 0..MaxStarts]
           /\ \A t \in Service : starts'[t] = IF t = s THEN starts[s] + 1 ELSE starts[t]
           /\ receiver' \in [Service -> [Start -> {"none", "idle"} \cup Code]]
           /\ \A t \in Service, h \in Start : h > starts'[t] => receiver'[t][h] = "none"
<1>1. starts[s] \in 0..MaxStarts
  BY InRange
<1>2. starts[s] + 1 \in Start /\ starts[s] + 1 \in 0..MaxStarts
  BY <1>1, ControllerAssumption DEF Start
<1>3. starts' \in [Service -> 0..MaxStarts]
  BY <1>2 DEF TypeOK, Launch
<1>4. \A t \in Service : starts'[t] = IF t = s THEN starts[s] + 1 ELSE starts[t]
  BY <1>3 DEF TypeOK, Launch
<1>5. receiver' \in [Service -> [Start -> {"none", "idle"} \cup Code]]
  BY <1>2 DEF TypeOK, Launch
<1>6. ASSUME NEW t \in Service, NEW h \in Start, h > starts'[t]
      PROVE  receiver'[t][h] = "none"
  <2>1. starts[t] \in Int /\ h \in Int /\ starts[s] \in Int
    BY InRange, ControllerAssumption DEF Start
  <2>2. h > starts[t] /\ ~(t = s /\ h = starts[s] + 1)
    BY <1>4, <1>6, <2>1
  <2>3. receiver[t][h] = "none"
    BY <2>2 DEF TypeOK
  <2>. QED
    BY <2>2, <2>3 DEF TypeOK, Launch
<1>. QED
  BY <1>2, <1>3, <1>4, <1>5, <1>6

LEMMA StartConsoleTypeOK ==
    ASSUME TypeOK, StartConsole
    PROVE  TypeOK'
<1>. DEFINE g == starts["console"] + 1
<1>1. Launch("console") /\ "console" \in Service /\ starts["console"] < MaxStarts
  BY DEF StartConsole, CanStart, Service
<1>2. /\ g \in Start
      /\ starts' \in [Service -> 0..MaxStarts]
      /\ \A t \in Service : starts'[t] = IF t = "console" THEN g ELSE starts[t]
      /\ receiver' \in [Service -> [Start -> {"none", "idle"} \cup Code]]
      /\ \A t \in Service, h \in Start : h > starts'[t] => receiver'[t][h] = "none"
  BY <1>1, LaunchTypeOK
<1>3. console' \in 0..starts'["console"] /\ backend' \in 0..starts'["backend"]
  <2>1. starts'["console"] = g /\ starts'["backend"] = starts["backend"]
    BY <1>2 DEF Service
  <2>2. console' = g /\ backend' = backend
    BY DEF StartConsole, backendVars
  <2>3. backend \in 0..starts["backend"]
    BY DEF TypeOK
  <2>4. g \in 0..g
    BY <1>2 DEF Start
  <2>. QED
    BY <2>1, <2>2, <2>3, <2>4
<1>4. prober' \in [Start -> Goroutine({"none", "starting", "running", "ended"})]
  BY <1>2, AtType DEF TypeOK, StartConsole
<1>5. server' \in [Start -> {"none", "launched", "listening", "closed"}]
  BY <1>2 DEF TypeOK, StartConsole
<1>. QED
  BY <1>2, <1>3, <1>4, <1>5 DEF TypeOK, StartConsole, Launch, backendVars

LEMMA ServeTypeOK ==
    ASSUME TypeOK, NEW g \in Start, Serve(g) \/ ListenAndServe(g) \/ Run(g) \/ RunEnds(g)
    PROVE  TypeOK'
<1>1. run' \in [Start -> {"none", "launched", "running", "told", "ended"}]
  BY DEF TypeOK, Serve, ListenAndServe, Run, RunEnds
<1>2. server' \in [Start -> {"none", "launched", "listening", "closed"}]
  <2>1. \/ server' = server
        \/ server' = [server EXCEPT ![g] = IF portTaken THEN "closed" ELSE "listening"]
    BY DEF Serve, ListenAndServe, Run, RunEnds
  <2>. QED
    BY <2>1 DEF TypeOK
<1>3. UNCHANGED <<console, prober, window, panic, mishaps>> /\ ConsoleStep
  BY DEF Serve, ListenAndServe, Run, RunEnds
<1>. QED
  BY <1>1, <1>2, <1>3 DEF TypeOK, ConsoleStep, backendVars, shownVars

LEMMA StopConsoleTypeOK ==
    ASSUME TypeOK, StopConsole
    PROVE  TypeOK'
<1>1. window' \in Goroutine({"idle", "stop probe", "stop", "drain", "listen", "shut down"})
  BY AtType DEF StopConsole
<1>. QED
  BY <1>1 DEF TypeOK, StopConsole, consoleVars, backendVars, shownVars

LEMMA ConsoleStopTypeOK ==
    ASSUME TypeOK, ConsoleStop
    PROVE  TypeOK'
<1>1. run' \in [Start -> {"none", "launched", "running", "told", "ended"}]
  <2>1. PICK how : /\ run' = run \/ run' = [run EXCEPT ![console] = how]
                   /\ how = "told" \/ how = run[console]
    BY DEF ConsoleStop
  <2>2. run \in [Start -> {"none", "launched", "running", "told", "ended"}]
    BY DEF TypeOK
  <2>. QED
    BY <2>1, <2>2
<1>2. window' \in Goroutine({"idle", "stop probe", "stop", "drain", "listen", "shut down"})
  BY AtType DEF TypeOK, ConsoleStop
<1>3. panic' \in BOOLEAN /\ mishaps' \subseteq Mishap
  BY DEF TypeOK, ConsoleStop, Mishaps, Mishap
<1>. QED
  BY <1>1, <1>2, <1>3 DEF TypeOK, ConsoleStop, ConsoleStep, backendVars, shownVars

LEMMA ConsoleStoppedTypeOK ==
    ASSUME TypeOK, ConsoleStopped
    PROVE  TypeOK'
<1>1. server' \in [Start -> {"none", "launched", "listening", "closed"}]
  BY DEF TypeOK, ConsoleStopped
<1>2. console' \in 0..starts'["console"]
  <2>1. starts["console"] \in 0..MaxStarts
    BY DEF TypeOK, Service
  <2>2. console' = 0 /\ starts' = starts
    BY DEF ConsoleStopped, ConsoleStep
  <2>. QED
    BY <2>1, <2>2, ControllerAssumption
<1>. QED
  BY <1>1, <1>2, AtType DEF TypeOK, ConsoleStopped, ConsoleStep, backendVars, shownVars

LEMMA WindowSignalsTypeOK ==
    ASSUME TypeOK, NEW code \in Code, NEW place \in {"idle", "listen", "shut down"},
           WindowSignals(code, place)
    PROVE  /\ window' \in Goroutine({"idle", "stop probe", "stop", "drain", "listen", "shut down"})
           /\ health' \in [Service -> Code]
<1>1. window' \in Goroutine({"idle", "stop probe", "stop", "drain", "listen", "shut down"})
  BY SignallingType DEF WindowSignals
<1>2. health' \in [Service -> Code]
  BY DEF TypeOK, WindowSignals, SetHealth
<1>. QED
  BY <1>1, <1>2

LEMMA StartBackendTypeOK ==
    ASSUME TypeOK, StartBackend
    PROVE  TypeOK'
<1>. DEFINE g == starts["backend"] + 1
<1>1. Launch("backend") /\ "backend" \in Service /\ starts["backend"] < MaxStarts
  BY DEF StartBackend, CanStart, Service
<1>2. /\ g \in Start
      /\ starts' \in [Service -> 0..MaxStarts]
      /\ \A t \in Service : starts'[t] = IF t = "backend" THEN g ELSE starts[t]
      /\ receiver' \in [Service -> [Start -> {"none", "idle"} \cup Code]]
      /\ \A t \in Service, h \in Start : h > starts'[t] => receiver'[t][h] = "none"
  BY <1>1, LaunchTypeOK
<1>3. console' \in 0..starts'["console"] /\ backend' \in 0..starts'["backend"]
  <2>1. starts'["backend"] = g /\ starts'["console"] = starts["console"]
    BY <1>2 DEF Service
  <2>2. backend' = g /\ console' = console
    BY DEF StartBackend, consoleVars
  <2>3. console \in 0..starts["console"]
    BY DEF TypeOK
  <2>4. g \in 0..g
    BY <1>2 DEF Start
  <2>. QED
    BY <2>1, <2>2, <2>3, <2>4
<1>4. "Running" \in Code
  BY DEF Code
<1>5. CASE UNCHANGED <<listener, window, health>>
  BY <1>2, <1>3, <1>5 DEF TypeOK, StartBackend, Launch, consoleVars
<1>6. CASE /\ listener' = [listener EXCEPT ![g] = "open"]
           /\ WindowSignals("Running", "listen")
  <2>1. listener' \in [Start -> {"none", "open", "closed"}]
    BY <1>2, <1>6 DEF TypeOK
  <2>2. /\ window' \in Goroutine({"idle", "stop probe", "stop", "drain", "listen", "shut down"})
        /\ health' \in [Service -> Code]
    BY <1>4, <1>6, WindowSignalsTypeOK
  <2>. QED
    BY <1>2, <1>3, <2>1, <2>2 DEF TypeOK, StartBackend, Launch, consoleVars
<1>. QED
  BY <1>5, <1>6 DEF StartBackend, BackendStart

LEMMA StartListeningTypeOK ==
    ASSUME TypeOK, StartListening
    PROVE  TypeOK'
<1>1. window' \in Goroutine({"idle", "stop probe", "stop", "drain", "listen", "shut down"})
  BY AtType DEF StartListening
<1>2. At("launched") \in Goroutine({"none", "launched", "listening", "found", "ended"})
  BY AtType
<1>3. listens' \in [Start -> Goroutine({"none", "launched", "listening", "found", "ended"})]
  BY <1>2 DEF TypeOK, StartListening
<1>. QED
  BY <1>1, <1>3 DEF TypeOK, StartListening, BackendStep, consoleVars, shownVars

LEMMA StopBackendTypeOK ==
    ASSUME TypeOK, StopBackend
    PROVE  TypeOK'
<1>1. "Closing" \in Code /\ WindowSignals("Closing", "shut down")
  BY DEF Code, StopBackend
<1>2. /\ window' \in Goroutine({"idle", "stop probe", "stop", "drain", "listen", "shut down"})
      /\ health' \in [Service -> Code]
  BY <1>1, WindowSignalsTypeOK
<1>. QED
  BY <1>2 DEF TypeOK, StopBackend, BackendStep, consoleVars, shownVars

LEMMA ShutdownTypeOK ==
    ASSUME TypeOK, Shutdown
    PROVE  TypeOK'
<1>1. "NotRunning" \in Code /\ WindowSignals("NotRunning", "idle")
  BY DEF Code, Shutdown
<1>2. /\ window' \in Goroutine({"idle", "stop probe", "stop", "drain", "listen", "shut down"})
      /\ health' \in [Service -> Code]
  BY <1>1, WindowSignalsTypeOK
<1>3. listener' \in [Start -> {"none", "open", "closed"}]
  BY DEF TypeOK, Shutdown
<1>5. mishaps' \subseteq Mishap
  BY DEF TypeOK, Shutdown, Mishaps, Mishap
<1>4. backend' \in 0..starts'["backend"]
  <2>1. starts["backend"] \in 0..MaxStarts
    BY DEF TypeOK, Service
  <2>2. backend' = 0 /\ starts' = starts
    BY DEF Shutdown
  <2>. QED
    BY <2>1, <2>2, ControllerAssumption
<1>. QED
  BY <1>2, <1>3, <1>4, <1>5 DEF TypeOK, Shutdown, BackendStep, consoleVars, shownVars

LEMMA ListenTypeOK ==
    ASSUME TypeOK, NEW g \in Start, Listen(g)
    PROVE  TypeOK'
<1>1. listens' \in [Start -> Goroutine({"none", "launched", "listening", "found", "ended"})]
  <2>1. At("listening") \in Goroutine({"none", "launched", "listening", "found", "ended"})
    BY AtType
  <2>2. CASE listens' = listens
    BY <2>2 DEF TypeOK
  <2>3. CASE listens' = [listens EXCEPT ![g] = At("listening")]
    BY <2>1, <2>3 DEF TypeOK
  <2>. QED
    BY <2>2, <2>3 DEF Listen
<1>2. serves' \in [Start -> 0..MaxStarts]
  <2>1. backend \in 0..MaxStarts /\ serves \in [Start -> 0..MaxStarts]
    BY InRange DEF TypeOK
  <2>2. serves' = serves \/ serves' = [serves EXCEPT ![g] = backend]
    BY DEF Listen
  <2>. QED
    BY <2>1, <2>2
<1>3. panic' \in BOOLEAN /\ mishaps' \subseteq Mishap
  BY DEF TypeOK, Listen, Mishaps, Mishap
<1>. QED
  BY <1>1, <1>2, <1>3 DEF TypeOK, Listen, BackendStep, consoleVars, shownVars

\* What a turn of Listen's loop does.
LEMMA TurnIs ==
    ASSUME TypeOK, NEW g \in Start, FindListener(g) \/ Accept(g)
    PROVE  /\ UNCHANGED <<portTaken, console, server, run, prober, backend, listener, serves,
                          window, starts, health, receiver, running, queued, label, mishaps>>
           /\ \A h \in Start :
                 \/ listens'[h] = listens[h]
                 \/ /\ listens[h].at \in {"listening", "found"}
                    /\ listens'[h] \in {At("listening"), At("found")}
           /\ \A h \in Start : listens'[h] = At("found") =>
                 listens'[h] = listens[h] \/ listener[serves[h]] = "open"
           /\ panic' = panic \/ (listens[g].at = "found" /\ listener[serves[g]] # "open")
           /\ listens' \in [Start -> Goroutine({"none", "launched", "listening", "found", "ended"})]
<1>1. At("listening") # At("found")
  BY DEF At
<1>2. /\ listens \in [Start -> Goroutine({"none", "launched", "listening", "found", "ended"})]
      /\ At("listening") \in Goroutine({"none", "launched", "listening", "found", "ended"})
      /\ At("found") \in Goroutine({"none", "launched", "listening", "found", "ended"})
  BY AtType DEF TypeOK
<1>3. CASE FindListener(g)
  BY <1>1, <1>2, <1>3 DEF FindListener, BackendStep, consoleVars, shownVars
<1>4. CASE Accept(g)
  BY <1>1, <1>2, <1>4 DEF Accept, BackendStep, consoleVars, shownVars
<1>. QED
  BY <1>3, <1>4

LEMMA TurnTypeOK ==
    ASSUME TypeOK, NEW g \in Start, FindListener(g) \/ Accept(g)
    PROVE  TypeOK'
<1>1. panic' \in BOOLEAN
  BY DEF TypeOK, FindListener, Accept
<1>2. /\ UNCHANGED <<portTaken, console, server, run, prober, backend, listener, serves,
                     window, starts, health, receiver, running, queued, label, mishaps>>
      /\ listens' \in [Start -> Goroutine({"none", "launched", "listening", "found", "ended"})]
  BY TurnIs
<1>. QED
  BY <1>1, <1>2 DEF TypeOK

LEMMA ListenReturnsTypeOK ==
    ASSUME TypeOK, NEW g \in Start, ListenReturns(g)
    PROVE  TypeOK'
<1>1. "NotRunning" \in Code
  BY DEF Code
<1>2. Signalling("backend", "NotRunning", "ended") \in Goroutine({"none", "launched", "listening", "found", "ended"})
  BY <1>1, SignallingType
<1>3. listens' \in [Start -> Goroutine({"none", "launched", "listening", "found", "ended"})]
  BY <1>2 DEF TypeOK, ListenReturns
<1>4. health' \in [Service -> Code]
  BY <1>1 DEF TypeOK, ListenReturns, SetHealth
<1>5. mishaps' \subseteq Mishap
  BY DEF TypeOK, ListenReturns, Mishaps, Mishap
<1>. QED
  BY <1>3, <1>4, <1>5 DEF TypeOK, ListenReturns, BackendStep, consoleVars, shownVars

LEMMA PassedType ==
    ASSUME NEW places, NEW p \in Goroutine(places), p.at = "signal"
    PROVE  Passed(p) \in Goroutine(places)
BY DEF Passed, At, Goroutine, Code

LEMMA ReceiveTypeOK ==
    ASSUME TypeOK, NEW s \in Service, NEW g \in Start, NEW code \in Code, Receive(s, g, code)
    PROVE  /\ receiver' \in [Service -> [Start -> {"none", "idle"} \cup Code]]
           /\ \A t \in Service, h \in Start : h > starts'[t] => receiver'[t][h] = "none"
           /\ mishaps' \subseteq Mishap
<1>1. receiver' \in [Service -> [Start -> {"none", "idle"} \cup Code]]
  BY DEF TypeOK, Receive
<1>2. ASSUME NEW t \in Service, NEW h \in Start, h > starts'[t]
      PROVE  receiver'[t][h] = "none"
  <2>1. receiver[t][h] = "none"
    BY <1>2 DEF TypeOK, Receive
  <2>2. ~(t = s /\ h = g)
    BY <2>1 DEF Receive, Receives
  <2>3. receiver \in [Service -> [Start -> {"none", "idle"} \cup Code]]
    BY DEF TypeOK
  <2>. QED
    BY <2>1, <2>2, <2>3 DEF Receive
<1>3. mishaps' \subseteq Mishap
  BY DEF TypeOK, Receive, Mishaps, Mishap
<1>. QED
  BY <1>1, <1>2, <1>3

LEMMA SenderTypes ==
    ASSUME TypeOK
    PROVE  /\ prober \in [Start -> Goroutine({"none", "starting", "running", "ended"})]
           /\ listens \in [Start -> Goroutine({"none", "launched", "listening", "found", "ended"})]
           /\ window.code \in Code /\ window.then # "signal"
           /\ \A h \in Start : /\ prober[h].code \in Code /\ prober[h].then # "signal"
                               /\ listens[h].code \in Code /\ listens[h].then # "signal"
<1>1. /\ prober \in [Start -> Goroutine({"none", "starting", "running", "ended"})]
      /\ listens \in [Start -> Goroutine({"none", "launched", "listening", "found", "ended"})]
      /\ window \in Goroutine({"idle", "stop probe", "stop", "drain", "listen", "shut down"})
  BY DEF TypeOK
<1>. QED
  BY <1>1 DEF Goroutine

LEMMA SignalChangeTypeOK ==
    ASSUME TypeOK, NEW s \in Service, NEW g \in Start, SignalChange(s, g)
    PROVE  TypeOK'
<1>1. CASE /\ \E h \in Start : \E code \in Sent(prober[h]) :
                 /\ Receive(s, g, code)
                 /\ prober' = [prober EXCEPT ![h] = Passed(@)]
           /\ UNCHANGED <<window, listens>>
  <2>1. PICK h \in Start : \E code \in Sent(prober[h]) :
                 /\ Receive(s, g, code)
                 /\ prober' = [prober EXCEPT ![h] = Passed(@)]
    BY <1>1
  <2>2. PICK code \in Sent(prober[h]) :
                 /\ Receive(s, g, code)
                 /\ prober' = [prober EXCEPT ![h] = Passed(@)]
    BY <2>1
  <2>3. prober[h] \in Goroutine({"none", "starting", "running", "ended"})
    BY DEF TypeOK
  <2>4. prober[h].at = "signal" /\ code \in Code
    BY <2>2, <2>3 DEF Sent, Goroutine
  <2>5. prober' \in [Start -> Goroutine({"none", "starting", "running", "ended"})]
    BY <2>2, <2>3, <2>4, PassedType DEF TypeOK
  <2>6. Receive(s, g, code)
    BY <2>2
  <2>7. /\ receiver' \in [Service -> [Start -> {"none", "idle"} \cup Code]]
        /\ \A t \in Service, i \in Start : i > starts'[t] => receiver'[t][i] = "none"
        /\ mishaps' \subseteq Mishap
    BY <2>4, <2>6, ReceiveTypeOK
  <2>. QED
    BY <1>1, <2>5, <2>6, <2>7 DEF TypeOK, Receive
<1>2. CASE /\ \E code \in Sent(window) : Receive(s, g, code)
           /\ window' = Passed(window)
           /\ UNCHANGED <<prober, listens>>
  <2>1. PICK code \in Sent(window) : Receive(s, g, code)
    BY <1>2
  <2>2. window.at = "signal" /\ code \in Code
    BY <2>1, SenderTypes DEF Sent
  <2>3. window' \in Goroutine({"idle", "stop probe", "stop", "drain", "listen", "shut down"})
    BY <1>2, <2>2, PassedType DEF TypeOK
  <2>4. /\ receiver' \in [Service -> [Start -> {"none", "idle"} \cup Code]]
        /\ \A t \in Service, i \in Start : i > starts'[t] => receiver'[t][i] = "none"
        /\ mishaps' \subseteq Mishap
    BY <2>1, <2>2, ReceiveTypeOK
  <2>. QED
    BY <1>2, <2>1, <2>3, <2>4 DEF TypeOK, Receive
<1>3. CASE /\ \E h \in Start : \E code \in Sent(listens[h]) :
                 /\ Receive(s, g, code)
                 /\ listens' = [listens EXCEPT ![h] = Passed(@)]
           /\ UNCHANGED <<prober, window>>
  <2>1. PICK h \in Start : \E code \in Sent(listens[h]) :
                 /\ Receive(s, g, code)
                 /\ listens' = [listens EXCEPT ![h] = Passed(@)]
    BY <1>3
  <2>2. PICK code \in Sent(listens[h]) :
                 /\ Receive(s, g, code)
                 /\ listens' = [listens EXCEPT ![h] = Passed(@)]
    BY <2>1
  <2>3. listens[h] \in Goroutine({"none", "launched", "listening", "found", "ended"})
    BY DEF TypeOK
  <2>4. listens[h].at = "signal" /\ code \in Code
    BY <2>2, <2>3 DEF Sent, Goroutine
  <2>5. listens' \in [Start -> Goroutine({"none", "launched", "listening", "found", "ended"})]
    BY <2>2, <2>3, <2>4, PassedType DEF TypeOK
  <2>6. Receive(s, g, code)
    BY <2>2
  <2>7. /\ receiver' \in [Service -> [Start -> {"none", "idle"} \cup Code]]
        /\ \A t \in Service, i \in Start : i > starts'[t] => receiver'[t][i] = "none"
        /\ mishaps' \subseteq Mishap
    BY <2>4, <2>6, ReceiveTypeOK
  <2>. QED
    BY <1>3, <2>5, <2>6, <2>7 DEF TypeOK, Receive
<1>. QED
  BY <1>1, <1>2, <1>3 DEF SignalChange

LEMMA SetRunningTypeOK ==
    ASSUME TypeOK, NEW s \in Service, NEW g \in Start, SetRunning(s, g)
    PROVE  TypeOK'
<1>1. receiver' \in [Service -> [Start -> {"none", "idle"} \cup Code]]
  BY DEF TypeOK, SetRunning
<1>2. ASSUME NEW t \in Service, NEW h \in Start, h > starts'[t]
      PROVE  receiver'[t][h] = "none"
  <2>1. receiver[t][h] = "none"
    BY <1>2 DEF TypeOK, SetRunning
  <2>2. ~(t = s /\ h = g)
    BY <2>1 DEF SetRunning, Code
  <2>. QED
    BY <2>1, <2>2 DEF TypeOK, SetRunning
<1>3. running' \in [Service -> BOOLEAN] /\ queued' \in [Service -> BOOLEAN]
  BY Zenon DEF TypeOK, SetRunning
<1>. QED
  BY <1>1, <1>2, <1>3 DEF TypeOK, SetRunning, consoleVars, backendVars

LEMMA ShowStatusTypeOK ==
    ASSUME TypeOK, NEW s \in Service, ShowStatus(s)
    PROVE  TypeOK'
<1>1. Shows(s) \in BOOLEAN
  BY DEF Shows
<1>2. queued' \in [Service -> BOOLEAN] /\ label' \in [Service -> BOOLEAN]
  BY <1>1, Zenon DEF TypeOK, ShowStatus
<1>. QED
  BY <1>2 DEF TypeOK, ShowStatus, consoleVars, backendVars

LEMMA NextTypeOK == TypeOK /\ [Next]_vars => TypeOK'
<1>. SUFFICES ASSUME TypeOK, [Next]_vars PROVE TypeOK'
  OBVIOUS
<1>1. CASE StartConsole \/ StopConsole \/ StartBackend \/ StopBackend
  BY <1>1, StartConsoleTypeOK, StopConsoleTypeOK, StartBackendTypeOK, StopBackendTypeOK
<1>2. CASE StopStartupProbe \/ ConsoleStop \/ ConsoleStopped
  BY <1>2, StopStartupProbeTypeOK, ConsoleStopTypeOK, ConsoleStoppedTypeOK
<1>3. CASE StartListening \/ Shutdown
  BY <1>3, StartListeningTypeOK, ShutdownTypeOK
<1>4. CASE \E g \in Start : Serve(g) \/ ListenAndServe(g) \/ Run(g) \/ RunEnds(g)
  BY <1>4, ServeTypeOK
<1>5. CASE \E g \in Start : CheckSucceeds(g) \/ CheckGivesUp(g) \/ CheckFails(g)
  BY <1>5, CheckTypeOK
<1>6. CASE \E g \in Start : Listen(g) \/ FindListener(g) \/ Accept(g) \/ ListenReturns(g)
  BY <1>6, ListenTypeOK, TurnTypeOK, ListenReturnsTypeOK
<1>7. CASE \E s \in Service, g \in Start : SignalChange(s, g) \/ SetRunning(s, g)
  BY <1>7, SignalChangeTypeOK, SetRunningTypeOK
<1>8. CASE \E s \in Service : ShowStatus(s)
  BY <1>8, ShowStatusTypeOK
<1>9. CASE UNCHANGED vars
  BY <1>9 DEF TypeOK, vars, consoleVars, backendVars, shownVars
<1>. QED
  BY <1>1, <1>2, <1>3, <1>4, <1>5, <1>6, <1>7, <1>8, <1>9 DEF Next

(***************************************************************************)
(* Who probes, and what panics                                             *)
(***************************************************************************)

\* Steps that stop no console, start none and move no prober, as they look
\* from here.
LEMMA Undisturbed ==
    ASSUME IInv,
           console' = console, starts'["console"] = starts["console"],
           \A g \in Start : Place(g)' = Place(g),
           panic' = panic, mishaps \subseteq mishaps',
           \/ window' = window
           \/ /\ window.at \notin {"stop", "drain"}
              /\ window'.at \notin {"stop probe", "stop", "drain"}
              /\ WindowSignalsBackend'
    PROVE  Inv'
<1>1. ConsoleIsLatest' /\ OnlyMishapsPanic'
  BY DEF IInv, Inv, ConsoleIsLatest, OnlyMishapsPanic
<1>2. WindowSignalsBackend'
  BY DEF IInv, Inv, WindowSignalsBackend
<1>3. StoppingConsole'
  BY DEF IInv, Inv, StoppingConsole
<1>4. ActiveIsConsole'
  BY DEF IInv, Inv, ActiveIsConsole, Active
<1>5. EndedGaveUp'
  <2>1. SUFFICES ASSUME console' # 0, window'.at \notin {"stop", "drain"}, Ends(console)'
                 PROVE  "gave up" \in mishaps'
    BY DEF EndedGaveUp
  <2>2. console \in Start
    BY <2>1, ConsoleInStart DEF IInv
  <2>3. Ends(console)
    BY <2>1, <2>2 DEF Ends
  <2>. QED
    BY <2>1, <2>3 DEF IInv, Inv, EndedGaveUp
<1>. QED
  BY <1>1, <1>2, <1>3, <1>4, <1>5 DEF Inv


LEMMA InitInv == Init => IInv
<1>. SUFFICES ASSUME Init PROVE IInv
  OBVIOUS
<1>1. \A g \in Start : Place(g) = "none"
  BY DEF Init, Place, At
<1>2. window.at = "idle" /\ console = 0 /\ ~panic
  BY DEF Init, At
<1>3. FoundInTime
  BY DEF Init, At, FoundInTime
<1>. QED
  BY <1>1, <1>2, <1>3, InitTypeOK
     DEF IInv, Inv, ConsoleIsLatest, WindowSignalsBackend, StoppingConsole,
         ActiveIsConsole, Active, EndedGaveUp, OnlyMishapsPanic

LEMMA SignallingPlace ==
    ASSUME NEW s, NEW code, NEW place, place # "signal"
    PROVE  LET p == Signalling(s, code, place)
           IN  (IF p.at = "signal" THEN p.then ELSE p.at) = place
BY DEF Signalling, At

\* What becomes of a prober that signals, and of the others.
LEMMA ProberSignalsPlaces ==
    ASSUME TypeOK, NEW g \in Start, NEW code \in Code, NEW place, place # "signal",
           ProberSignals(g, code, place)
    PROVE  /\ Place(g)' = place
           /\ \A h \in Start : h # g => Place(h)' = Place(h)
<1>1. prober' = [prober EXCEPT ![g] = Signalling("console", code, place)]
  BY DEF ProberSignals
<1>2. prober'[g] = Signalling("console", code, place)
  BY <1>1 DEF TypeOK
<1>3. \A h \in Start : h # g => prober'[h] = prober[h]
  BY <1>1 DEF TypeOK
<1>. QED
  BY <1>2, <1>3, SignallingPlace DEF Place

LEMMA CheckInv ==
    ASSUME IInv, NEW g \in Start, CheckSucceeds(g) \/ CheckGivesUp(g) \/ CheckFails(g)
    PROVE  Inv'
<1>1. Active(g) /\ g = console /\ window.at \notin {"stop", "drain"}
  <2>1. Active(g)
    BY DEF CheckSucceeds, CheckGivesUp, CheckFails, Active, Place
  <2>. QED
    BY <2>1 DEF IInv, Inv, ActiveIsConsole
<1>2. /\ window' = window /\ console' = console /\ starts' = starts
      /\ panic' = panic /\ mishaps \subseteq mishaps'
  BY DEF CheckSucceeds, CheckGivesUp, CheckFails, ProberSignals, Mishaps
<1>3. \A h \in Start : h # g => Place(h)' = Place(h)
  BY ProberSignalsPlaces DEF IInv, CheckSucceeds, CheckGivesUp, CheckFails, Code
<1>4. Place(g)' = "running" \/ (Place(g)' = "ended" /\ "gave up" \in mishaps')
  <2>1. CASE ProberSignals(g, "Running", "running")
    BY <2>1, ProberSignalsPlaces DEF IInv, Code
  <2>2. CASE \E code \in Code : ProberSignals(g, code, "ended") /\ Mishaps("gave up", TRUE)
    BY <2>2, ProberSignalsPlaces DEF IInv, Mishaps
  <2>. QED
    BY <2>1, <2>2 DEF CheckSucceeds, CheckGivesUp, CheckFails, Code
<1>5. /\ ConsoleIsLatest' /\ WindowSignalsBackend' /\ StoppingConsole'
      /\ OnlyMishapsPanic'
  BY <1>2 DEF IInv, Inv, ConsoleIsLatest, WindowSignalsBackend, StoppingConsole,
              OnlyMishapsPanic
<1>6. ActiveIsConsole'
  BY <1>1, <1>2, <1>3 DEF IInv, Inv, ActiveIsConsole, Active
<1>7. EndedGaveUp'
  BY <1>1, <1>2, <1>4 DEF EndedGaveUp, Ends
<1>. QED
  BY <1>5, <1>6, <1>7 DEF Inv

LEMMA StopStartupProbeInv ==
    ASSUME IInv, StopStartupProbe
    PROVE  Inv'
<1>1. PICK g \in Start : g = starts["console"] /\ g = console
  BY ConsoleInStart DEF StopStartupProbe, IInv, Inv, StoppingConsole, ConsoleIsLatest
<1>2. CASE /\ prober[g].at = "running"
           /\ ProberSignals(g, "Closing", "ended")
           /\ window' = At("stop")
           /\ UNCHANGED mishaps
  <2>1. console' = console /\ starts' = starts /\ panic' = panic /\ mishaps' = mishaps
    BY <1>2 DEF ProberSignals
  <2>2. window'.at = "stop"
    BY <1>2 DEF At
  <2>3. /\ Place(g)' = "ended"
        /\ \A h \in Start : h # g => Place(h)' = Place(h)
    BY <1>1, <1>2, ProberSignalsPlaces DEF IInv, Code
  <2>4. ActiveIsConsole'
    BY <1>1, <2>3 DEF IInv, Inv, ActiveIsConsole, Active
  <2>. QED
    BY <1>1, <2>1, <2>2, <2>4
       DEF IInv, Inv, ConsoleIsLatest, WindowSignalsBackend, StoppingConsole,
           EndedGaveUp, OnlyMishapsPanic, StopStartupProbe
<1>3. CASE /\ prober[g].at = "ended"
           /\ panic' = TRUE
           /\ UNCHANGED <<portTaken, consoleVars, backendVars, window, starts,
                          health, shownVars, mishaps>>
  <2>1. window' = window /\ console' = console /\ starts' = starts
        /\ prober' = prober /\ mishaps' = mishaps
    BY <1>3 DEF consoleVars
  <2>2. "gave up" \in mishaps
    <3>1. Ends(console)
      BY <1>1, <1>3 DEF Ends, Place
    <3>. QED
      BY <3>1 DEF StopStartupProbe, IInv, Inv, StoppingConsole, EndedGaveUp
  <2>3. OnlyMishapsPanic'
    BY <2>1, <2>2 DEF OnlyMishapsPanic
  <2>. QED
    BY <2>1, <2>3
       DEF IInv, Inv, ConsoleIsLatest, WindowSignalsBackend, StoppingConsole,
           ActiveIsConsole, Active, EndedGaveUp, Ends, Place
<1>. QED
  BY <1>1, <1>2, <1>3 DEF StopStartupProbe

\* Nothing probes while there is no console.
LEMMA StartConsoleInv ==
    ASSUME IInv, StartConsole
    PROVE  Inv'
<1>1. PICK g \in Start : g = starts["console"] + 1 /\ g = starts'["console"]
  <2>1. "console" \in Service /\ starts["console"] < MaxStarts /\ Launch("console")
    BY DEF StartConsole, CanStart, Service
  <2>. QED
    BY <2>1, LaunchTypeOK DEF IInv
<1>2. /\ console = 0 /\ console' = g /\ window = At("idle") /\ window' = window
      /\ panic' = panic /\ mishaps' = mishaps
  BY <1>1 DEF StartConsole, CanStart, Launch
<1>3. prober'[g] = At("starting") /\ \A h \in Start : h # g => prober'[h] = prober[h]
  BY <1>1 DEF StartConsole, IInv, TypeOK
<1>4. Place(g)' = "starting" /\ \A h \in Start : h # g => Place(h)' = Place(h)
  BY <1>3 DEF Place, At
<1>5. \A h \in Start : ~Active(h)
  <2>1. console \notin Start
    BY <1>2, ControllerAssumption DEF Start
  <2>. QED
    BY <2>1 DEF IInv, Inv, ActiveIsConsole
<1>6. ActiveIsConsole' /\ EndedGaveUp'
  BY <1>2, <1>4, <1>5 DEF ActiveIsConsole, Active, EndedGaveUp, Ends, At
<1>. QED
  BY <1>1, <1>2, <1>6
     DEF IInv, Inv, At, ConsoleIsLatest, WindowSignalsBackend, StoppingConsole,
         OnlyMishapsPanic

LEMMA StopConsoleInv ==
    ASSUME IInv, StopConsole
    PROVE  Inv'
<1>1. /\ window = At("idle") /\ console # 0 /\ window' = At("stop probe")
      /\ console' = console /\ starts' = starts /\ prober' = prober
      /\ panic' = panic /\ mishaps' = mishaps
  BY DEF StopConsole, consoleVars
<1>. QED
  BY <1>1 DEF At, IInv, Inv, ConsoleIsLatest, WindowSignalsBackend, StoppingConsole,
              ActiveIsConsole, Active, EndedGaveUp, Ends, Place, OnlyMishapsPanic

LEMMA ConsoleStopInv ==
    ASSUME IInv, ConsoleStop
    PROVE  Inv'
<1>1. /\ window.at = "stop"
      /\ console' = console /\ starts' = starts /\ prober' = prober
      /\ \/ window' = window /\ panic' = TRUE /\ mishaps' = mishaps \cup {"early"}
         \/ window' = At("drain") /\ panic' = panic /\ mishaps' = mishaps
  BY DEF ConsoleStop, ConsoleStep, Mishaps
<1>2. window'.at \in {"stop", "drain"}
  BY <1>1 DEF At
<1>3. ActiveIsConsole'
  BY <1>1 DEF IInv, Inv, ActiveIsConsole, Active, Place
<1>4. OnlyMishapsPanic'
  BY <1>1 DEF IInv, Inv, OnlyMishapsPanic
<1>5. ConsoleIsLatest' /\ StoppingConsole'
  BY <1>1 DEF IInv, Inv, ConsoleIsLatest, StoppingConsole
<1>6. WindowSignalsBackend' /\ EndedGaveUp'
  BY <1>2 DEF WindowSignalsBackend, EndedGaveUp
<1>. QED
  BY <1>3, <1>4, <1>5, <1>6 DEF Inv

LEMMA ConsoleStoppedInv ==
    ASSUME IInv, ConsoleStopped
    PROVE  Inv'
<1>1. /\ window.at = "drain" /\ window' = At("idle")
      /\ console' = 0 /\ starts' = starts /\ prober' = prober
      /\ panic' = panic /\ mishaps' = mishaps
  BY DEF ConsoleStopped, ConsoleStep
<1>2. ActiveIsConsole'
  BY <1>1 DEF IInv, Inv, ActiveIsConsole, Active, Place
<1>. QED
  BY <1>1, <1>2
     DEF At, IInv, Inv, ConsoleIsLatest, WindowSignalsBackend, StoppingConsole,
         EndedGaveUp, OnlyMishapsPanic

\* The buttons of the backend use the window's goroutine.
LEMMA BackendInv ==
    ASSUME IInv, StartBackend \/ StopBackend \/ StartListening \/ Shutdown
    PROVE  Inv'
<1>1. /\ console' = console /\ prober' = prober
      /\ panic' = panic /\ mishaps \subseteq mishaps'
  BY DEF StartBackend, Launch, StopBackend, StartListening, Shutdown, BackendStep,
         Mishaps, consoleVars, shownVars
<1>2. starts'["console"] = starts["console"]
  <2>1. CASE StartBackend
    BY <2>1 DEF StartBackend, Launch, IInv, TypeOK, Service
  <2>. QED
    BY <2>1 DEF StopBackend, StartListening, Shutdown
<1>3. window.at \in {"idle", "listen", "shut down"}
  <2>1. At("idle").at = "idle"
    BY DEF At
  <2>. QED
    BY <2>1 DEF StartBackend, CanStart, StopBackend, StartListening, Shutdown
<1>4. \/ window' = window
      \/ /\ window'.at \notin {"stop probe", "stop", "drain"}
         /\ WindowSignalsBackend'
  <2>1. \/ window' = window \/ window' = At("idle")
        \/ \E code \in Code, place \in {"idle", "listen", "shut down"} :
              WindowSignals(code, place)
    BY DEF StartBackend, BackendStart, StopBackend, StartListening, Shutdown, Code
  <2>2. CASE window' = At("idle")
    BY <2>2 DEF At, WindowSignalsBackend
  <2>3. ASSUME NEW code \in Code, NEW place \in {"idle", "listen", "shut down"},
               WindowSignals(code, place)
        PROVE  /\ window'.at \notin {"stop probe", "stop", "drain"}
               /\ WindowSignalsBackend'
    BY <2>3 DEF WindowSignals, Signalling, At, WindowSignalsBackend
  <2>. QED
    BY <2>1, <2>2, <2>3
<1>5. \A g \in Start : Place(g)' = Place(g)
  BY <1>1 DEF Place
<1>. QED
  BY <1>1, <1>2, <1>3, <1>4, <1>5, Undisturbed

\* Listen panics only when the backend it was to serve is gone.
LEMMA ListenInv ==
    ASSUME IInv, NEW g \in Start, Listen(g)
    PROVE  Inv'
<1>1. /\ console' = console /\ starts' = starts /\ prober' = prober /\ window' = window
      /\ mishaps \subseteq mishaps'
      /\ panic' = panic \/ backend = 0
      /\ backend = 0 => "early" \in mishaps'
  BY ControllerAssumption DEF Listen, BackendStep, consoleVars, Mishaps, Start
<1>2. OnlyMishapsPanic'
  BY <1>1 DEF IInv, Inv, OnlyMishapsPanic
<1>. QED
  BY <1>1, <1>2
     DEF IInv, Inv, ConsoleIsLatest, WindowSignalsBackend, StoppingConsole,
         ActiveIsConsole, Active, EndedGaveUp, Ends, Place

\* Accept panics only when the listener was shut down after it had been found.
LEMMA TurnInv ==
    ASSUME IInv, NEW g \in Start, FindListener(g) \/ Accept(g)
    PROVE  Inv'
<1>1. /\ console' = console /\ starts' = starts /\ prober' = prober /\ window' = window
      /\ mishaps' = mishaps
      /\ panic' = panic \/ (listens[g].at = "found" /\ listener[serves[g]] # "open")
  BY TurnIs DEF IInv
<1>2. OnlyMishapsPanic'
  BY <1>1 DEF IInv, Inv, FoundInTime, OnlyMishapsPanic
<1>. QED
  BY <1>1, <1>2
     DEF IInv, Inv, ConsoleIsLatest, WindowSignalsBackend, StoppingConsole,
         ActiveIsConsole, Active, EndedGaveUp, Ends, Place

LEMMA SignalChangeInv ==
    ASSUME IInv, NEW s \in Service, NEW g \in Start, SignalChange(s, g)
    PROVE  Inv'
<1>1. PICK code : Receive(s, g, code)
  BY DEF SignalChange
<1>2. /\ console' = console /\ starts' = starts /\ panic' = panic
      /\ mishaps \subseteq mishaps'
  BY <1>1 DEF Receive, Mishaps
<1>3. ASSUME NEW h \in Start PROVE Place(h)' = Place(h)
  <2>1. \/ prober' = prober
        \/ \E i \in Start : /\ Sent(prober[i]) # {}
                            /\ prober' = [prober EXCEPT ![i] = Passed(@)]
    BY DEF SignalChange
  <2>2. /\ prober[h].then # "signal"
        /\ prober \in [Start -> Goroutine({"none", "starting", "running", "ended"})]
    BY DEF IInv, TypeOK, Goroutine
  <2>3. \/ prober'[h] = prober[h]
        \/ Sent(prober[h]) # {} /\ prober'[h] = Passed(prober[h])
    <3>1. CASE prober' = prober
      BY <3>1
    <3>2. ASSUME NEW i \in Start, Sent(prober[i]) # {},
                 prober' = [prober EXCEPT ![i] = Passed(@)]
          PROVE  \/ prober'[h] = prober[h]
                 \/ Sent(prober[h]) # {} /\ prober'[h] = Passed(prober[h])
      BY <2>2, <3>2
    <3>. QED
      BY <2>1, <3>1, <3>2
  <2>. QED
    BY <2>2, <2>3 DEF Place, Sent, Passed, At
<1>4. \/ window' = window
      \/ window.at = "signal" /\ window' = At(window.then)
  BY DEF SignalChange, Sent, Passed
<1>5. \/ window' = window
      \/ /\ window.at \notin {"stop", "drain"}
         /\ window'.at \notin {"stop probe", "stop", "drain"}
         /\ WindowSignalsBackend'
  <2>1. CASE window.at = "signal" /\ window' = At(window.then)
    <3>1. window.then \in {"idle", "listen", "shut down"}
      BY <2>1 DEF IInv, Inv, WindowSignalsBackend
    <3>2. window'.at = window.then
      BY <2>1 DEF At
    <3>. QED
      BY <2>1, <3>1, <3>2 DEF WindowSignalsBackend
  <2>. QED
    BY <1>4, <2>1
<1>. QED
  BY <1>2, <1>3, <1>5, Undisturbed

\* What the console, Listen and the labels do on their own.
LEMMA QuietInv ==
    ASSUME IInv,
           \/ \E g \in Start : \/ Serve(g) \/ ListenAndServe(g) \/ Run(g) \/ RunEnds(g)
                               \/ ListenReturns(g)
                               \/ \E s \in Service : SetRunning(s, g)
           \/ \E s \in Service : ShowStatus(s)
           \/ UNCHANGED vars
    PROVE  Inv'
<1>1. /\ console' = console /\ starts' = starts /\ prober' = prober /\ window' = window
      /\ panic' = panic /\ mishaps \subseteq mishaps'
  <2>1. CASE \E g \in Start : Serve(g) \/ ListenAndServe(g) \/ Run(g) \/ RunEnds(g)
    BY <2>1 DEF Serve, ListenAndServe, Run, RunEnds, ConsoleStep
  <2>2. CASE \E g \in Start : ListenReturns(g)
    BY <2>2 DEF ListenReturns, BackendStep, consoleVars, Mishaps
  <2>3. CASE \E s \in Service : ShowStatus(s) \/ \E g \in Start : SetRunning(s, g)
    BY <2>3 DEF ShowStatus, SetRunning, consoleVars
  <2>4. CASE UNCHANGED vars
    BY <2>4 DEF vars, consoleVars
  <2>. QED
    BY <2>1, <2>2, <2>3, <2>4
<1>2. \A g \in Start : Place(g)' = Place(g)
  BY <1>1 DEF Place
<1>. QED
  BY <1>1, <1>2, Undisturbed

LEMMA BackendInStart ==
    ASSUME TypeOK, backend # 0
    PROVE  backend \in Start
<1>1. backend \in 0..MaxStarts
  BY InRange
<1>. QED
  BY <1>1, ControllerAssumption DEF Start

\* What a received signal does to its sender.
LEMMA SignalChangeMoves ==
    ASSUME TypeOK, NEW s \in Service, NEW g \in Start, SignalChange(s, g)
    PROVE  /\ \A h \in Start :
                 /\ \/ prober'[h] = prober[h]
                    \/ prober[h].at = "signal" /\ prober'[h] = Passed(prober[h])
                 /\ \/ listens'[h] = listens[h]
                    \/ listens[h].at = "signal" /\ listens'[h] = Passed(listens[h])
           /\ window' = window \/ (window.at = "signal" /\ window' = Passed(window))
           /\ UNCHANGED <<portTaken, console, server, run, backend, listener, serves, starts,
                          health, running, queued, label, panic>>
<1>1. UNCHANGED <<portTaken, console, server, run, backend, listener, serves, starts,
                  health, running, queued, label, panic>>
  BY DEF SignalChange, Receive
<1>2. \/ prober' = prober
      \/ \E i \in Start : Sent(prober[i]) # {} /\ prober' = [prober EXCEPT ![i] = Passed(@)]
  BY DEF SignalChange
<1>3. \/ listens' = listens
      \/ \E i \in Start : Sent(listens[i]) # {} /\ listens' = [listens EXCEPT ![i] = Passed(@)]
  BY DEF SignalChange
<1>4. window' = window \/ (window.at = "signal" /\ window' = Passed(window))
  BY DEF SignalChange, Sent
<1>5. ASSUME NEW h \in Start
      PROVE  \/ prober'[h] = prober[h]
             \/ prober[h].at = "signal" /\ prober'[h] = Passed(prober[h])
  <2>1. prober \in [Start -> Goroutine({"none", "starting", "running", "ended"})]
    BY DEF TypeOK
  <2>2. CASE prober' = prober
    BY <2>2
  <2>3. ASSUME NEW i \in Start, Sent(prober[i]) # {}, prober' = [prober EXCEPT ![i] = Passed(@)]
        PROVE  \/ prober'[h] = prober[h]
               \/ prober[h].at = "signal" /\ prober'[h] = Passed(prober[h])
    BY <2>1, <2>3 DEF Sent
  <2>. QED
    BY <1>2, <2>2, <2>3
<1>6. ASSUME NEW h \in Start
      PROVE  \/ listens'[h] = listens[h]
             \/ listens[h].at = "signal" /\ listens'[h] = Passed(listens[h])
  <2>1. listens \in [Start -> Goroutine({"none", "launched", "listening", "found", "ended"})]
    BY DEF TypeOK
  <2>2. CASE listens' = listens
    BY <2>2
  <2>3. ASSUME NEW i \in Start, Sent(listens[i]) # {}, listens' = [listens EXCEPT ![i] = Passed(@)]
        PROVE  \/ listens'[h] = listens[h]
               \/ listens[h].at = "signal" /\ listens'[h] = Passed(listens[h])
    BY <2>1, <2>3 DEF Sent
  <2>. QED
    BY <1>3, <2>2, <2>3
<1>. QED
  BY <1>1, <1>4, <1>5, <1>6

\* Steps that neither find a listener nor shut one down.
LEMMA FoundInTimeKept ==
    ASSUME FoundInTime, mishaps \subseteq mishaps',
           \A g \in Start : listener[g] = "open" => listener'[g] = "open",
           \A g \in Start :
              /\ listens'[g].at \in {"listening", "found"} =>
                    listens[g].at = listens'[g].at /\ serves'[g] = serves[g]
              /\ listens'[g].at = "signal" =>
                    listens'[g] = listens[g] \/ listens'[g].then = "ended"
    PROVE  FoundInTime'
BY DEF FoundInTime

LEMMA FoundInTimeNext ==
    ASSUME TypeOK, FoundInTime, [Next]_vars
    PROVE  FoundInTime'
<1>1. CASE \E g \in Start : Listen(g)
  <2>1. PICK g \in Start : Listen(g)
    BY <1>1
  <2>2. /\ listener' = listener /\ mishaps \subseteq mishaps'
        /\ listens' = listens \/ listens' = [listens EXCEPT ![g] = At("listening")]
        /\ listens[g].at = "launched"
        /\ \/ listens' = listens /\ serves' = serves
           \/ /\ listens' = [listens EXCEPT ![g] = At("listening")]
              /\ serves' = [serves EXCEPT ![g] = backend] /\ backend # 0
    BY <2>1 DEF Listen, Mishaps
  <2>3. At("listening").at = "listening"
    BY DEF At
  <2>4. backend # 0 => backend \in Start
    BY BackendInStart
  <2>5. \A h \in Start : /\ \/ listens'[h] = listens[h]
                            \/ listens'[h].at = "listening" /\ serves'[h] \in Start
                         /\ h # g => listens'[h] = listens[h] /\ serves'[h] = serves[h]
    <3>1. CASE listens' = listens /\ serves' = serves
      BY <3>1
    <3>2. CASE /\ listens' = [listens EXCEPT ![g] = At("listening")]
               /\ serves' = [serves EXCEPT ![g] = backend] /\ backend # 0
      <4>1. \A h \in Start : /\ listens'[h] = IF h = g THEN At("listening") ELSE listens[h]
                             /\ serves'[h] = IF h = g THEN backend ELSE serves[h]
        BY <3>2 DEF TypeOK
      <4>. QED
        BY <2>3, <2>4, <3>2, <4>1
    <3>. QED
      BY <2>2, <3>1, <3>2
  <2>6. listens'[g].at = "launched" \/ (listens'[g].at = "listening" /\ serves'[g] \in Start)
    BY <2>2, <2>5
  <2>. QED
    BY <2>2, <2>5, <2>6 DEF FoundInTime
<1>2. CASE \E g \in Start : FindListener(g) \/ Accept(g)
  <2>1. PICK g \in Start : FindListener(g) \/ Accept(g)
    BY <1>2
  <2>2. At("listening").at = "listening" /\ At("found").at = "found"
    BY DEF At
  <2>3. /\ UNCHANGED <<listener, serves, mishaps>>
        /\ \A h \in Start :
              \/ listens'[h] = listens[h]
              \/ /\ listens[h].at \in {"listening", "found"}
                 /\ \/ listens'[h] = At("listening")
                    \/ listens'[h] = At("found") /\ listener[serves[h]] = "open"
    BY <2>1, TurnIs
  <2>. QED
    BY <2>2, <2>3 DEF FoundInTime
<1>3. CASE \E g \in Start : ListenReturns(g)
  <2>1. PICK g \in Start : ListenReturns(g)
    BY <1>3
  <2>2. PICK p : p = Signalling("backend", "NotRunning", "ended")
    OBVIOUS
  <2>3. p.at \in {"ended", "signal"} /\ p.then = "ended"
    BY <2>2 DEF Signalling, At
  <2>4. /\ UNCHANGED <<listener, serves>> /\ mishaps \subseteq mishaps'
        /\ \A h \in Start : listens'[h] = listens[h] \/ listens'[h] = p
    BY <2>1, <2>2 DEF ListenReturns, Mishaps, TypeOK
  <2>. QED
    BY <2>3, <2>4, FoundInTimeKept
<1>4. CASE StartListening
  <2>1. /\ UNCHANGED <<listener, serves, mishaps>>
        /\ listens' = [listens EXCEPT ![backend] = At("launched")]
    BY <1>4 DEF StartListening
  <2>2. \A h \in Start : listens'[h] = listens[h] \/ listens'[h] = At("launched")
    BY <2>1 DEF TypeOK
  <2>3. At("launched").at = "launched"
    BY DEF At
  <2>. QED
    BY <2>1, <2>2, <2>3, FoundInTimeKept
<1>5. CASE Shutdown
  <2>1. /\ UNCHANGED <<listens, serves>> /\ mishaps \subseteq mishaps'
        /\ \A h \in Start : h # backend => listener'[h] = listener[h]
        /\ \A h \in Start :
              listens[h].at = "found" /\ serves[h] = backend => "between" \in mishaps'
    BY <1>5 DEF Shutdown, Mishaps, TypeOK
  <2>. QED
    BY <2>1 DEF FoundInTime
<1>6. CASE StartBackend
  <2>1. /\ UNCHANGED <<listens, serves, mishaps>>
        /\ \/ listener' = listener
           \/ \E n : listener' = [listener EXCEPT ![n] = "open"]
    BY <1>6 DEF StartBackend, BackendStart
  <2>2. \A h \in Start : listener[h] = "open" => listener'[h] = "open"
    <3>1. ASSUME NEW n, listener' = [listener EXCEPT ![n] = "open"], NEW h \in Start
          PROVE  listener[h] = "open" => listener'[h] = "open"
      <4>1. listener \in [Start -> {"none", "open", "closed"}]
        BY DEF TypeOK
      <4>. QED
        BY <3>1, <4>1
    <3>. QED
      BY <2>1, <3>1
  <2>. QED
    BY <2>1, <2>2, FoundInTimeKept
<1>7. CASE \E s \in Service, g \in Start : SignalChange(s, g)
  <2>1. PICK s \in Service, g \in Start : SignalChange(s, g)
    BY <1>7
  <2>2. UNCHANGED <<listener, serves>> /\ mishaps \subseteq mishaps'
    BY <2>1 DEF SignalChange, Receive, Mishaps
  <2>4. \A h \in Start : \/ listens'[h] = listens[h]
                         \/ listens[h].at = "signal" /\ listens'[h] = At(listens[h].then)
    BY <2>1, SignalChangeMoves DEF Passed
  <2>5. At("ended").at = "ended"
    BY DEF At
  <2>6. \A h \in Start : listens'[h] = listens[h] \/ listens'[h].at = "ended"
    BY <2>4, <2>5 DEF FoundInTime
  <2>. QED
    BY <2>2, <2>6, FoundInTimeKept
<1>8. CASE \/ StartConsole \/ StopConsole \/ StopBackend
           \/ StopStartupProbe \/ ConsoleStop \/ ConsoleStopped
           \/ \E g \in Start :
                 \/ Serve(g) \/ ListenAndServe(g) \/ Run(g) \/ RunEnds(g)
                 \/ CheckSucceeds(g) \/ CheckGivesUp(g) \/ CheckFails(g)
                 \/ \E s \in Service : SetRunning(s, g)
           \/ \E s \in Service : ShowStatus(s)
           \/ UNCHANGED vars
  <2>1. CASE StartConsole \/ StopConsole \/ StopBackend \/ StopStartupProbe
             \/ ConsoleStop \/ ConsoleStopped
    <3>1. UNCHANGED <<listener, listens, serves>> /\ mishaps \subseteq mishaps'
      BY <2>1 DEF StartConsole, StopConsole, StopBackend, StopStartupProbe, ConsoleStop,
                  ConsoleStopped, ConsoleStep, ProberSignals, Mishaps, backendVars
    <3>. QED
      BY <3>1, FoundInTimeKept
  <2>2. CASE \E g \in Start : \/ Serve(g) \/ ListenAndServe(g) \/ Run(g) \/ RunEnds(g)
                              \/ CheckSucceeds(g) \/ CheckGivesUp(g) \/ CheckFails(g)
                              \/ \E s \in Service : SetRunning(s, g)
    <3>1. UNCHANGED <<listener, listens, serves>> /\ mishaps \subseteq mishaps'
      BY <2>2 DEF Serve, ListenAndServe, Run, RunEnds, CheckSucceeds, CheckGivesUp,
                  CheckFails, SetRunning, ConsoleStep, ProberSignals, Mishaps, backendVars
    <3>. QED
      BY <3>1, FoundInTimeKept
  <2>3. CASE (\E s \in Service : ShowStatus(s)) \/ UNCHANGED vars
    <3>1. UNCHANGED <<listener, listens, serves, mishaps>>
      BY <2>3 DEF ShowStatus, backendVars, vars
    <3>. QED
      BY <3>1, FoundInTimeKept
  <2>. QED
    BY <1>8, <2>1, <2>2, <2>3
<1>. QED
  BY <1>1, <1>2, <1>3, <1>4, <1>5, <1>6, <1>7, <1>8 DEF Next

LEMMA NextInv == IInv /\ [Next]_vars => IInv'
<1>. SUFFICES ASSUME IInv, [Next]_vars PROVE Inv'
  BY NextTypeOK, FoundInTimeNext DEF IInv
<1>1. CASE StartConsole \/ StopConsole \/ StopStartupProbe \/ ConsoleStop \/ ConsoleStopped
  BY <1>1, StartConsoleInv, StopConsoleInv, StopStartupProbeInv, ConsoleStopInv,
     ConsoleStoppedInv
<1>2. CASE StartBackend \/ StopBackend \/ StartListening \/ Shutdown
  BY <1>2, BackendInv
<1>3. CASE \E g \in Start : CheckSucceeds(g) \/ CheckGivesUp(g) \/ CheckFails(g)
  BY <1>3, CheckInv
<1>4. CASE \E g \in Start : Listen(g) \/ FindListener(g) \/ Accept(g)
  BY <1>4, ListenInv, TurnInv
<1>5. CASE \E g \in Start, s \in Service : SignalChange(s, g)
  BY <1>5, SignalChangeInv
<1>6. CASE \/ \E g \in Start : \/ Serve(g) \/ ListenAndServe(g) \/ Run(g) \/ RunEnds(g)
                               \/ ListenReturns(g)
                               \/ \E s \in Service : SetRunning(s, g)
           \/ \E s \in Service : ShowStatus(s)
           \/ UNCHANGED vars
  BY <1>6, QuietInv
<1>. QED
  BY <1>1, <1>2, <1>3, <1>4, <1>5, <1>6 DEF Next

LEMMA Invariance == Spec => []IInv
BY InitInv, NextInv, PTL DEF Spec

-----------------------------------------------------------------------------

\* Every reachable state has the declared types: a signal is one of the codes
\* and goes on to a place of its sender, and no start beyond the last has a
\* receiver (controller.go, probe.go).
THEOREM TypeCorrect == Spec => []TypeOK
BY Invariance, PTL DEF IInv

\* One goroutine at most probes the console, that of the console there is,
\* however often it is started and stopped (probe.go StopStartupProbe).
THEOREM OneConsoleIsProbed == Spec => []OneProber
<1>1. IInv => OneProber
  BY DEF IInv, Inv, ActiveIsConsole, Active, Place, OneProber
<1>. QED
  BY <1>1, Invariance, PTL

\* The program panics only after the prober of a console has given up, when a
\* start is undone before its goroutines have run, or when a backend is shut
\* down between the two reads of its listener (probe.go StopStartupProbe,
\* controller.go StartBackend, multiplayer.go Stop, backend.go Listen).
THEOREM PanicsAreExplained == Spec => []OnlyMishapsPanic
BY Invariance, PTL DEF IInv, Inv

(***************************************************************************)
(* The labels: the inductive invariant                                     *)
(***************************************************************************)

WindowPlace == IF window.at = "signal" THEN window.then ELSE window.at

\* What StartConsole and StartListening set is of no goroutine yet.
Fresh ==
    /\ \A g \in Start : /\ g > starts["console"] => prober[g].at = "none"
                        /\ g > starts["backend"] => listens[g].at = "none"
    /\ WindowPlace = "listen" => backend # 0 /\ listens[backend].at = "none"
    /\ backend \in {0, starts["backend"]}

\* The server that listens is the console's, its prober has found it, and the
\* health of the console is what that prober has found.
ConsoleHealth ==
    /\ \A g \in Start :
          /\ server[g] \in {"launched", "listening"} => g = console
          /\ Place(g) = "running" => server[g] = "listening" /\ health["console"] = "Running"
    /\ health["console"] = "Running" => \E g \in Start : Place(g) = "running"
    /\ console # 0 /\ window.at \notin {"stop", "drain"}
          => Place(console) \in {"starting", "running"}

\* The listener that is open is the backend's, and the health of the backend
\* says so unless it is shutting down.
BackendHealth ==
    /\ \A g \in Start :
          /\ listens[g].at \in {"listening", "found"} => serves[g] = g
          /\ listens[g].at = "signal" => listens[g].then = "ended"
          /\ listener[g] = "open" =>
                /\ g = backend
                /\ WindowPlace # "shut down" => health["backend"] = "Running"
    /\ health["backend"] = "Running" =>
          /\ WindowPlace # "shut down"
          /\ \E g \in Start : listener[g] = "open"

Holds(s, g) == receiver[s][g] \in Code

\* What the sender x of Senders(s) sends.
CodeOf(s, x) == IF s = "console" THEN prober[x].code
                ELSE IF x = 0 THEN window.code
                ELSE listens[x].code

SoleSender(s) == \A x, y \in Senders(s) : x = y

\* With one sender the codes come one after the other, the last of them is the
\* health, and a label that differs from its binding will be written again.
InOrder(s) ==
    /\ \A x \in Senders(s) : CodeOf(s, x) = health[s]
    /\ Senders(s) = {} => \A g \in Start : Holds(s, g) => receiver[s][g] = health[s]
    /\ Senders(s) = {} /\ (\A g \in Start : ~Holds(s, g)) => (running[s] <=> Shows(s))
    /\ \/ queued[s]
       \/ label[s] <=> running[s]
       \/ Senders(s) # {} /\ ~(Shows(s) <=> running[s])
       \/ \E g \in Start : Holds(s, g) /\ ~((receiver[s][g] = "Running") <=> running[s])

Flow(s) ==
    /\ \A g, h \in Start : Holds(s, g) /\ Holds(s, h) => g = h
    /\ SoleSender(s) => InOrder(s)

Calm == ConsoleHealth /\ BackendHealth /\ \A s \in Service : Flow(s)

LabelInv == IInv /\ Fresh /\ (mishaps = {} => Calm)



LEMMA MishapsRemain ==
    ASSUME [Next]_vars
    PROVE  mishaps \subseteq mishaps'
<1>1. CASE \/ StartConsole \/ StopConsole \/ StartBackend \/ StopBackend
           \/ StopStartupProbe \/ ConsoleStop \/ ConsoleStopped
           \/ StartListening \/ Shutdown
  BY <1>1 DEF StartConsole, StopConsole, StartBackend, StopBackend, StopStartupProbe,
              ConsoleStop, ConsoleStopped, StartListening, Shutdown, Mishaps
<1>2. CASE \E g \in Start :
             \/ Serve(g) \/ ListenAndServe(g) \/ Run(g) \/ RunEnds(g)
             \/ CheckSucceeds(g) \/ CheckGivesUp(g) \/ CheckFails(g)
             \/ Listen(g) \/ FindListener(g) \/ Accept(g) \/ ListenReturns(g)
  BY <1>2 DEF Serve, ListenAndServe, Run, RunEnds, CheckSucceeds, CheckGivesUp,
              CheckFails, Listen, FindListener, Accept, ListenReturns, Mishaps
<1>3. CASE \E g \in Start, s \in Service : SignalChange(s, g)
  BY <1>3 DEF SignalChange, Receive, Mishaps
<1>4. CASE \E s \in Service : ShowStatus(s) \/ \E g \in Start : SetRunning(s, g)
  BY <1>4 DEF SetRunning, ShowStatus
<1>5. CASE UNCHANGED vars
  BY <1>5 DEF vars
<1>. QED
  BY <1>1, <1>2, <1>3, <1>4, <1>5 DEF Next

(***************************************************************************)
(* Fresh starts                                                            *)
(***************************************************************************)

\* Steps that start nothing.
LEMMA FreshKept ==
    ASSUME IInv, Fresh, starts' = starts,
           backend' = backend \/ (backend' = 0 /\ WindowPlace' # "listen"),
           \A g \in Start : /\ prober[g].at = "none" => prober'[g].at = "none"
                            /\ listens[g].at = "none" => listens'[g].at = "none",
           WindowPlace' = "listen" => WindowPlace = "listen"
    PROVE  Fresh'
<1>1. backend # 0 => backend \in Start
  BY BackendInStart DEF IInv
<1>. QED
  BY <1>1 DEF Fresh

\* Where the window's goroutine is while a signal of its own is received.
LEMMA WindowGoes ==
    ASSUME TypeOK, window' = window \/ (window.at = "signal" /\ window' = Passed(window))
    PROVE  WindowPlace' = WindowPlace
<1>1. window.then # "signal"
  BY DEF TypeOK, Goroutine
<1>. QED
  BY <1>1 DEF WindowPlace, Passed, At

LEMMA WindowSignalsPlace ==
    ASSUME NEW code, NEW place, place # "signal", WindowSignals(code, place)
    PROVE  WindowPlace' = place
BY DEF WindowSignals, Signalling, At, WindowPlace

LEMMA AtIs == \A place : At(place).at = place
BY DEF At

LEMMA FreshNext ==
    ASSUME IInv, Fresh, [Next]_vars
    PROVE  Fresh'
<1>1. CASE StartConsole
  <2>1. PICK n : n = starts["console"] + 1
    OBVIOUS
  <2>2. /\ n \in Start /\ starts["console"] \in Int
        /\ starts'["console"] = n /\ starts'["backend"] = starts["backend"]
    <3>1. "console" \in Service /\ "backend" \in Service /\ Launch("console")
          /\ starts["console"] < MaxStarts
      BY <1>1 DEF StartConsole, CanStart, Service
    <3>. QED
      BY <2>1, <3>1, LaunchTypeOK, InRange DEF IInv
  <2>3. prober' = [prober EXCEPT ![n] = At("starting")] /\ UNCHANGED <<window, listens, backend>>
    BY <1>1, <2>1 DEF StartConsole, backendVars
  <2>4. WindowPlace' = WindowPlace
    BY <2>3 DEF WindowPlace
  <2>5. \A g \in Start : g > n => g > starts["console"] /\ g # n
    BY <2>1, <2>2, ControllerAssumption DEF Start
  <2>6. \A g \in Start : g # n => prober'[g] = prober[g]
    BY <2>3 DEF IInv, TypeOK
  <2>. QED
    BY <2>2, <2>3, <2>4, <2>5, <2>6 DEF Fresh
<1>2. CASE StartBackend
  <2>1. PICK n : n = starts["backend"] + 1
    OBVIOUS
  <2>2. /\ n \in Start /\ starts["backend"] \in Int
        /\ starts'["backend"] = n /\ starts'["console"] = starts["console"]
    <3>1. "console" \in Service /\ "backend" \in Service /\ Launch("backend")
          /\ starts["backend"] < MaxStarts
      BY <1>2 DEF StartBackend, CanStart, Service
    <3>. QED
      BY <2>1, <3>1, LaunchTypeOK, InRange DEF IInv
  <2>3. backend' = n /\ UNCHANGED <<prober, listens>>
    BY <1>2, <2>1 DEF StartBackend, consoleVars
  <2>4. \A g \in Start : g > n => g > starts["backend"]
    BY <2>1, <2>2, ControllerAssumption DEF Start
  <2>5. n # 0 /\ n > starts["backend"]
    BY <2>1, <2>2, ControllerAssumption DEF Start
  <2>. QED
    BY <2>2, <2>3, <2>4, <2>5 DEF Fresh
<1>3. CASE StartListening
  <2>1. /\ starts' = starts /\ backend' = backend /\ prober' = prober
        /\ listens' = [listens EXCEPT ![backend] = At("launched")]
        /\ WindowPlace' = "idle" /\ WindowPlace = "listen"
    BY <1>3 DEF StartListening, BackendStep, consoleVars, WindowPlace, At
  <2>2. backend = starts["backend"]
    BY <2>1 DEF Fresh
  <2>3. \A g \in Start : g # backend => listens'[g] = listens[g]
    BY <2>1 DEF IInv, TypeOK
  <2>4. \A g \in Start : g > starts["backend"] => g # backend
    BY <2>2, ControllerAssumption DEF Start
  <2>. QED
    BY <2>1, <2>2, <2>3, <2>4 DEF Fresh
<1>4. CASE \E g \in Start : CheckSucceeds(g) \/ CheckGivesUp(g) \/ CheckFails(g)
  <2>1. PICK g \in Start :
           /\ prober[g].at # "none"
           /\ \E p : prober' = [prober EXCEPT ![g] = p]
           /\ UNCHANGED <<starts, backend, listens, window>>
    BY <1>4 DEF CheckSucceeds, CheckGivesUp, CheckFails, ProberSignals, backendVars
  <2>2. \A h \in Start : prober[h].at = "none" => prober'[h].at = "none"
    BY <2>1 DEF IInv, TypeOK
  <2>. QED
    BY <2>1, <2>2, FreshKept DEF WindowPlace
<1>5. CASE StopStartupProbe
  <2>1. PICK g : g = starts["console"]
    OBVIOUS
  <2>2. \/ prober' = prober
        \/ prober[g].at = "running" /\ \E p : prober' = [prober EXCEPT ![g] = p]
    BY <1>5, <2>1 DEF StopStartupProbe, ProberSignals, consoleVars
  <2>3. UNCHANGED <<starts, backend, listens>>
    BY <1>5 DEF StopStartupProbe, ProberSignals, backendVars
  <2>4. WindowPlace' # "listen"
    <3>1. window.at = "stop probe" /\ (window' = window \/ window' = At("stop"))
      BY <1>5 DEF StopStartupProbe
    <3>2. window'.at \in {"stop probe", "stop"}
      BY <3>1, AtIs
    <3>. QED
      BY <3>2 DEF WindowPlace
  <2>5. \A h \in Start : prober[h].at = "none" => prober'[h].at = "none"
    BY <2>2 DEF IInv, TypeOK
  <2>. QED
    BY <2>3, <2>4, <2>5, FreshKept
<1>6. CASE \E g \in Start : Listen(g) \/ FindListener(g) \/ Accept(g) \/ ListenReturns(g)
  <2>1. PICK g \in Start :
           /\ \/ listens' = listens
              \/ listens[g].at # "none" /\ \E p : listens' = [listens EXCEPT ![g] = p]
           /\ UNCHANGED <<starts, backend, prober, window>>
    BY <1>6 DEF Listen, FindListener, Accept, ListenReturns, BackendStep, consoleVars
  <2>2. \A h \in Start : listens[h].at = "none" => listens'[h].at = "none"
    BY <2>1 DEF IInv, TypeOK
  <2>. QED
    BY <2>1, <2>2, FreshKept DEF WindowPlace
<1>7. CASE StopBackend \/ Shutdown
  <2>1. /\ UNCHANGED <<starts, prober, listens>>
        /\ backend' = backend \/ backend' = 0
        /\ WindowSignals("Closing", "shut down") \/ WindowSignals("NotRunning", "idle")
    BY <1>7 DEF StopBackend, Shutdown, BackendStep, consoleVars
  <2>2. WindowPlace' # "listen"
    BY <2>1, WindowSignalsPlace
  <2>. QED
    BY <2>1, <2>2, FreshKept
<1>8. CASE StopConsole \/ ConsoleStop \/ ConsoleStopped
  <2>1. UNCHANGED <<starts, backend, prober, listens>>
    BY <1>8 DEF StopConsole, ConsoleStop, ConsoleStopped, ConsoleStep, consoleVars,
                backendVars
  <2>2. window' = window \/ \E place \in {"stop probe", "drain", "idle"} : window' = At(place)
    BY <1>8 DEF StopConsole, ConsoleStop, ConsoleStopped
  <2>3. WindowPlace' = "listen" => WindowPlace = "listen"
    <3>1. window' = window \/ window'.at \in {"stop probe", "drain", "idle"}
      BY <2>2, AtIs
    <3>. QED
      BY <3>1 DEF WindowPlace
  <2>. QED
    BY <2>1, <2>3, FreshKept
<1>9. CASE \E s \in Service, g \in Start : SignalChange(s, g)
  <2>1. PICK s \in Service, g \in Start : SignalChange(s, g)
    BY <1>9
  <2>2. /\ UNCHANGED <<starts, backend>> /\ WindowPlace' = WindowPlace
        /\ \A h \in Start : /\ prober[h].at = "none" => prober'[h].at = "none"
                            /\ listens[h].at = "none" => listens'[h].at = "none"
    BY <2>1, SignalChangeMoves, WindowGoes DEF IInv
  <2>. QED
    BY <2>2, FreshKept
<1>10. CASE \/ \E g \in Start : \/ Serve(g) \/ ListenAndServe(g) \/ Run(g) \/ RunEnds(g)
                                \/ \E s \in Service : SetRunning(s, g)
            \/ \E s \in Service : ShowStatus(s)
            \/ UNCHANGED vars
  <2>1. UNCHANGED <<starts, backend, prober, listens, window>>
    BY <1>10 DEF Serve, ListenAndServe, Run, RunEnds, ConsoleStep, SetRunning, ShowStatus,
                 vars, consoleVars, backendVars
  <2>. QED
    BY <2>1, FreshKept DEF WindowPlace
<1>. QED
  BY <1>1, <1>2, <1>3, <1>4, <1>5, <1>6, <1>7, <1>8, <1>9, <1>10 DEF Next

(***************************************************************************)
(* The health of the console                                               *)
(***************************************************************************)

\* Steps that leave the console, its server and its prober where they are.
LEMMA ConsoleHealthKept ==
    ASSUME IInv, ConsoleHealth, console' = console, server' = server,
           \A g \in Start : Place(g)' = Place(g), health'["console"] = health["console"],
           window.at \in {"stop", "drain"} => window'.at \in {"stop", "drain"}
    PROVE  ConsoleHealth'
<1>1. console # 0 => console \in Start
  BY ConsoleInStart DEF IInv
<1>2. console' # 0 => Place(console)' = Place(console)
  BY <1>1
<1>. QED
  BY <1>2 DEF ConsoleHealth

LEMMA ConsoleHealthNext ==
    ASSUME IInv, ConsoleHealth, [Next]_vars, mishaps' = {}
    PROVE  ConsoleHealth'
<1>1. CASE StartConsole
  <2>1. PICK n : n = starts["console"] + 1
    OBVIOUS
  <2>2. n \in Start
    <3>1. "console" \in Service /\ Launch("console") /\ starts["console"] < MaxStarts
      BY <1>1 DEF StartConsole, CanStart, Service
    <3>. QED
      BY <2>1, <3>1, LaunchTypeOK DEF IInv
  <2>3. /\ console = 0 /\ console' = n /\ window' = window /\ health' = health
        /\ server' = [server EXCEPT ![n] = "launched"]
        /\ prober' = [prober EXCEPT ![n] = At("starting")]
    BY <1>1, <2>1 DEF StartConsole
  <2>4. 0 \notin Start /\ \A g \in Start : ~Active(g)
    BY <2>3, ControllerAssumption DEF Start, IInv, Inv, ActiveIsConsole
  <2>5. /\ server'[n] = "launched" /\ prober'[n] = At("starting")
        /\ \A g \in Start : g # n => server'[g] = server[g] /\ prober'[g] = prober[g]
    BY <2>2, <2>3 DEF IInv, TypeOK
  <2>6. Place(n)' = "starting" /\ \A g \in Start : g # n => Place(g)' = Place(g)
    BY <2>5, AtIs DEF Place
  <2>. QED
    BY <2>2, <2>3, <2>4, <2>5, <2>6 DEF ConsoleHealth, Active
<1>2. CASE \E g \in Start : ListenAndServe(g)
  <2>1. PICK g \in Start :
           /\ server[g] = "launched" /\ UNCHANGED <<console, prober, window, health>>
           /\ \E to \in {"closed", "listening"} : server' = [server EXCEPT ![g] = to]
    BY <1>2 DEF ListenAndServe, ConsoleStep
  <2>2. /\ server'[g] \in {"closed", "listening"}
        /\ \A h \in Start : h # g => server'[h] = server[h]
    BY <2>1 DEF IInv, TypeOK
  <2>3. \A h \in Start : Place(h)' = Place(h)
    BY <2>1 DEF Place
  <2>4. console # 0 => console \in Start
    BY ConsoleInStart DEF IInv
  <2>. QED
    BY <2>1, <2>2, <2>3, <2>4 DEF ConsoleHealth
<1>3. CASE \E g \in Start : CheckSucceeds(g) \/ CheckGivesUp(g) \/ CheckFails(g)
  <2>1. PICK g \in Start : CheckSucceeds(g)
    BY <1>3 DEF CheckGivesUp, CheckFails, Mishaps
  <2>2. ProberSignals(g, "Running", "running") /\ prober[g].at = "starting"
    BY <2>1 DEF CheckSucceeds
  <2>3. server[g] = "listening"
    BY <2>1 DEF CheckSucceeds, Mishaps
  <2>4. UNCHANGED <<console, server, window>> /\ health'["console"] = "Running"
    BY <2>1, <2>2 DEF CheckSucceeds, ProberSignals, SetHealth, IInv, TypeOK, Service
  <2>5. Place(g)' = "running" /\ \A h \in Start : h # g => Place(h)' = Place(h)
    BY <2>2, ProberSignalsPlaces DEF IInv, Code
  <2>6. g = console
    BY <2>3 DEF ConsoleHealth
  <2>. QED
    BY <2>3, <2>4, <2>5, <2>6 DEF ConsoleHealth
<1>4. CASE StopStartupProbe
  <2>1. PICK g : g = starts["console"]
    OBVIOUS
  <2>2. g = console /\ g \in Start
    BY <1>4, <2>1, ConsoleInStart
       DEF StopStartupProbe, IInv, Inv, StoppingConsole, ConsoleIsLatest
  <2>3. CASE panic' = TRUE /\ UNCHANGED <<console, server, prober, window, health>>
    <3>1. \A h \in Start : Place(h)' = Place(h)
      BY <2>3 DEF Place
    <3>. QED
      BY <2>3, <3>1, ConsoleHealthKept
  <2>4. CASE ProberSignals(g, "Closing", "ended") /\ window' = At("stop")
    <3>1. /\ Place(g)' = "ended" /\ \A h \in Start : h # g => Place(h)' = Place(h)
      BY <2>2, <2>4, ProberSignalsPlaces DEF IInv, Code
    <3>2. \A h \in Start : Place(h)' # "running"
      BY <2>2, <3>1 DEF IInv, Inv, ActiveIsConsole, Active
    <3>3. UNCHANGED <<console, server>> /\ health'["console"] = "Closing"
      BY <2>4 DEF ProberSignals, SetHealth, IInv, TypeOK, Service
    <3>. QED
      BY <2>4, <3>2, <3>3, AtIs DEF ConsoleHealth
  <2>5. \/ ProberSignals(g, "Closing", "ended") /\ window' = At("stop")
        \/ panic' = TRUE /\ UNCHANGED <<console, server, prober, window, health>>
    BY <1>4, <2>1 DEF StopStartupProbe, consoleVars
  <2>. QED
    BY <2>3, <2>4, <2>5
<1>5. CASE ConsoleStopped
  <2>1. /\ window.at = "drain" /\ console' = 0 /\ UNCHANGED <<prober, health>>
        /\ server' = [server EXCEPT ![console] = "closed"]
    BY <1>5 DEF ConsoleStopped, ConsoleStep
  <2>2. \A g \in Start : Place(g)' = Place(g) /\ Place(g) # "running"
    BY <2>1 DEF IInv, Inv, ActiveIsConsole, Active, Place
  <2>3. \A g \in Start : server'[g] = IF g = console THEN "closed" ELSE server[g]
    BY <2>1 DEF IInv, TypeOK
  <2>. QED
    BY <2>1, <2>2, <2>3 DEF ConsoleHealth
<1>6. CASE StopConsole \/ ConsoleStop
  <2>1. UNCHANGED <<console, server, prober, health>>
    BY <1>6 DEF StopConsole, ConsoleStop, ConsoleStep, consoleVars
  <2>2. \/ window.at = "idle"
        \/ window.at = "stop" /\ (window' = window \/ window' = At("drain"))
    BY <1>6, AtIs DEF StopConsole, ConsoleStop
  <2>3. window.at \in {"stop", "drain"} => window'.at \in {"stop", "drain"}
    BY <2>2, AtIs
  <2>. QED
    BY <2>1, <2>3, ConsoleHealthKept DEF Place
<1>7. CASE StartBackend \/ StopBackend \/ StartListening \/ Shutdown
  <2>1. UNCHANGED <<console, server, prober>> /\ health'["console"] = health["console"]
    BY <1>7 DEF StartBackend, BackendStart, StopBackend, StartListening, Shutdown, BackendStep,
                WindowSignals, SetHealth, consoleVars, IInv, TypeOK, Service
  <2>2. window = At("idle") \/ window.at \in {"listen", "shut down"}
    BY <1>7 DEF StartBackend, CanStart, StopBackend, StartListening, Shutdown
  <2>3. At("idle").at = "idle"
    BY AtIs
  <2>4. window.at \notin {"stop", "drain"}
    BY <2>2, <2>3
  <2>. QED
    BY <2>1, <2>4, ConsoleHealthKept DEF Place
<1>8. CASE \E g \in Start : Listen(g) \/ FindListener(g) \/ Accept(g) \/ ListenReturns(g)
  <2>1. UNCHANGED <<console, server, prober, window>> /\ health'["console"] = health["console"]
    BY <1>8 DEF Listen, FindListener, Accept, ListenReturns, BackendStep, SetHealth, consoleVars, IInv, TypeOK, Service
  <2>. QED
    BY <2>1, ConsoleHealthKept DEF Place
<1>9. CASE \E s \in Service, g \in Start : SignalChange(s, g)
  <2>1. PICK s \in Service, g \in Start : SignalChange(s, g)
    BY <1>9
  <2>2. /\ UNCHANGED <<console, server, health>>
        /\ window' = window \/ window.at = "signal"
        /\ \A h \in Start : \/ prober'[h] = prober[h]
                            \/ prober[h].at = "signal" /\ prober'[h] = Passed(prober[h])
    BY <2>1, SignalChangeMoves DEF IInv
  <2>3. \A h \in Start : Place(h)' = Place(h)
    <3>1. \A h \in Start : prober[h].then # "signal"
      BY DEF IInv, TypeOK, Goroutine
    <3>2. ASSUME NEW h \in Start, prober'[h] = Passed(prober[h])
          PROVE  prober'[h].at = prober[h].then
      BY <3>2, AtIs DEF Passed
    <3>. QED
      BY <2>2, <3>1, <3>2 DEF Place
  <2>. QED
    BY <2>2, <2>3, ConsoleHealthKept
<1>10. CASE \/ \E g \in Start : \/ Serve(g) \/ Run(g) \/ RunEnds(g)
                                \/ \E s \in Service : SetRunning(s, g)
            \/ \E s \in Service : ShowStatus(s)
            \/ UNCHANGED vars
  <2>1. UNCHANGED <<console, server, prober, window, health>>
    BY <1>10 DEF Serve, Run, RunEnds, ConsoleStep, SetRunning, ShowStatus,
                 vars, consoleVars, backendVars
  <2>. QED
    BY <2>1, ConsoleHealthKept DEF Place
<1>. QED
  BY <1>1, <1>2, <1>3, <1>4, <1>5, <1>6, <1>7, <1>8, <1>9, <1>10 DEF Next

(***************************************************************************)
(* The health of the backend                                               *)
(***************************************************************************)

\* Steps that leave the backend and its listener where they are.
LEMMA BackendHealthKept ==
    ASSUME BackendHealth, backend' = backend, listener' = listener,
           health'["backend"] = health["backend"],
           WindowPlace' = "shut down" <=> WindowPlace = "shut down",
           serves' = serves,
           \A g \in Start :
              /\ listens'[g].at \in {"listening", "found"} =>
                    listens[g].at \in {"listening", "found"}
              /\ listens'[g].at = "signal" => listens'[g] = listens[g]
    PROVE  BackendHealth'
<1>1. \A g \in Start : /\ listens'[g].at \in {"listening", "found"} => serves'[g] = g
                       /\ listens'[g].at = "signal" => listens'[g].then = "ended"
  BY DEF BackendHealth
<1>. QED
  BY <1>1 DEF BackendHealth

LEMMA BackendHealthNext ==
    ASSUME IInv, Fresh, BackendHealth, [Next]_vars, mishaps' = {}
    PROVE  BackendHealth'
<1>1. CASE StartBackend
  <2>1. PICK n : n = starts["backend"] + 1
    OBVIOUS
  <2>2. n \in Start
    <3>1. "backend" \in Service /\ Launch("backend") /\ starts["backend"] < MaxStarts
      BY <1>1 DEF StartBackend, CanStart, Service
    <3>. QED
      BY <2>1, <3>1, LaunchTypeOK DEF IInv
  <2>3. /\ backend = 0 /\ backend' = n /\ UNCHANGED <<listens, serves>> /\ BackendStart(n)
        /\ window = At("idle")
    BY <1>1, <2>1 DEF StartBackend, CanStart
  <2>4. \A g \in Start : listener[g] # "open"
    <3>1. \A g \in Start : listener[g] = "open" => g = 0
      BY <2>3 DEF BackendHealth
    <3>2. 0 \notin Start
      BY ControllerAssumption DEF Start
    <3>. QED
      BY <3>1, <3>2
  <2>5. CASE UNCHANGED <<listener, window, health>>
    BY <2>3, <2>4, <2>5 DEF BackendHealth, WindowPlace
  <2>6. CASE listener' = [listener EXCEPT ![n] = "open"] /\ WindowSignals("Running", "listen")
    <3>1. \A g \in Start : listener'[g] = IF g = n THEN "open" ELSE listener[g]
      BY <2>6 DEF IInv, TypeOK
    <3>2. health'["backend"] = "Running"
      BY <2>6 DEF WindowSignals, SetHealth, IInv, TypeOK, Service
    <3>3. WindowPlace' = "listen"
      BY <2>6, WindowSignalsPlace
    <3>. QED
      BY <2>2, <2>3, <2>4, <3>1, <3>2, <3>3 DEF BackendHealth
  <2>. QED
    BY <2>3, <2>5, <2>6 DEF BackendStart
<1>2. CASE StopBackend
  <2>1. /\ UNCHANGED <<backend, listener, listens, serves>>
        /\ WindowSignals("Closing", "shut down")
    BY <1>2 DEF StopBackend
  <2>2. health'["backend"] = "Closing" /\ WindowPlace' = "shut down"
    BY <2>1, WindowSignalsPlace DEF WindowSignals, SetHealth, IInv, TypeOK, Service
  <2>. QED
    BY <2>1, <2>2 DEF BackendHealth
<1>3. CASE Shutdown
  <2>1. /\ backend' = 0 /\ UNCHANGED <<listens, serves>> /\ WindowSignals("NotRunning", "idle")
        /\ \A g \in Start : listener'[g] = IF g = backend /\ listener[g] = "open" THEN "closed"
                                           ELSE listener[g]
    BY <1>3 DEF Shutdown, IInv, TypeOK
  <2>2. health'["backend"] = "NotRunning"
    BY <2>1 DEF WindowSignals, SetHealth, IInv, TypeOK, Service
  <2>3. \A g \in Start : listener'[g] # "open"
    BY <2>1 DEF BackendHealth
  <2>. QED
    BY <2>1, <2>2, <2>3 DEF BackendHealth
<1>4. CASE \E g \in Start : Listen(g)
  <2>1. PICK g \in Start : Listen(g)
    BY <1>4
  <2>2. backend = g /\ g # 0
    BY <2>1, ControllerAssumption DEF Listen, Mishaps, Start
  <2>3. /\ UNCHANGED <<backend, listener, health, window>>
        /\ serves' = [serves EXCEPT ![g] = g]
        /\ listens' = [listens EXCEPT ![g] = At("listening")]
    BY <2>1, <2>2 DEF Listen
  <2>4. \A h \in Start : /\ h # g => listens'[h] = listens[h]
                         /\ serves'[h] = IF h = g THEN g ELSE serves[h]
    BY <2>3 DEF IInv, TypeOK
  <2>5. WindowPlace' = WindowPlace
    BY <2>3 DEF WindowPlace
  <2>6. listens'[g].at = "listening"
    <3>1. listens'[g] = At("listening")
      BY <2>3, SenderTypes DEF IInv
    <3>. QED
      BY <3>1, AtIs
  <2>7. \A h \in Start : /\ listens'[h].at \in {"listening", "found"} => serves'[h] = h
                         /\ listens'[h].at = "signal" => listens'[h].then = "ended"
    BY <2>4, <2>6 DEF BackendHealth
  <2>. QED
    BY <2>3, <2>5, <2>7 DEF BackendHealth
<1>5. CASE \E g \in Start : ListenReturns(g)
  <2>1. PICK g \in Start : ListenReturns(g)
    BY <1>5
  <2>2. starts["backend"] = g /\ listens[g].at = "listening" /\ listener[serves[g]] # "open"
    BY <2>1 DEF ListenReturns, Mishaps
  <2>3. ASSUME NEW h \in Start PROVE listener[h] # "open"
    <3>1. h # 0
      BY ControllerAssumption DEF Start
    <3>2. listener[h] = "open" => h = backend
      BY DEF BackendHealth
    <3>3. serves[g] = g /\ backend \in {0, g}
      BY <2>2 DEF Fresh, BackendHealth
    <3>. QED
      BY <2>2, <3>1, <3>2, <3>3
  <2>4. /\ UNCHANGED <<backend, listener, serves, window>> /\ health'["backend"] = "NotRunning"
        /\ listens' = [listens EXCEPT ![g] = Signalling("backend", "NotRunning", "ended")]
    BY <2>1 DEF ListenReturns, SetHealth, IInv, TypeOK, Service
  <2>5. PICK p : p = Signalling("backend", "NotRunning", "ended")
    OBVIOUS
  <2>6. p.at \in {"ended", "signal"} /\ p.then = "ended"
    BY <2>5 DEF Signalling, At
  <2>7. \A h \in Start : listens'[h] = IF h = g THEN p ELSE listens[h]
    BY <2>4, <2>5 DEF IInv, TypeOK
  <2>8. WindowPlace' = WindowPlace
    BY <2>4 DEF WindowPlace
  <2>. QED
    BY <2>3, <2>4, <2>6, <2>7, <2>8 DEF BackendHealth
<1>6. CASE StartListening
  <2>1. /\ UNCHANGED <<backend, listener, serves, health>>
        /\ listens' = [listens EXCEPT ![backend] = At("launched")]
        /\ window' = At("idle") /\ window.at = "listen"
    BY <1>6 DEF StartListening
  <2>2. WindowPlace' = "idle" /\ WindowPlace = "listen"
    BY <2>1, AtIs DEF WindowPlace
  <2>3. \A h \in Start : listens'[h] = listens[h] \/ listens'[h] = At("launched")
    BY <2>1 DEF IInv, TypeOK
  <2>4. At("launched").at = "launched"
    BY AtIs
  <2>5. \A h \in Start : /\ listens'[h].at \in {"listening", "found"} =>
                               listens[h].at \in {"listening", "found"}
                         /\ listens'[h].at = "signal" => listens'[h] = listens[h]
    BY <2>3, <2>4
  <2>. QED
    BY <2>1, <2>2, <2>5, BackendHealthKept
<1>7. CASE StopConsole \/ ConsoleStop \/ ConsoleStopped \/ StopStartupProbe
  <2>1. /\ UNCHANGED <<backend, listener, listens, serves>>
        /\ health'["backend"] = health["backend"]
    BY <1>7 DEF StopConsole, ConsoleStop, ConsoleStopped, StopStartupProbe, ProberSignals,
                SetHealth, ConsoleStep, backendVars, IInv, TypeOK, Service
  <2>2. /\ window = At("idle") \/ window.at \in {"stop", "drain", "stop probe"}
        /\ window' = window \/ \E p \in {"stop probe", "stop", "drain", "idle"} : window' = At(p)
    BY <1>7 DEF StopConsole, ConsoleStop, ConsoleStopped, StopStartupProbe
  <2>3. /\ window.at \in {"idle", "stop", "drain", "stop probe"}
        /\ window' = window \/ window'.at \in {"idle", "stop", "drain", "stop probe"}
    BY <2>2, AtIs
  <2>. QED
    BY <2>1, <2>3, BackendHealthKept DEF WindowPlace
<1>8. CASE StartConsole \/ \E g \in Start : CheckSucceeds(g) \/ CheckGivesUp(g) \/ CheckFails(g)
  <2>1. /\ UNCHANGED <<backend, listener, listens, serves, window>>
        /\ health'["backend"] = health["backend"]
    BY <1>8 DEF StartConsole, CheckSucceeds, CheckGivesUp, CheckFails, ProberSignals,
                SetHealth, backendVars, IInv, TypeOK, Service
  <2>. QED
    BY <2>1, BackendHealthKept DEF WindowPlace
<1>9. CASE \E s \in Service, g \in Start : SignalChange(s, g)
  <2>1. PICK s \in Service, g \in Start : SignalChange(s, g)
    BY <1>9
  <2>2. /\ UNCHANGED <<backend, listener, serves, health>> /\ WindowPlace' = WindowPlace
        /\ \A h \in Start : \/ listens'[h] = listens[h]
                            \/ listens[h].at = "signal" /\ listens'[h] = Passed(listens[h])
    BY <2>1, SignalChangeMoves, WindowGoes DEF IInv
  <2>3. ASSUME NEW h \in Start, listens'[h] # listens[h]
        PROVE  listens'[h].at = "ended"
    <3>1. listens[h].then = "ended" /\ listens'[h] = At(listens[h].then)
      BY <2>2, <2>3 DEF BackendHealth, Passed
    <3>. QED
      BY <3>1, AtIs
  <2>. QED
    BY <2>2, <2>3, BackendHealthKept
<1>10. CASE \/ \E g \in Start : \/ Serve(g) \/ ListenAndServe(g) \/ Run(g) \/ RunEnds(g)
                                \/ \E s \in Service : SetRunning(s, g)
            \/ \E s \in Service : ShowStatus(s)
            \/ UNCHANGED vars
  <2>1. UNCHANGED <<backend, listener, listens, serves, window, health>>
    BY <1>10 DEF Serve, ListenAndServe, Run, RunEnds, ConsoleStep, SetRunning, ShowStatus,
                 vars, consoleVars, backendVars
  <2>. QED
    BY <2>1, BackendHealthKept DEF WindowPlace
<1>11. CASE \E g \in Start : FindListener(g) \/ Accept(g)
  <2>1. /\ UNCHANGED <<backend, listener, serves, window, health>>
        /\ \A h \in Start : \/ listens'[h] = listens[h]
                            \/ /\ listens[h].at \in {"listening", "found"}
                               /\ listens'[h] \in {At("listening"), At("found")}
    BY <1>11, TurnIs DEF IInv
  <2>2. At("listening").at = "listening" /\ At("found").at = "found"
    BY AtIs
  <2>3. \A h \in Start : /\ listens'[h].at \in {"listening", "found"} =>
                               listens[h].at \in {"listening", "found"}
                         /\ listens'[h].at = "signal" => listens'[h] = listens[h]
    BY <2>1, <2>2
  <2>. QED
    BY <2>1, <2>3, BackendHealthKept DEF WindowPlace
<1>. QED
  BY <1>1, <1>2, <1>3, <1>4, <1>5, <1>6, <1>7, <1>8, <1>9, <1>10, <1>11 DEF Next

(***************************************************************************)
(* Signals on their way                                                    *)
(***************************************************************************)

LEMMA SendersAre ==
    /\ Senders("console") = {h \in Start : prober[h].at = "signal"}
    /\ \A x : x \in Senders("backend") <=> \/ x \in Start /\ listens[x].at = "signal"
                                           \/ x = 0 /\ window.at = "signal"
BY DEF Senders

\* No signal is sent or received, and no label written.
LEMMA FlowKept ==
    ASSUME NEW s, Flow(s), Senders(s)' = Senders(s),
           \A x \in Senders(s) : CodeOf(s, x)' = CodeOf(s, x),
           health'[s] = health[s],
           \A g \in Start : \/ receiver'[s][g] = receiver[s][g]
                            \/ ~Holds(s, g) /\ ~Holds(s, g)',
           running'[s] = running[s], queued'[s] = queued[s], label'[s] = label[s]
    PROVE  Flow(s)'
<1>1. \A g \in Start : /\ Holds(s, g)' <=> Holds(s, g)
                       /\ Holds(s, g) => receiver'[s][g] = receiver[s][g]
  BY DEF Holds, Code
<1>2. SoleSender(s)' <=> SoleSender(s)
  BY DEF SoleSender
<1>3. Shows(s)' <=> Shows(s)
  BY DEF Shows
<1>4. InOrder(s) => InOrder(s)'
  BY <1>1, <1>3 DEF InOrder
<1>. QED
  BY <1>1, <1>2, <1>4 DEF Flow

\* Signal is called by x: if the status changes, x becomes a sender.
LEMMA FlowSignals ==
    ASSUME NEW s, Flow(s), NEW x, Senders(s)' = Senders(s) \cup {x}, x \notin Senders(s),
           CodeOf(s, x)' = health'[s],
           \A g \in Start : \/ receiver'[s][g] = receiver[s][g]
                            \/ ~Holds(s, g) /\ ~Holds(s, g)',
           running'[s] = running[s], queued'[s] = queued[s], label'[s] = label[s]
    PROVE  Flow(s)'
<1>1. \A g \in Start : /\ Holds(s, g)' <=> Holds(s, g)
                       /\ Holds(s, g) => receiver'[s][g] = receiver[s][g]
  BY DEF Holds, Code
<1>2. ASSUME SoleSender(s)' PROVE InOrder(s)'
  <2>1. Senders(s) = {} /\ Senders(s)' = {x}
    BY <1>2 DEF SoleSender
  <2>2. InOrder(s)
    BY <2>1 DEF Flow, SoleSender
  <2>3. \A y \in Senders(s)' : CodeOf(s, y)' = health'[s]
    BY <2>1
  <2>4. \/ queued'[s]
        \/ label'[s] <=> running'[s]
        \/ \E g \in Start : Holds(s, g)' /\ ~((receiver'[s][g] = "Running") <=> running'[s])
    BY <1>1, <2>1, <2>2 DEF InOrder
  <2>. QED
    BY <2>1, <2>3, <2>4 DEF InOrder
<1>. QED
  BY <1>1, <1>2 DEF Flow

\* The code of the one sender goes to a receiver while no other holds one.
LEMMA FlowReceives ==
    ASSUME NEW s, NEW g \in Start, Flow(s), NEW x, Senders(s) = {x}, Senders(s)' = {},
           \A h \in Start : ~Holds(s, h),
           receiver'[s][g] = CodeOf(s, x), CodeOf(s, x) \in Code,
           \A h \in Start : h # g => receiver'[s][h] = receiver[s][h],
           health'[s] = health[s],
           running'[s] = running[s], queued'[s] = queued[s], label'[s] = label[s]
    PROVE  Flow(s)'
<1>1. \A h \in Start : Holds(s, h)' <=> h = g
  BY DEF Holds
<1>2. InOrder(s)
  BY DEF Flow, SoleSender
<1>3. receiver'[s][g] = health'[s] /\ (Shows(s) <=> receiver'[s][g] = "Running")
  BY <1>2 DEF InOrder, Shows
<1>4. \/ queued[s]
      \/ label[s] <=> running[s]
      \/ ~(Shows(s) <=> running[s])
  BY <1>2 DEF InOrder
<1>5. InOrder(s)'
  BY <1>1, <1>3, <1>4 DEF InOrder
<1>. QED
  BY <1>1, <1>5 DEF Flow

\* A binding is set to the code its receiver holds.
LEMMA FlowSets ==
    ASSUME NEW s, NEW g \in Start, Flow(s), Holds(s, g), ~Holds(s, g)',
           Senders(s)' = Senders(s), \A x \in Senders(s) : CodeOf(s, x)' = CodeOf(s, x),
           \A h \in Start : h # g => receiver'[s][h] = receiver[s][h],
           health'[s] = health[s], label'[s] = label[s],
           running'[s] <=> receiver[s][g] = "Running",
           queued'[s] <=> queued[s] \/ ~(running[s] <=> running'[s])
    PROVE  Flow(s)'
<1>1. \A h \in Start : /\ Holds(s, h) <=> h = g
                       /\ ~Holds(s, h)'
  BY DEF Flow, Holds
<1>2. SoleSender(s)' <=> SoleSender(s)
  BY DEF SoleSender
<1>3. Shows(s)' <=> Shows(s)
  BY DEF Shows
<1>4. ASSUME SoleSender(s) PROVE InOrder(s)'
  <2>1. InOrder(s)
    BY <1>4 DEF Flow
  <2>2. Senders(s) = {} => (running'[s] <=> Shows(s)')
    BY <1>3, <2>1 DEF InOrder, Shows
  <2>3. \/ queued'[s]
        \/ label'[s] <=> running'[s]
        \/ Senders(s)' # {} /\ ~(Shows(s)' <=> running'[s])
    BY <1>1, <1>3, <2>1 DEF InOrder
  <2>. QED
    BY <1>1, <1>3, <2>1, <2>2, <2>3 DEF InOrder
<1>. QED
  BY <1>1, <1>2, <1>4 DEF Flow

\* A label is written.
LEMMA FlowShows ==
    ASSUME NEW s, Flow(s), Senders(s)' = Senders(s),
           \A x \in Senders(s) : CodeOf(s, x)' = CodeOf(s, x),
           receiver' = receiver, health' = health, running' = running,
           label'[s] <=> Shows(s)
    PROVE  Flow(s)'
<1>1. \A g \in Start : Holds(s, g)' <=> Holds(s, g)
  BY DEF Holds
<1>2. SoleSender(s)' <=> SoleSender(s)
  BY DEF SoleSender
<1>3. Shows(s)' <=> Shows(s)
  BY DEF Shows
<1>4. ASSUME SoleSender(s) PROVE InOrder(s)'
  <2>1. InOrder(s)
    BY <1>4 DEF Flow
  <2>2. CASE label'[s] <=> running'[s]
    BY <1>1, <1>3, <2>1, <2>2 DEF InOrder
  <2>3. CASE Senders(s) # {} /\ ~(label'[s] <=> running'[s])
    BY <1>1, <1>3, <2>1, <2>3 DEF InOrder
  <2>4. CASE Senders(s) = {} /\ ~(label'[s] <=> running'[s])
    <3>1. PICK g \in Start : Holds(s, g)
      BY <2>1, <2>4 DEF InOrder
    <3>2. receiver[s][g] = health[s]
      BY <2>1, <2>4, <3>1 DEF InOrder
    <3>3. Holds(s, g)' /\ ~((receiver'[s][g] = "Running") <=> running'[s])
      BY <2>4, <3>1, <3>2 DEF Shows, Holds
    <3>. QED
      BY <1>1, <1>3, <2>1, <3>3 DEF InOrder
  <2>. QED
    BY <2>2, <2>3, <2>4
<1>. QED
  BY <1>1, <1>2, <1>4 DEF Flow

LEMMA ZeroIsNoStart == 0 \notin Start
BY ControllerAssumption DEF Start

LEMMA SendersFinite ==
    ASSUME NEW s \in Service
    PROVE  IsFiniteSet(Senders(s))
<1>1. IsFiniteSet(0..MaxStarts)
  BY FS_Interval, ControllerAssumption
<1>2. Senders(s) \subseteq 0..MaxStarts
  BY ControllerAssumption DEF Senders, Start
<1>. QED
  BY <1>1, <1>2, FS_Subset

\* Nothing overtakes the code that is received.
LEMMA ReceivesInOrder ==
    ASSUME TypeOK, NEW s \in Service, NEW g \in Start, NEW code, Receive(s, g, code),
           mishaps' = {}, NEW x \in Senders(s)
    PROVE  /\ Senders(s) = {x}
           /\ \A h \in Start : ~Holds(s, h)
           /\ receiver'[s][g] = code
           /\ \A h \in Start : h # g => receiver'[s][h] = receiver[s][h]
           /\ \A t \in Service : t # s => receiver'[t] = receiver[t]
           /\ UNCHANGED <<health, running, queued, label>>
<1>1. /\ ~(Cardinality(Senders(s)) > 1)
      /\ \A h \in Start : ~Holds(s, h)
  BY DEF Receive, Mishaps, Holds
<1>2. Cardinality(Senders(s)) \in Nat /\ Cardinality(Senders(s)) # 0
  BY SendersFinite, FS_CardinalityType, FS_EmptySet
<1>3. Cardinality(Senders(s)) = 1
  BY <1>1, <1>2
<1>4. Senders(s) = {x}
  BY <1>3, SendersFinite, FS_Singleton
<1>5. /\ receiver'[s][g] = code
      /\ \A h \in Start : h # g => receiver'[s][h] = receiver[s][h]
      /\ \A t \in Service : t # s => receiver'[t] = receiver[t]
  BY DEF Receive, TypeOK
<1>6. UNCHANGED <<health, running, queued, label>>
  BY DEF Receive
<1>. QED
  BY <1>1, <1>4, <1>5, <1>6

Unshown(s) == UNCHANGED <<health[s], receiver[s], running[s], queued[s], label[s]>>

LEMMA ConsoleFlowKept ==
    ASSUME Flow("console"), Unshown("console"), prober' = prober
    PROVE  Flow("console")'
<1>1. Senders("console")' = Senders("console")
  BY DEF Senders
<1>2. \A x : CodeOf("console", x)' = CodeOf("console", x)
  BY DEF CodeOf
<1>. QED
  BY <1>1, <1>2, FlowKept DEF Unshown

LEMMA BackendFlowKept ==
    ASSUME Flow("backend"), Unshown("backend"),
           window' = window \/ (window.at # "signal" /\ window'.at # "signal"),
           \A g \in Start : \/ listens'[g] = listens[g]
                            \/ listens[g].at # "signal" /\ listens'[g].at # "signal"
    PROVE  Flow("backend")'
<1>1. Senders("backend")' = Senders("backend")
  BY DEF Senders
<1>2. ASSUME NEW x \in Senders("backend") PROVE CodeOf("backend", x)' = CodeOf("backend", x)
  <2>1. CASE x = 0
    BY <1>2, <2>1, SendersAre, ControllerAssumption DEF CodeOf, Start
  <2>2. CASE x # 0
    BY <1>2, <2>2, SendersAre DEF CodeOf
  <2>. QED
    BY <2>1, <2>2
<1>. QED
  BY <1>1, <1>2, FlowKept DEF Unshown

\* Of Signal's caller: nothing is sent if that is the status already.
LEMMA SignallingIs ==
    ASSUME NEW s, NEW code, NEW place, place # "signal"
    PROVE  /\ health[s] = code => Signalling(s, code, place).at # "signal"
           /\ health[s] # code => /\ Signalling(s, code, place).at = "signal"
                                  /\ Signalling(s, code, place).code = code
<1>1. At(place).at # "signal"
  BY AtIs
<1>. QED
  BY <1>1 DEF Signalling

LEMMA ProberFlow ==
    ASSUME IInv, Flow("console"), NEW g \in Start, prober[g].at # "signal",
           NEW code \in Code, NEW place, place # "signal", ProberSignals(g, code, place)
    PROVE  Flow("console")'
<1>. DEFINE p == Signalling("console", code, place)
<1>1. /\ prober'[g] = p /\ \A h \in Start : h # g => prober'[h] = prober[h]
      /\ health'["console"] = code
      /\ UNCHANGED <<receiver, running, queued, label>>
  BY DEF ProberSignals, SetHealth, shownVars, IInv, TypeOK, Service
<1>2. /\ health["console"] = code => p.at # "signal"
      /\ health["console"] # code => p.at = "signal" /\ p.code = code
  BY SignallingIs
<1>. HIDE DEF p
<1>3. CASE health["console"] = code
  <2>1. Senders("console")' = Senders("console")
    BY <1>1, <1>2, <1>3 DEF Senders
  <2>2. \A x \in Senders("console") : CodeOf("console", x)' = CodeOf("console", x)
    BY <1>1, SendersAre DEF CodeOf
  <2>. QED
    BY <1>1, <1>3, <2>1, <2>2, FlowKept
<1>4. CASE health["console"] # code
  <2>1. Senders("console")' = Senders("console") \cup {g} /\ g \notin Senders("console")
    BY <1>1, <1>2, <1>4 DEF Senders
  <2>2. CodeOf("console", g)' = health'["console"]
    BY <1>1, <1>2, <1>4 DEF CodeOf
  <2>. QED
    BY <1>1, <2>1, <2>2, FlowSignals
<1>. QED
  BY <1>3, <1>4

LEMMA ListensFlow ==
    ASSUME IInv, Flow("backend"), NEW g \in Start, listens[g].at # "signal",
           NEW code \in Code, NEW place, place # "signal",
           listens' = [listens EXCEPT ![g] = Signalling("backend", code, place)],
           SetHealth("backend", code), UNCHANGED <<window, receiver, running, queued, label>>
    PROVE  Flow("backend")'
<1>. DEFINE p == Signalling("backend", code, place)
<1>1. /\ listens'[g] = p /\ \A h \in Start : h # g => listens'[h] = listens[h]
      /\ health'["backend"] = code /\ g # 0
  BY ZeroIsNoStart DEF SetHealth, IInv, TypeOK, Service
<1>2. /\ health["backend"] = code => p.at # "signal"
      /\ health["backend"] # code => p.at = "signal" /\ p.code = code
  BY SignallingIs
<1>. HIDE DEF p
<1>3. CASE health["backend"] = code
  <2>1. \A h \in Start : \/ listens'[h] = listens[h]
                         \/ listens[h].at # "signal" /\ listens'[h].at # "signal"
    BY <1>1, <1>2, <1>3
  <2>. QED
    BY <1>1, <1>3, <2>1, BackendFlowKept DEF Unshown
<1>4. CASE health["backend"] # code
  <2>1. Senders("backend")' = Senders("backend") \cup {g} /\ g \notin Senders("backend")
    BY <1>1, <1>2, <1>4 DEF Senders
  <2>2. CodeOf("backend", g)' = health'["backend"]
    BY <1>1, <1>2, <1>4 DEF CodeOf
  <2>. QED
    BY <2>1, <2>2, FlowSignals
<1>. QED
  BY <1>3, <1>4

LEMMA WindowFlow ==
    ASSUME IInv, Flow("backend"), window.at # "signal",
           NEW code \in Code, NEW place, place # "signal", WindowSignals(code, place),
           \A g \in Start : \/ receiver'["backend"][g] = receiver["backend"][g]
                            \/ ~Holds("backend", g) /\ ~Holds("backend", g)',
           UNCHANGED <<listens, running, queued, label>>
    PROVE  Flow("backend")'
<1>. DEFINE p == Signalling("backend", code, place)
<1>1. window' = p /\ health'["backend"] = code /\ 0 \notin Start
  BY ZeroIsNoStart DEF WindowSignals, SetHealth, IInv, TypeOK, Service
<1>2. /\ health["backend"] = code => p.at # "signal"
      /\ health["backend"] # code => p.at = "signal" /\ p.code = code
  BY SignallingIs
<1>. HIDE DEF p
<1>3. CASE health["backend"] = code
  <2>1. Senders("backend")' = Senders("backend") /\ 0 \notin Senders("backend")
    BY <1>1, <1>2, <1>3 DEF Senders
  <2>2. \A x \in Senders("backend") : CodeOf("backend", x)' = CodeOf("backend", x)
    BY <1>1, <2>1 DEF CodeOf
  <2>. QED
    BY <1>1, <1>3, <2>1, <2>2, FlowKept
<1>4. CASE health["backend"] # code
  <2>1. Senders("backend")' = Senders("backend") \cup {0} /\ 0 \notin Senders("backend")
    BY <1>1, <1>2, <1>4 DEF Senders
  <2>2. CodeOf("backend", 0)' = health'["backend"]
    BY <1>1, <1>2, <1>4 DEF CodeOf
  <2>. QED
    BY <2>1, <2>2, FlowSignals
<1>. QED
  BY <1>3, <1>4

\* A received code, whoever sent it.
LEMMA SignalChangeFlow ==
    ASSUME IInv, NEW s \in Service, NEW g \in Start, SignalChange(s, g), mishaps' = {},
           Flow("console"), Flow("backend")
    PROVE  Flow("console")' /\ Flow("backend")'
<1>1. CASE /\ s = "console"
           /\ \E h \in Start : \E code \in Sent(prober[h]) :
                 /\ Receive(s, g, code)
                 /\ prober' = [prober EXCEPT ![h] = Passed(@)]
           /\ UNCHANGED <<window, listens>>
  <2>1. PICK h \in Start : /\ prober[h].at = "signal"
                           /\ Receive("console", g, prober[h].code)
                           /\ prober' = [prober EXCEPT ![h] = Passed(@)]
    BY <1>1 DEF Sent
  <2>2. h \in Senders("console") /\ CodeOf("console", h) = prober[h].code
    BY <2>1 DEF Senders, CodeOf
  <2>3. /\ Senders("console") = {h}
        /\ \A i \in Start : ~Holds("console", i)
        /\ receiver'["console"][g] = prober[h].code
        /\ \A i \in Start : i # g => receiver'["console"][i] = receiver["console"][i]
        /\ receiver'["backend"] = receiver["backend"]
        /\ UNCHANGED <<health, running, queued, label>>
    BY <2>1, <2>2, ReceivesInOrder DEF IInv, Service
  <2>4. /\ prober[h].then # "signal" /\ prober[h].code \in Code
        /\ prober'[h] = At(prober[h].then)
        /\ \A i \in Start : i # h => prober'[i] = prober[i]
    BY <2>1, SenderTypes DEF IInv, Passed
  <2>5. prober'[h].at # "signal"
    BY <2>4, AtIs
  <2>6. Senders("console")' = {}
    BY <2>3, <2>4, <2>5 DEF Senders
  <2>7. Flow("console")'
    BY <2>2, <2>3, <2>4, <2>6, FlowReceives
  <2>8. Flow("backend")'
    BY <1>1, <2>3, BackendFlowKept DEF Unshown
  <2>. QED
    BY <2>7, <2>8
<1>2. CASE /\ s = "backend"
           /\ \E code \in Sent(window) : Receive(s, g, code)
           /\ window' = Passed(window)
           /\ UNCHANGED <<prober, listens>>
  <2>1. window.at = "signal" /\ Receive("backend", g, window.code) /\ window' = At(window.then)
    BY <1>2 DEF Sent, Passed
  <2>2. 0 \in Senders("backend") /\ CodeOf("backend", 0) = window.code
    BY <2>1 DEF Senders, CodeOf
  <2>3. /\ Senders("backend") = {0}
        /\ \A i \in Start : ~Holds("backend", i)
        /\ receiver'["backend"][g] = window.code
        /\ \A i \in Start : i # g => receiver'["backend"][i] = receiver["backend"][i]
        /\ receiver'["console"] = receiver["console"]
        /\ UNCHANGED <<health, running, queued, label>>
    BY <2>1, <2>2, ReceivesInOrder DEF IInv, Service
  <2>4. window.then # "signal" /\ window.code \in Code
    BY SenderTypes DEF IInv
  <2>5. window'.at # "signal"
    BY <2>1, <2>4, AtIs
  <2>6. Senders("backend")' = {}
    BY <1>2, <2>3, <2>5, ZeroIsNoStart DEF Senders
  <2>7. Flow("backend")'
    BY <2>2, <2>3, <2>4, <2>6, FlowReceives
  <2>8. Flow("console")'
    BY <1>2, <2>3, ConsoleFlowKept DEF Unshown
  <2>. QED
    BY <2>7, <2>8
<1>3. CASE /\ s = "backend"
           /\ \E h \in Start : \E code \in Sent(listens[h]) :
                 /\ Receive(s, g, code)
                 /\ listens' = [listens EXCEPT ![h] = Passed(@)]
           /\ UNCHANGED <<prober, window>>
  <2>1. PICK h \in Start : /\ listens[h].at = "signal"
                           /\ Receive("backend", g, listens[h].code)
                           /\ listens' = [listens EXCEPT ![h] = Passed(@)]
    BY <1>3 DEF Sent
  <2>2. h \in Senders("backend") /\ CodeOf("backend", h) = listens[h].code
    BY <2>1, ZeroIsNoStart DEF Senders, CodeOf
  <2>3. /\ Senders("backend") = {h}
        /\ \A i \in Start : ~Holds("backend", i)
        /\ receiver'["backend"][g] = listens[h].code
        /\ \A i \in Start : i # g => receiver'["backend"][i] = receiver["backend"][i]
        /\ receiver'["console"] = receiver["console"]
        /\ UNCHANGED <<health, running, queued, label>>
    BY <2>1, <2>2, ReceivesInOrder DEF IInv, Service
  <2>4. /\ listens[h].then # "signal" /\ listens[h].code \in Code
        /\ listens'[h] = At(listens[h].then)
        /\ \A i \in Start : i # h => listens'[i] = listens[i]
    BY <2>1, SenderTypes DEF IInv, Passed
  <2>5. listens'[h].at # "signal"
    BY <2>4, AtIs
  <2>6. Senders("backend")' = {}
    <3>1. window.at # "signal"
      BY <2>3, SendersAre, ZeroIsNoStart
    <3>2. \A i \in Start : listens'[i].at # "signal"
      BY <2>3, <2>4, <2>5, SendersAre
    <3>. QED
      BY <1>3, <3>1, <3>2 DEF Senders
  <2>7. Flow("backend")'
    BY <2>2, <2>3, <2>4, <2>6, FlowReceives
  <2>8. Flow("console")'
    BY <1>3, <2>3, ConsoleFlowKept DEF Unshown
  <2>. QED
    BY <2>7, <2>8
<1>. QED
  BY <1>1, <1>2, <1>3 DEF SignalChange

\* The two services are shown apart.
LEMMA SetRunningFlow ==
    ASSUME IInv, NEW s \in Service, NEW g \in Start, SetRunning(s, g),
           Flow("console"), Flow("backend")
    PROVE  Flow("console")' /\ Flow("backend")'
<1>1. /\ UNCHANGED <<prober, listens, window, health, label>>
      /\ Holds(s, g)
  BY DEF SetRunning, consoleVars, backendVars, Holds
<1>2. /\ receiver'[s][g] = "idle"
      /\ \A h \in Start : h # g => receiver'[s][h] = receiver[s][h]
      /\ \A t \in Service : t # s => receiver'[t] = receiver[t]
  BY DEF SetRunning, IInv, TypeOK
<1>. queued \in [Service -> BOOLEAN] /\ running \in [Service -> BOOLEAN]
  BY DEF IInv, TypeOK
<1>3. /\ running'[s] <=> receiver[s][g] = "Running"
      /\ \A t \in Service : t # s => running'[t] = running[t]
  BY Zenon DEF SetRunning
<1>4. /\ queued'[s] <=> queued[s] \/ running[s] # (receiver[s][g] = "Running")
      /\ \A t \in Service : t # s => queued'[t] = queued[t]
  BY Zenon DEF SetRunning
<1>5. running[s] # (receiver[s][g] = "Running") <=> ~(running[s] <=> running'[s])
  <2>1. running[s] \in BOOLEAN
    BY DEF IInv, TypeOK
  <2>. QED
    BY <1>3, <2>1
<1>6. ~Holds(s, g)'
  BY <1>2 DEF Holds, Code
<1>7. Senders(s)' = Senders(s) /\ \A x : CodeOf(s, x)' = CodeOf(s, x)
  BY <1>1 DEF Senders, CodeOf
<1>8. Flow(s)'
  BY <1>1, <1>2, <1>3, <1>4, <1>5, <1>6, <1>7, FlowSets DEF Service
<1>9. CASE s = "console"
  <2>1. Unshown("backend")
    BY <1>1, <1>2, <1>3, <1>4, <1>9 DEF Unshown, Service
  <2>. QED
    BY <1>1, <1>8, <1>9, <2>1, BackendFlowKept
<1>10. CASE s = "backend"
  <2>1. Unshown("console")
    BY <1>1, <1>2, <1>3, <1>4, <1>10 DEF Unshown, Service
  <2>. QED
    BY <1>1, <1>8, <1>10, <2>1, ConsoleFlowKept
<1>. QED
  BY <1>9, <1>10 DEF Service

LEMMA ShowStatusFlow ==
    ASSUME IInv, NEW s \in Service, ShowStatus(s), Flow("console"), Flow("backend")
    PROVE  Flow("console")' /\ Flow("backend")'
<1>1. UNCHANGED <<prober, listens, window, health, receiver, running>>
  BY DEF ShowStatus, consoleVars, backendVars
<1>. queued \in [Service -> BOOLEAN] /\ label \in [Service -> BOOLEAN]
  BY DEF IInv, TypeOK
<1>. /\ queued' = [queued EXCEPT ![s] = FALSE]
     /\ label' = [label EXCEPT ![s] = Shows(s)]
  BY DEF ShowStatus
<1>2. label'[s] <=> Shows(s)
  BY Zenon
<1>3. \A t \in Service : t # s => queued'[t] = queued[t] /\ label'[t] = label[t]
  BY Zenon
<1>4. Senders(s)' = Senders(s) /\ \A x : CodeOf(s, x)' = CodeOf(s, x)
  BY <1>1 DEF Senders, CodeOf
<1>5. Flow(s)'
  BY <1>1, <1>2, <1>4, FlowShows DEF Service
<1>6. CASE s = "console"
  <2>1. Unshown("backend")
    BY <1>1, <1>3, <1>6 DEF Unshown, Service
  <2>. QED
    BY <1>1, <1>5, <1>6, <2>1, BackendFlowKept
<1>7. CASE s = "backend"
  <2>1. Unshown("console")
    BY <1>1, <1>3, <1>7 DEF Unshown, Service
  <2>. QED
    BY <1>1, <1>5, <1>7, <2>1, ConsoleFlowKept
<1>. QED
  BY <1>6, <1>7 DEF Service

\* A start: its receiver waits, and its prober has sent nothing.
LEMMA StartFlow ==
    ASSUME IInv, Fresh, StartConsole \/ StartBackend, Flow("console"), Flow("backend")
    PROVE  Flow("console")' /\ Flow("backend")'
<1>1. ASSUME NEW s \in Service, Launch(s), starts[s] < MaxStarts
      PROVE  /\ starts[s] + 1 \in Start /\ starts[s] + 1 > starts[s]
             /\ \A g \in Start : \/ receiver'[s][g] = receiver[s][g]
                                 \/ ~Holds(s, g) /\ ~Holds(s, g)'
             /\ \A t \in Service : t # s => receiver'[t] = receiver[t]
             /\ UNCHANGED <<running, queued, label>>
  <2>1. PICK n : n = starts[s] + 1
    OBVIOUS
  <2>2. n \in Start /\ n > starts[s]
    BY <1>1, <2>1, LaunchTypeOK, InRange DEF IInv
  <2>3. receiver[s][n] = "none"
    BY <2>2 DEF IInv, TypeOK
  <2>4. /\ receiver'[s][n] = "idle" /\ \A g \in Start : g # n => receiver'[s][g] = receiver[s][g]
        /\ \A t \in Service : t # s => receiver'[t] = receiver[t]
    BY <1>1, <2>1, <2>2 DEF Launch, IInv, TypeOK
  <2>. QED
    BY <1>1, <2>1, <2>2, <2>3, <2>4 DEF Launch, Holds, Code
<1>2. CASE StartConsole
  <2>1. Launch("console") /\ starts["console"] < MaxStarts /\ "console" \in Service
    BY <1>2 DEF StartConsole, CanStart, Service
  <2>2. PICK n : n = starts["console"] + 1
    OBVIOUS
  <2>3. /\ n \in Start /\ prober[n].at = "none"
        /\ prober' = [prober EXCEPT ![n] = At("starting")]
    BY <1>1, <1>2, <2>1, <2>2 DEF Fresh, StartConsole
  <2>4. \A h \in Start : \/ prober'[h] = prober[h]
                         \/ prober[h].at # "signal" /\ prober'[h].at # "signal"
    BY <2>3, AtIs DEF IInv, TypeOK
  <2>5. /\ Senders("console")' = Senders("console")
        /\ \A x \in Senders("console") : CodeOf("console", x)' = CodeOf("console", x)
    BY <2>4 DEF Senders, CodeOf
  <2>6. UNCHANGED <<health, listens, window>>
    BY <1>2 DEF StartConsole, backendVars
  <2>7. Flow("console")'
    BY <1>1, <2>1, <2>5, <2>6, FlowKept
  <2>8. Flow("backend")'
    BY <1>1, <2>1, <2>6, BackendFlowKept DEF Unshown, Service
  <2>. QED
    BY <2>7, <2>8
<1>3. CASE StartBackend
  <2>1. Launch("backend") /\ starts["backend"] < MaxStarts /\ "backend" \in Service
    BY <1>3 DEF StartBackend, CanStart, Service
  <2>2. /\ window = At("idle") /\ UNCHANGED <<prober, listens>>
        /\ \/ UNCHANGED <<window, health>>
           \/ WindowSignals("Running", "listen")
    BY <1>3 DEF StartBackend, BackendStart, CanStart, consoleVars
  <2>3. health'["console"] = health["console"]
    BY <2>2 DEF WindowSignals, SetHealth, IInv, TypeOK, Service
  <2>4. Flow("console")'
    BY <1>1, <2>1, <2>2, <2>3, ConsoleFlowKept DEF Unshown, Service
  <2>5. window.at # "signal"
    BY <2>2, AtIs
  <2>6. CASE UNCHANGED <<window, health>>
    <3>1. /\ Senders("backend")' = Senders("backend")
          /\ \A x : CodeOf("backend", x)' = CodeOf("backend", x)
      BY <2>2, <2>6 DEF Senders, CodeOf
    <3>. QED
      BY <1>1, <2>1, <2>4, <2>6, <3>1, FlowKept
  <2>7. CASE WindowSignals("Running", "listen")
    BY <1>1, <2>1, <2>2, <2>4, <2>5, <2>7, WindowFlow DEF Code
  <2>. QED
    BY <2>2, <2>6, <2>7
<1>. QED
  BY <1>2, <1>3

LEMMA FlowNext ==
    ASSUME IInv, Fresh, Flow("console"), Flow("backend"), [Next]_vars, mishaps' = {}
    PROVE  Flow("console")' /\ Flow("backend")'
<1>1. CASE StartConsole \/ StartBackend
  BY <1>1, StartFlow
<1>2. CASE \/ StopStartupProbe
           \/ \E g \in Start : CheckSucceeds(g) \/ CheckGivesUp(g) \/ CheckFails(g)
  <2>1. \/ UNCHANGED <<prober, health, listens, window, receiver, running, queued, label>>
        \/ \E g \in Start, code \in Code, place \in {"running", "ended"} :
              /\ prober[g].at # "signal" /\ ProberSignals(g, code, place)
              /\ window' = window \/ (window.at = "stop probe" /\ window' = At("stop"))
    <3>1. CASE StopStartupProbe
      <4>1. starts["console"] \in Start
        BY <3>1, ConsoleInStart
           DEF StopStartupProbe, IInv, Inv, StoppingConsole, ConsoleIsLatest
      <4>. QED
        BY <3>1, <4>1 DEF StopStartupProbe, consoleVars, backendVars, shownVars, Code
    <3>2. CASE \E g \in Start : CheckSucceeds(g) \/ CheckGivesUp(g) \/ CheckFails(g)
      BY <3>2 DEF CheckSucceeds, CheckGivesUp, CheckFails, Code
    <3>. QED
      BY <1>2, <3>1, <3>2
  <2>2. CASE UNCHANGED <<prober, health, listens, window, receiver, running, queued, label>>
    BY <2>2, ConsoleFlowKept, BackendFlowKept DEF Unshown
  <2>3. ASSUME NEW g \in Start, NEW code \in Code, NEW place \in {"running", "ended"},
               prober[g].at # "signal", ProberSignals(g, code, place),
               window' = window \/ (window.at = "stop probe" /\ window' = At("stop"))
        PROVE  Flow("console")' /\ Flow("backend")'
    <3>1. Flow("console")'
      BY <2>3, ProberFlow
    <3>2. /\ UNCHANGED <<listens, receiver, running, queued, label>>
          /\ health'["backend"] = health["backend"]
      BY <2>3 DEF ProberSignals, SetHealth, backendVars, shownVars, IInv, TypeOK, Service
    <3>3. window' = window \/ (window.at # "signal" /\ window'.at # "signal")
      BY <2>3, AtIs
    <3>. QED
      BY <3>1, <3>2, <3>3, BackendFlowKept DEF Unshown
  <2>. QED
    BY <2>1, <2>2, <2>3
<1>3. CASE StopBackend \/ Shutdown
  <2>1. PICK code \in Code, place \in {"shut down", "idle"} : WindowSignals(code, place)
    BY <1>3 DEF StopBackend, Shutdown, Code
  <2>2. /\ UNCHANGED <<prober, listens, receiver, running, queued, label>>
        /\ window = At("idle") \/ window.at = "shut down"
    BY <1>3 DEF StopBackend, Shutdown, BackendStep, consoleVars, shownVars
  <2>3. window.at # "signal"
    BY <2>2, AtIs
  <2>4. health'["console"] = health["console"]
    BY <2>1 DEF WindowSignals, SetHealth, IInv, TypeOK, Service
  <2>5. Flow("console")'
    BY <2>2, <2>4, ConsoleFlowKept DEF Unshown
  <2>6. Flow("backend")'
    BY <2>1, <2>2, <2>3, WindowFlow
  <2>. QED
    BY <2>5, <2>6
<1>4. CASE \E g \in Start : ListenReturns(g)
  <2>1. PICK g \in Start : ListenReturns(g)
    BY <1>4
  <2>2. /\ UNCHANGED <<prober, window, receiver, running, queued, label>>
        /\ listens[g].at # "signal" /\ SetHealth("backend", "NotRunning")
        /\ listens' = [listens EXCEPT ![g] = Signalling("backend", "NotRunning", "ended")]
    BY <2>1 DEF ListenReturns, BackendStep, consoleVars, shownVars
  <2>3. health'["console"] = health["console"]
    BY <2>2 DEF SetHealth, IInv, TypeOK, Service
  <2>4. Flow("console")'
    BY <2>2, <2>3, ConsoleFlowKept DEF Unshown
  <2>5. Flow("backend")'
    BY <2>2, ListensFlow DEF Code
  <2>. QED
    BY <2>4, <2>5
<1>5. CASE StartListening \/ \E g \in Start : Listen(g)
  <2>1. /\ UNCHANGED <<prober, health, receiver, running, queued, label>>
        /\ window' = window \/ (window.at = "listen" /\ window' = At("idle"))
    BY <1>5 DEF StartListening, Listen, BackendStep, consoleVars, shownVars
  <2>2. window' = window \/ (window.at # "signal" /\ window'.at # "signal")
    BY <2>1, AtIs
  <2>3. ASSUME NEW h \in Start
        PROVE  \/ listens'[h] = listens[h]
               \/ listens[h].at # "signal" /\ listens'[h].at # "signal"
    <3>1. CASE StartListening
      <4>1. listens' = [listens EXCEPT ![backend] = At("launched")] /\ window.at = "listen"
        BY <3>1 DEF StartListening
      <4>2. listens[backend].at = "none"
        BY <4>1 DEF Fresh, WindowPlace
      <4>3. listens'[h] = IF h = backend THEN At("launched") ELSE listens[h]
        BY <4>1 DEF IInv, TypeOK
      <4>. QED
        BY <4>2, <4>3, AtIs
    <3>2. ASSUME NEW g \in Start, Listen(g)
          PROVE  \/ listens'[h] = listens[h]
                 \/ listens[h].at # "signal" /\ listens'[h].at # "signal"
      <4>1. /\ listens[g].at = "launched"
            /\ listens' = listens \/ listens' = [listens EXCEPT ![g] = At("listening")]
        BY <3>2 DEF Listen
      <4>2. listens'[h] = listens[h] \/ (h = g /\ listens'[h] = At("listening"))
        BY <4>1 DEF IInv, TypeOK
      <4>. QED
        BY <4>1, <4>2, AtIs
    <3>. QED
      BY <1>5, <3>1, <3>2
  <2>. QED
    BY <2>1, <2>2, <2>3, ConsoleFlowKept, BackendFlowKept DEF Unshown
<1>6. CASE StopConsole \/ ConsoleStop \/ ConsoleStopped
  <2>1. /\ UNCHANGED <<prober, listens, health, receiver, running, queued, label>>
        /\ window = At("idle") \/ window.at \in {"stop", "drain"}
        /\ window' = window \/ \E p \in {"stop probe", "drain", "idle"} : window' = At(p)
    BY <1>6 DEF StopConsole, ConsoleStop, ConsoleStopped, ConsoleStep, consoleVars,
                backendVars, shownVars
  <2>2. window.at # "signal" /\ (window' = window \/ window'.at # "signal")
    BY <2>1, AtIs
  <2>. QED
    BY <2>1, <2>2, ConsoleFlowKept, BackendFlowKept DEF Unshown
<1>7. CASE \E s \in Service, g \in Start : SignalChange(s, g)
  BY <1>7, SignalChangeFlow
<1>8. CASE \E s \in Service, g \in Start : SetRunning(s, g)
  BY <1>8, SetRunningFlow
<1>9. CASE \E s \in Service : ShowStatus(s)
  BY <1>9, ShowStatusFlow
<1>10. CASE \/ \E g \in Start : Serve(g) \/ ListenAndServe(g) \/ Run(g) \/ RunEnds(g)
            \/ UNCHANGED vars
  <2>1. UNCHANGED <<prober, listens, window, health, receiver, running, queued, label>>
    BY <1>10 DEF Serve, ListenAndServe, Run, RunEnds, ConsoleStep, vars, consoleVars,
                 backendVars, shownVars
  <2>. QED
    BY <2>1, ConsoleFlowKept, BackendFlowKept DEF Unshown
<1>11. CASE \E g \in Start : FindListener(g) \/ Accept(g)
  <2>1. /\ UNCHANGED <<prober, window, health, receiver, running, queued, label>>
        /\ \A h \in Start : \/ listens'[h] = listens[h]
                            \/ /\ listens[h].at \in {"listening", "found"}
                               /\ listens'[h] \in {At("listening"), At("found")}
    BY <1>11, TurnIs DEF IInv
  <2>2. At("listening").at = "listening" /\ At("found").at = "found"
    BY AtIs
  <2>3. \A h \in Start : \/ listens'[h] = listens[h]
                         \/ listens[h].at # "signal" /\ listens'[h].at # "signal"
    BY <2>1, <2>2
  <2>. QED
    BY <2>1, <2>3, ConsoleFlowKept, BackendFlowKept DEF Unshown
<1>. QED
  BY <1>1, <1>2, <1>3, <1>4, <1>5, <1>6, <1>7, <1>8, <1>9, <1>10, <1>11 DEF Next

LEMMA LabelNext == LabelInv /\ [Next]_vars => LabelInv'
<1>. SUFFICES ASSUME LabelInv, [Next]_vars PROVE LabelInv'
  OBVIOUS
<1>1. IInv' /\ Fresh'
  BY NextInv, FreshNext DEF LabelInv
<1>2. ASSUME mishaps' = {} PROVE Calm'
  <2>1. IInv /\ Fresh /\ Calm
    BY <1>2, MishapsRemain DEF LabelInv
  <2>2. ConsoleHealth /\ BackendHealth /\ Flow("console") /\ Flow("backend")
    BY <2>1 DEF Calm, Service
  <2>3. ConsoleHealth' /\ BackendHealth'
    BY <1>2, <2>1, <2>2, ConsoleHealthNext, BackendHealthNext
  <2>4. Flow("console")' /\ Flow("backend")'
    BY <1>2, <2>1, <2>2, FlowNext
  <2>. QED
    BY <2>3, <2>4 DEF Calm, Service
<1>. QED
  BY <1>1, <1>2 DEF LabelInv

LEMMA LabelInit == Init => LabelInv
<1>. SUFFICES ASSUME Init PROVE LabelInv
  OBVIOUS
<1>1. At("idle").at = "idle" /\ At("none").at = "none"
  BY AtIs
<1>2. /\ window.at = "idle" /\ console = 0 /\ backend = 0
      /\ \A g \in Start : /\ prober[g].at = "none" /\ listens[g].at = "none"
                          /\ server[g] = "none" /\ listener[g] = "none"
  BY <1>1 DEF Init
<1>3. \A s \in Service : /\ health[s] = "NotRunning" /\ ~running[s] /\ ~label[s]
                         /\ \A g \in Start : receiver[s][g] = "none"
  BY DEF Init
<1>4. Fresh /\ ConsoleHealth /\ BackendHealth
  BY <1>2, <1>3 DEF Fresh, ConsoleHealth, BackendHealth, Place, WindowPlace, Service
<1>5. ASSUME NEW s \in Service PROVE Flow(s)
  <2>1. Senders(s) = {}
    BY <1>2 DEF Senders
  <2>2. \A g \in Start : ~Holds(s, g)
    BY <1>3 DEF Holds, Code
  <2>. QED
    BY <1>3, <2>1, <2>2 DEF Flow, InOrder, Shows
<1>. QED
  BY <1>4, <1>5, InitInv DEF LabelInv, Calm

LEMMA LabelInvariance == Spec => []LabelInv
BY LabelInit, LabelNext, PTL DEF Spec

\* What nothing is on its way to change.
LEMMA SettledLabel ==
    ASSUME IInv, NEW s \in Service, Flow(s), Settled(s)
    PROVE  label[s] <=> Shows(s)
<1>1. window.at = "idle"
  BY AtIs DEF Settled
<1>2. \A g \in Start : prober[g].at # "signal" /\ listens[g].at # "signal"
  BY DEF Settled
<1>3. Senders(s) = {}
  BY <1>1, <1>2 DEF Senders
<1>4. \A g \in Start : ~Holds(s, g)
  BY DEF Settled, Holds, Code
<1>5. InOrder(s)
  BY <1>3 DEF Flow, SoleSender
<1>6. ~queued[s]
  BY DEF Settled
<1>. QED
  BY <1>3, <1>4, <1>5, <1>6 DEF InOrder

LEMMA LabelsAreRight == LabelInv => LabelsAgree
<1>. SUFFICES ASSUME LabelInv, NEW s \in Service, mishaps = {}, Settled(s)
              PROVE  label[s] <=> Up(s)
  BY DEF LabelsAgree
<1>1. IInv /\ Fresh /\ ConsoleHealth /\ BackendHealth /\ Flow(s)
  BY DEF LabelInv, Calm
<1>2. label[s] <=> health[s] = "Running"
  BY <1>1, SettledLabel DEF Shows
<1>3. window.at = "idle"
  BY AtIs DEF Settled
<1>4. CASE s = "console"
  <2>1. \A g \in Start : prober[g].at \notin {"starting", "signal"}
    BY DEF Settled
  <2>2. ASSUME NEW g \in Start, server[g] = "listening" PROVE health["console"] = "Running"
    <3>1. g = console /\ console # 0
      BY <1>1, <2>2, ZeroIsNoStart DEF ConsoleHealth
    <3>2. Place(g) = "running"
      BY <1>1, <1>3, <2>1, <3>1 DEF ConsoleHealth, Place
    <3>. QED
      BY <1>1, <3>2 DEF ConsoleHealth
  <2>3. health["console"] = "Running" => \E g \in Start : server[g] = "listening"
    BY <1>1 DEF ConsoleHealth
  <2>. QED
    BY <1>2, <1>4, <2>2, <2>3 DEF Up
<1>5. CASE s = "backend"
  <2>1. WindowPlace # "shut down"
    BY <1>3 DEF WindowPlace
  <2>. QED
    BY <1>1, <1>2, <1>5, <2>1 DEF Up, BackendHealth
<1>. QED
  BY <1>4, <1>5 DEF Service

\* Once nothing is on its way a label says "Running" exactly when a server
\* listens, for any number of starts, unless signals of two starts have met or
\* a start was undone before it was over (controller.go StartConsole,
\* StartBackend; probe.go Signal).
THEOREM LabelsTellTheTruth == Spec => []LabelsAgree
BY LabelInvariance, LabelsAreRight, PTL

=============================================================================
