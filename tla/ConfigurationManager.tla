------------------------ MODULE ConfigurationManager ------------------------
(***************************************************************************)
(* The configuration_manager node.  The threads of the spinner execute the *)
(* services start_configuration, stop_configuration and                    *)
(* list_configurations; the main thread initialises the node, then polls   *)
(* the hardware of the running configuration 100 times per second and      *)
(* stops the configuration when a driver is in error or SIGINT arrived.    *)
(* m_callback_mutex is held by whoever is inside a callback; the main      *)
(* thread takes it once to look at the drivers (isOk) and again to stop.   *)
(*                                                                         *)
(* callback(), the transition from one configuration to the next, is split *)
(* into its phases, and those into one step per hardware interface, as the *)
(* control loops of the drivers go on (and fail) meanwhile.                *)
(***************************************************************************)
EXTENDS ConfigurationLoader

CONSTANTS
  Names,        (* names of configurations                                 *)
  Defs,         (* the definitions a name may have on the parameter server *)
  Clients,      (* the spinner threads that serve requests                 *)
  Main,         (* the main thread                                         *)
  NoThread,     (* nobody holds m_callback_mutex                           *)
  Undefined,    (* a name that is not among the configurations             *)
  NoRequest,    (* the thread serves nothing                               *)
  MaxRequests,  (* bound on the service calls in a behaviour               *)
  MaxEdits      (* bound on the changes to the parameter server            *)

(* Clients may ask for any string: a listed name, or one of the two values *)
(* m_active_configuration_name has without a configuration of that name.   *)
(* The strictness of a request is left out: nothing before the controller  *)
(* managers looks at it.                                                   *)
StartRequest == [kind : {"start"}, name : Names \cup {"", "None"}]
StopRequest == [kind : {"stop"}, name : {""}]
MainStop == [kind |-> "stop", name |-> ""]

ASSUME ManagerAssumption ==
  /\ Main \notin Clients
  /\ NoThread \notin Clients \cup {Main}
  /\ Defs \subseteq Components
  /\ Undefined \notin Components
  /\ Names \cap {"", "None"} = {}
  /\ NoRequest \notin StartRequest \cup StopRequest \cup {MainStop}
  /\ MaxRequests \in Nat
  /\ MaxEdits \in Nat

VARIABLES
  active,          (* m_active_configuration_name                          *)
  configurations,  (* m_configurations                                     *)
  server,          (* parameter control_configurations                     *)
  lock,            (* who holds m_callback_mutex                           *)
  phase,           (* how far the callback in progress got                 *)
  next,            (* its next_configuration                               *)
  toLoad,          (* its hw_to_load_names                                 *)
  toUnload,        (* its hw_to_unload_names                               *)
  todo,            (* hardware the phase has still to treat                *)
  ok,              (* the conjunction of what the parallel calls returned  *)
  outcome,         (* what the last callback() returned                    *)
  request,         (* request[t]: the service call thread t executes       *)
  main,            (* where the main thread is                             *)
  signal,          (* gotExitSignal()                                      *)
  node,            (* the process                                          *)
  requests, edits  (* how many there were                                  *)

callbackVars == <<phase, next, toLoad, toUnload, todo, ok>>
envVars == <<server, signal, requests, edits>>
vars == <<loaderVars, active, configurations, lock, callbackVars, outcome,
          request, main, node, envVars>>

Threads == Clients \cup {Main}
Phases == {"idle", "purge", "load", "start", "stop", "unload"}
Configuration == [name : Names \cup {""}, components : Components]
EmptyConfiguration == [name |-> "", components |-> NoComponents]

(* What a thread may be serving.                                           *)
Request == StartRequest \cup StopRequest \cup {MainStop, NoRequest}

TypeOK ==
  /\ drivers \in SUBSET Hw
  /\ cmi \in SUBSET drivers
  /\ state \in [Hw -> StatusHw]
  /\ loaded \in [Hw -> SUBSET Ctrl]
  /\ running \in Configuration
  /\ active \in Names \cup {"", "None"}
  /\ configurations \in [Names -> Defs \cup {Undefined}]
  /\ server \in [Names -> Defs \cup {Undefined}]
  /\ lock \in Threads \cup {NoThread}
  /\ phase \in Phases
  /\ next \in Configuration
  /\ toLoad \in SUBSET Hw
  /\ toUnload \in SUBSET Hw
  /\ todo \in SUBSET Hw
  /\ ok \in BOOLEAN
  /\ outcome \in {"none", "ok", "failed"}
  /\ request \in [Threads -> Request]
  /\ main \in {"init", "check", "signal", "faultStop", "signalStop"}
  /\ signal \in BOOLEAN
  /\ node \in {"up", "leaving", "down", "crashed"}
  /\ requests \in 0 .. MaxRequests
  /\ edits \in 0 .. MaxEdits

(* Services are advertised first thing in init(), so the requests that     *)
(* follow may arrive before the configurations are read.                   *)
Init ==
  /\ LoaderInit
  /\ active = "None"
  /\ configurations = [n \in Names |-> Undefined]
  /\ server \in [Names -> Defs]
  /\ lock = NoThread
  /\ phase = "idle"
  /\ next = EmptyConfiguration
  /\ toLoad = {}
  /\ toUnload = {}
  /\ todo = {}
  /\ ok = TRUE
  /\ outcome = "none"
  /\ request = [t \in Threads |-> NoRequest]
  /\ main = "init"
  /\ signal = FALSE
  /\ node = "up"
  /\ requests = 0
  /\ edits = 0

(* Spinner threads go on until the ConfigurationManager is gone.           *)
Serving == node \in {"up", "leaving"}

-----------------------------------------------------------------------------
(* The end of a callback: the mutex is released, the locals are gone.  The *)
(* main thread goes on according to what it asked the stop for and got.    *)
(* Mutant: the main thread goes on polling whatever its stop returned.     *)
GoOnAfterMainStop(result) == main' = "signal" /\ node' = node

AfterMainStop(result) ==
  IF main = "faultStop" /\ result = "ok"
  THEN main' = "signal" /\ node' = node
  ELSE main' = main /\ node' = "leaving"

Return(result) ==
  /\ lock' = NoThread
  /\ phase' = "idle"
  /\ next' = EmptyConfiguration
  /\ toLoad' = {}
  /\ toUnload' = {}
  /\ todo' = {}
  /\ ok' = TRUE
  /\ outcome' = result
  /\ request' = [request EXCEPT ![lock] = NoRequest]
  /\ IF lock = Main THEN AfterMainStop(result) ELSE UNCHANGED <<main, node>>

(* The service answers without having called callback().                   *)
Answer(t) ==
  /\ request' = [request EXCEPT ![t] = NoRequest]
  /\ UNCHANGED <<loaderVars, active, configurations, lock, callbackVars,
                 outcome, main, node, envVars>>

(* Mutant: nothing active is loaded again after a purge.                   *)
EnterForgettingActive(t, configuration) ==
  /\ lock' = t
  /\ next' = configuration
  /\ ok' = TRUE
  /\ toUnload' = HwNames(running) \ HwNames(configuration)
  /\ toLoad' = HwNames(configuration) \ HwNames(running)
  /\ IF HwNames(running) = drivers
     THEN phase' = "load" /\ todo' = HwNames(configuration) \ HwNames(running)
     ELSE phase' = "purge" /\ todo' = drivers
  /\ UNCHANGED <<loaderVars, active, configurations, outcome, request, main,
                 node, envVars>>

(***************************************************************************)
(* The beginning of callback(): what is to be loaded and unloaded is       *)
(* decided from running_configuration_, and everything is purged first if  *)
(* drivers_ holds something else than the running configuration.  After a  *)
(* purge the active hardware is loaded again, even if it is unloaded next. *)
(***************************************************************************)
EnterCallback(t, configuration) ==
  LET activeHw == HwNames(running)
      nextHw == HwNames(configuration)
  IN /\ lock' = t
     /\ next' = configuration
     /\ ok' = TRUE
     /\ toUnload' = activeHw \ nextHw
     /\ IF activeHw = drivers
        THEN /\ phase' = "load"
             /\ toLoad' = nextHw \ activeHw
             /\ todo' = nextHw \ activeHw
        ELSE /\ phase' = "purge"
             /\ toLoad' = activeHw \cup nextHw
             /\ todo' = drivers
     /\ UNCHANGED <<loaderVars, active, configurations, outcome, request,
                    main, node, envVars>>

(* Mutant: the services do not take the mutex.                             *)
GrantedAtOnce(t, kind) ==
  /\ Serving
  /\ request[t] # NoRequest
  /\ request[t].kind = kind

(* startCallback() and stopCallback() begin once the mutex is free.        *)
Granted(t, kind) ==
  /\ Serving
  /\ lock = NoThread
  /\ request[t] # NoRequest
  /\ request[t].kind = kind

AlreadyActive(t) ==
  /\ Granted(t, "start")
  /\ request[t].name = active
  /\ Answer(t)

NotListed(t) ==
  /\ Granted(t, "start")
  /\ request[t].name # active
  /\ request[t].name \in Names => configurations[request[t].name] = Undefined
  /\ Answer(t)

Listed(t) ==
  /\ request[t].name # active
  /\ request[t].name \in Names
  /\ configurations[request[t].name] # Undefined

StartConfiguration(t) ==
  /\ Granted(t, "start")
  /\ Listed(t)
  /\ EnterCallback(t, [name |-> request[t].name,
                       components |-> configurations[request[t].name]])

(* The parameters of a hardware or a controller are not on the server: the *)
(* callback returns before it touched anything.                            *)
ParamsMissing(t) ==
  /\ Granted(t, "start")
  /\ Listed(t)
  /\ DOMAIN configurations[request[t].name] # {}
  /\ outcome' = "failed"
  /\ request' = [request EXCEPT ![t] = NoRequest]
  /\ UNCHANGED <<loaderVars, active, configurations, lock, callbackVars,
                 main, node, envVars>>

StopConfiguration(t) ==
  /\ Granted(t, "stop")
  /\ EnterCallback(t, EmptyConfiguration)

-----------------------------------------------------------------------------
(* The phases of callback(), executed by the thread that holds the mutex.  *)
Stay == UNCHANGED <<active, configurations, lock, phase, next, toLoad, toUnload,
                    outcome, request, main, node, envVars>>

(* Mutant: an early return that keeps the mutex.                           *)
FailWithMutex ==
  /\ phase' = "idle"
  /\ request' = [request EXCEPT ![lock] = NoRequest]
  /\ outcome' = "failed"
  /\ UNCHANGED <<active, configurations, lock, next, toLoad, toUnload, todo, ok,
                 main, node, envVars>>

Fail ==
  /\ Return("failed")
  /\ UNCHANGED <<active, configurations, envVars>>

Proceed(to, with) ==
  /\ phase' = to
  /\ todo' = with
  /\ ok' = TRUE
  /\ UNCHANGED <<active, configurations, lock, next, toLoad, toUnload, outcome,
                 request, main, node, envVars>>

(* The sequential phases stop at the first hardware that fails.            *)
Sequential(h, result) ==
  IF result
  THEN todo' = todo \ {h} /\ ok' = ok /\ Stay
  ELSE Fail

(* The parallel ones collect what each thread returned.                    *)
Parallel(h, result) ==
  /\ todo' = todo \ {h}
  /\ ok' = (ok /\ result)
  /\ Stay

In(p) == Serving /\ phase = p

PurgeHw(h) ==
  /\ In("purge") /\ h \in todo
  /\ \E result \in BOOLEAN : UnloadHw(h, result) /\ Sequential(h, result)

PurgeDone ==
  /\ In("purge") /\ todo = {}
  /\ Proceed("load", toLoad)
  /\ UNCHANGED loaderVars

(* Mutant: what loadHw() returned is not looked at.                        *)
LoadNextHwAnyway(h) ==
  /\ In("load") /\ h \in todo
  /\ \E result \in BOOLEAN : LoadHw(h, result) /\ Sequential(h, TRUE)

LoadNextHw(h) ==
  /\ In("load") /\ h \in todo
  /\ \E result \in BOOLEAN : LoadHw(h, result) /\ Sequential(h, result)

(* The checkers wait until the hardware just loaded is initialised or      *)
(* running, for at most 4 seconds.                                         *)
Ready(h) == DriverState(h) \in {"INITIALIZED", "RUNNING"}

(* Mutant: the old hardware goes before the new controllers are started.   *)
LoadDoneStopFirst ==
  /\ In("load") /\ todo = {}
  /\ Proceed("stop", toUnload)
  /\ UNCHANGED loaderVars

LoadDone ==
  /\ In("load") /\ todo = {}
  /\ IF \A h \in toLoad : Ready(h)
     THEN Proceed("start", HwNames(next))
     ELSE Fail
  /\ UNCHANGED loaderVars

StartControllers(h) ==
  /\ In("start") /\ h \in todo
  /\ \E result \in BOOLEAN :
       /\ StartHwControllers(h, next.components[h], result)
       /\ Parallel(h, result)

(* Mutant: what loadAndStartControllers() returned is not looked at.       *)
StartDoneAnyway ==
  /\ In("start") /\ todo = {}
  /\ ReplaceRunning(next)
  /\ Proceed("stop", toUnload)

StartDone ==
  /\ In("start") /\ todo = {}
  /\ ReplaceRunning(next)
  /\ IF ok THEN Proceed("stop", toUnload) ELSE Fail

StopControllers(h) ==
  /\ In("stop") /\ h \in todo
  /\ \E result \in BOOLEAN : StopHwControllers(h, result) /\ Parallel(h, result)

(* Mutant: the controllers are stopped, the hardware stays in drivers_.    *)
StopDoneKeepingHw ==
  /\ In("stop") /\ todo = {}
  /\ IF ok THEN Proceed("unload", {}) ELSE Fail
  /\ UNCHANGED loaderVars

StopDone ==
  /\ In("stop") /\ todo = {}
  /\ IF ok THEN Proceed("unload", toUnload) ELSE Fail
  /\ UNCHANGED loaderVars

UnloadOldHw(h) ==
  /\ In("unload") /\ h \in todo
  /\ \E result \in BOOLEAN : UnloadHw(h, result) /\ Sequential(h, result)

Commit ==
  /\ In("unload") /\ todo = {}
  /\ active' = next.name
  /\ Return("ok")
  /\ UNCHANGED <<loaderVars, configurations, envVars>>

(* A phase that calls into a driver whose init() failed.                   *)
NullDereference ==
  /\ Serving
  /\ phase \in {"purge", "start", "stop", "unload"}
  /\ \E h \in todo : NullController(h)
  /\ node' = "crashed"
  /\ UNCHANGED <<loaderVars, active, configurations, lock, callbackVars,
                 outcome, request, main, envVars>>

-----------------------------------------------------------------------------
(* A client calls a service; the clients may well give up at some point.   *)
Call(t) ==
  /\ Serving
  /\ t \in Clients
  /\ request[t] = NoRequest
  /\ requests < MaxRequests
  /\ requests' = requests + 1
  /\ \E r \in StartRequest \cup StopRequest :
       request' = [request EXCEPT ![t] = r]
  /\ UNCHANGED <<loaderVars, active, configurations, lock, callbackVars,
                 outcome, main, node, server, signal, edits>>

(* Mutant: list_configurations does not take the mutex.                    *)
ListConfigurationsAtOnce ==
  /\ Serving
  /\ configurations' = server
  /\ UNCHANGED <<loaderVars, active, lock, callbackVars, outcome, request,
                 main, node, envVars>>

(* list_configurations (and updateConfigurations, which no service calls)  *)
(* reads the parameter server again.                                       *)
ListConfigurations ==
  /\ Serving
  /\ lock = NoThread
  /\ configurations' = server
  /\ UNCHANGED <<loaderVars, active, lock, callbackVars, outcome, request,
                 main, node, envVars>>

EditServer ==
  /\ edits < MaxEdits
  /\ edits' = edits + 1
  /\ \E n \in Names, d \in Defs \cup {Undefined} :
       server' = [server EXCEPT ![n] = d]
  /\ UNCHANGED <<loaderVars, active, configurations, lock, callbackVars,
                 outcome, request, main, node, signal, requests>>

(* The drivers, at any time: they do not know about the mutex.             *)
DriverStep ==
  /\ Serving
  /\ \E h \in Hw : HwFault(h) \/ LateRun(h)
  /\ UNCHANGED <<active, configurations, lock, callbackVars, outcome, request,
                 main, node, envVars>>

-----------------------------------------------------------------------------
(* The main thread.  init() reads the configurations without the mutex and *)
(* after the services are up; it gives up if the parameter is broken.      *)
MainUnchanged == UNCHANGED <<loaderVars, active, lock, callbackVars, outcome,
                             envVars>>

LoadConfigurations ==
  /\ node = "up" /\ main = "init"
  /\ \/ configurations' = server /\ main' = "check" /\ node' = node
     \/ node' = "leaving" /\ UNCHANGED <<configurations, main>>
  /\ UNCHANGED request
  /\ MainUnchanged

(* callback() works on a reference into m_configurations, which init()     *)
(* replaces: what it reads from then on is no longer there.                *)
DanglingConfiguration ==
  /\ node = "up" /\ main = "init"
  /\ lock # NoThread
  /\ request[lock] # NoRequest /\ request[lock].kind = "start"
  /\ node' = "crashed"
  /\ UNCHANGED <<configurations, main, request>>
  /\ MainUnchanged

(* isOk(): some hardware of the running configuration is in error.         *)
Faulty == \E h \in HwNames(running) : DriverState(h) = "ERROR"

CheckHw ==
  /\ node = "up" /\ main = "check" /\ request[Main] = NoRequest
  /\ lock = NoThread
  /\ IF Faulty
     THEN main' = "faultStop" /\ request' = [request EXCEPT ![Main] = MainStop]
     ELSE main' = "signal" /\ request' = request
  /\ UNCHANGED <<configurations, node>>
  /\ MainUnchanged

CheckSignal ==
  /\ node = "up" /\ main = "signal"
  /\ IF signal
     THEN main' = "signalStop" /\ request' = [request EXCEPT ![Main] = MainStop]
     ELSE main' = "check" /\ request' = request
  /\ UNCHANGED <<configurations, node>>
  /\ MainUnchanged

(* SIGINT, once setupSignalHandlers() has run.                             *)
Interrupt ==
  /\ node = "up" /\ main # "init"
  /\ ~signal
  /\ signal' = TRUE
  /\ UNCHANGED <<loaderVars, active, configurations, lock, callbackVars,
                 outcome, request, main, node, server, requests, edits>>

(***************************************************************************)
(* main() returned from run(): the destructor unloads whatever drivers_    *)
(* holds, without the mutex, while the spinner goes on.  What unloadHw()   *)
(* leaves is destroyed with the loader.                                    *)
(***************************************************************************)
TearDown(h) ==
  /\ node = "leaving"
  /\ h \in drivers
  /\ UnloadHw(h, TRUE)
  /\ UNCHANGED <<active, configurations, lock, callbackVars, outcome, request,
                 main, node, envVars>>

Gone ==
  /\ node = "leaving"
  /\ drivers = {}
  /\ node' = "down"
  /\ UNCHANGED <<loaderVars, active, configurations, lock, callbackVars,
                 outcome, request, main, envVars>>

(* It meets a driver without controller manager, or a callback that works  *)
(* on drivers_ at the same time.                                           *)
TearDownCrash ==
  /\ node = "leaving"
  /\ lock # NoThread \/ \E h \in drivers : NullController(h)
  /\ node' = "crashed"
  /\ UNCHANGED <<loaderVars, active, configurations, lock, callbackVars,
                 outcome, request, main, envVars>>

-----------------------------------------------------------------------------
Service(t) ==
  \/ AlreadyActive(t)
  \/ NotListed(t)
  \/ ParamsMissing(t)
  \/ StartConfiguration(t)
  \/ StopConfiguration(t)

CallbackStep ==
  \/ \E h \in Hw : \/ PurgeHw(h) \/ LoadNextHw(h) \/ StartControllers(h)
                   \/ StopControllers(h) \/ UnloadOldHw(h)
  \/ PurgeDone \/ LoadDone \/ StartDone \/ StopDone \/ Commit
  \/ NullDereference

MainStep ==
  \/ LoadConfigurations \/ DanglingConfiguration \/ CheckHw \/ CheckSignal
  \/ \E h \in Hw : TearDown(h)
  \/ Gone \/ TearDownCrash

Environment ==
  \/ \E t \in Clients : Call(t)
  \/ ListConfigurations \/ EditServer \/ DriverStep \/ Interrupt

Next ==
  \/ \E t \in Threads : Service(t)
  \/ CallbackStep
  \/ MainStep
  \/ Environment

Spec == Init /\ [][Next]_vars

(***************************************************************************)
(* The threads of the spinner and the main thread are scheduled.  Nothing  *)
(* is assumed of clients, of signals or of the hardware.  The mutex needs  *)
(* no strong fairness, as there are at most MaxRequests calls.             *)
(***************************************************************************)
Fairness ==
  /\ \A t \in Threads : WF_vars(Service(t))
  /\ WF_vars(CallbackStep)
  /\ WF_vars(MainStep)

FairSpec == Spec /\ Fairness

-----------------------------------------------------------------------------
(* After a successful transition, and until the next one touches the       *)
(* controllers, the loader is exactly as running_configuration_ says: one  *)
(* live driver for each of its hardware, with its controllers and no       *)
(* others.                                                                 *)
RunsConfiguration ==
  /\ HwNames(running) \subseteq cmi
  /\ \A h \in HwNames(running) : loaded[h] = running.components[h]

(* What a client was told is so: when the last transition succeeded and    *)
(* none is in progress, active_configuration is the running configuration, *)
(* and nothing else is loaded - whatever failed transitions, hardware      *)
(* faults and edits of the parameters came before.  (startCallback,        *)
(* stopCallback, callback.)                                                *)
Coherent ==
  node = "up" /\ outcome = "ok" /\ phase = "idle" =>
    /\ running.name = active
    /\ drivers = HwNames(running)
    /\ RunsConfiguration

(* After a successful transition the next one never purges, and up to the  *)
(* moment it starts controllers the running configuration is untouched:    *)
(* missing parameters or hardware that cannot be loaded do not disturb it. *)
(* (callback, before loadAndStartControllers.)                             *)
OldConfigurationKept ==
  node = "up" /\ outcome = "ok" =>
    /\ phase # "purge"
    /\ phase = "load" => RunsConfiguration

(* What each phase takes for granted of drivers_ is so.  loadHw is asked   *)
(* only for hardware that is not in the map: neither its early continue is *)
(* taken, nor does it replace a driver whose control loop is alive.  The   *)
(* parallel starters and stoppers find every driver they look up with      *)
(* drivers_[hw]: none of them inserts into the map while another one       *)
(* reads, and none of them gets a null pointer.  (callback, loadHw,        *)
(* loadAndStartControllers, stopAndUnloadAllControllers.)                  *)
DriversAsAssumed ==
  node = "up" =>
    /\ phase = "load" => todo \cap drivers = {}
    /\ phase = "start" => HwNames(next) \subseteq drivers
    /\ phase \in {"start", "stop"} => toUnload \subseteq drivers

(* A driver that was never initialised completely stays in drivers_ only   *)
(* behind a transition that was reported as failed.  (loadHw.)             *)
HalfLoadedIsReported ==
  node = "up" /\ outcome # "failed" => drivers = cmi

(* callback() works on a reference into m_configurations: once init() is   *)
(* over, list_configurations does not replace the map under it.            *)
(* (listConfigurations.)                                                   *)
ConfigurationHeld ==
  [][phase # "idle" /\ main # "init" => configurations' = configurations]_vars

(***************************************************************************)
(* Seen from outside, the phases of callback() are the stages of a         *)
(* transaction on what the drivers hold.  The phases stop and unload are   *)
(* one stage, and between transitions there is something to clear when     *)
(* drivers_ is not what running_configuration_ says.                       *)
(***************************************************************************)
StageBar ==
  CASE phase = "idle" -> "idle"
    [] phase = "purge" -> "clear"
    [] phase = "load" -> "prepare"
    [] phase = "start" -> "move"
    [] phase \in {"stop", "unload"} -> "retire"

ContentBar == [h \in drivers |-> loaded[h]]
TidyBar == phase = "idle" /\ drivers = HwNames(running)

Promised == INSTANCE ConfigurationService WITH
              up <- node = "up",
              holder <- lock,
              stage <- StageBar,
              goal <- next,
              content <- ContentBar,
              tidy <- TidyBar

(* As long as the node is up, a transition is a transaction: nothing that  *)
(* runs is touched before all the new hardware is loaded, nothing old goes *)
(* before all the new controllers are there, success is reported and the   *)
(* active name replaced exactly when the new configuration and nothing     *)
(* else is left, and nobody but the holder of the mutex changes anything.  *)
(* (callback, startCallback, stopCallback.)                                *)
ImplementsService == Promised!Spec

-----------------------------------------------------------------------------
Over == node \in {"down", "crashed"}
ControlLoopsAlive == \A h \in drivers : Alive(h)

(* Every call of a service is answered, provided the control loops of the  *)
(* loaded drivers stay alive from some time on: a phase cannot get stuck   *)
(* and the mutex is always given back.                                     *)
RequestAnswered ==
  <>[]ControlLoopsAlive =>
    \A t \in Threads : request[t] # NoRequest ~> (request[t] = NoRequest \/ Over)

(* SIGINT ends the node, under the same proviso, even if the stop it asks  *)
(* for fails or another transition is in progress.  (run, main.)           *)
InterruptEnds == <>[]ControlLoopsAlive => (signal ~> Over)

(* When hardware of the running configuration gets into ERROR, its driver  *)
(* is stopped and goes, or the node gives up.  (run.)                      *)
FaultHandled ==
  \A h \in Hw : (node = "up" /\ h \in HwNames(running) /\ state[h] = "ERROR")
                 ~> (state[h] # "ERROR" \/ node # "up")

=============================================================================
