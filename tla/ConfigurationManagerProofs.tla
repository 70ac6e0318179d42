--------------------- MODULE ConfigurationManagerProofs ---------------------
(***************************************************************************)
(* Type correctness of the configuration manager and its safety            *)
(* properties, for any hardware, controllers, configurations, threads and  *)
(* bounds.                                                                 *)
(*                                                                         *)
(* Coherent is not inductive: that a transition that commits has loaded    *)
(* what it should depends on all its phases.  PhaseInv says what drivers_  *)
(* holds in each of them.                                                  *)
(***************************************************************************)
EXTENDS ConfigurationManager, TLAPS

(* The drivers of hw have the controllers of the next configuration.       *)
Started(hw) ==
  \A h \in hw : h \in cmi /\ loaded[h] = next.components[h]

(* What the callback needs of drivers_ in the end is the next hardware and *)
(* what it has still to unload; each phase gets nearer to it.              *)
Target == HwNames(next) \cup toUnload

PurgeInv == phase = "purge" =>
  /\ todo = drivers
  /\ toLoad = Target
  /\ outcome # "ok"

LoadInv == phase = "load" =>
  /\ drivers \cup todo = Target
  /\ drivers \cap todo = {}

StartInv == phase = "start" =>
  /\ drivers = Target
  /\ ok => Started(HwNames(next) \ todo)

StopInv == phase = "stop" =>
  /\ running = next
  /\ drivers = Target
  /\ todo \subseteq toUnload
  /\ Started(HwNames(next))

UnloadInv == phase = "unload" =>
  /\ running = next
  /\ drivers = HwNames(next) \cup todo
  /\ HwNames(next) \cap todo = {}
  /\ Started(HwNames(next))

PhaseInv ==
  node = "up" =>
    /\ HwNames(next) \cap toUnload = {}
    /\ PurgeInv
    /\ LoadInv
    /\ StartInv
    /\ StopInv
    /\ UnloadInv

(* The bookkeeping of the model: phase and the other locals of callback()  *)
(* belong to the thread that holds the mutex, which serves a request.      *)
HolderServes ==
  /\ phase = "idle" <=> lock = NoThread
  /\ lock # NoThread => request[lock] # NoRequest

(* With the types and HolderServes, the inductive invariant.               *)
SafetyInv ==
  /\ PhaseInv
  /\ Coherent
  /\ OldConfigurationKept
  /\ HalfLoadedIsReported

-----------------------------------------------------------------------------
(* What the operations of the loader do to the types of its variables.     *)
LoaderTypeOK ==
  /\ drivers \in SUBSET Hw
  /\ cmi \in SUBSET drivers
  /\ state \in [Hw -> StatusHw]
  /\ loaded \in [Hw -> SUBSET Ctrl]
  /\ running \in Configuration

(* Components are functions from hardware to sets of controllers.          *)
LEMMA ComponentsFunctions ==
  ASSUME NEW c \in Components
  PROVE  /\ DOMAIN c \in SUBSET Hw
         /\ \A h \in DOMAIN c : c[h] \in SUBSET Ctrl
  BY DEF Components

(* The empty configuration of a stop is a configuration.                   *)
LEMMA EmptyIsConfiguration == EmptyConfiguration \in Configuration
  <1>1. NoComponents \in [{} -> SUBSET Ctrl]
    BY DEF NoComponents
  <1>2. NoComponents \in Components
    BY <1>1 DEF Components
  <1> QED
    BY <1>2 DEF EmptyConfiguration, Configuration

(* A round of unloadHw() keeps the types of the loader.                    *)
LEMMA UnloadHwTypes ==
  ASSUME LoaderTypeOK, NEW h \in Hw, NEW result \in BOOLEAN,
         UnloadHw(h, result)
  PROVE  LoaderTypeOK'
  BY DEF LoaderTypeOK, UnloadHw, StopUnloadAllControllers, StatusHw, Configuration

(* loadHw() keeps them, whichever way it ends.                             *)
LEMMA LoadHwTypes ==
  ASSUME LoaderTypeOK, NEW h \in Hw, NEW result \in BOOLEAN,
         LoadHw(h, result)
  PROVE  LoaderTypeOK'
  <1>1. CASE HwParamBroken(h, result)
    BY <1>1 DEF HwParamBroken, LoaderTypeOK, loaderVars, Configuration
  <1>2. CASE InitFails(h, result)
    BY <1>2 DEF InitFails, LoaderTypeOK, StatusHw, Configuration
  <1>3. CASE InitAndStart(h, result)
    BY <1>3 DEF InitAndStart, LoaderTypeOK, StatusHw, Configuration
  <1> QED
    BY <1>1, <1>2, <1>3 DEF LoadHw

(* A parallel stopper keeps them.                                          *)
LEMMA StopHwControllersTypes ==
  ASSUME LoaderTypeOK, NEW h \in Hw, NEW result \in BOOLEAN,
         StopHwControllers(h, result)
  PROVE  LoaderTypeOK'
  BY DEF LoaderTypeOK, StopHwControllers, StopUnloadAllControllers, Configuration

(* A parallel starter keeps them.                                          *)
LEMMA StartHwControllersTypes ==
  ASSUME LoaderTypeOK, NEW h \in Hw, NEW wanted \in SUBSET Ctrl,
         NEW result \in BOOLEAN, StartHwControllers(h, wanted, result)
  PROVE  LoaderTypeOK'
  BY DEF LoaderTypeOK, StartHwControllers, Configuration

(* A driver that fails, or begins late, keeps them.                        *)
LEMMA DriverStepTypes ==
  ASSUME LoaderTypeOK, NEW h \in Hw, HwFault(h) \/ LateRun(h)
  PROVE  LoaderTypeOK'
  BY DEF LoaderTypeOK, HwFault, LateRun, StatusHw, Configuration
-----------------------------------------------------------------------------
(* The types of the callback in progress.  The last conjunct makes the     *)
(* types inductive: the phase start looks up the controllers of what it    *)
(* treats in the next configuration.                                       *)
CallbackTypeOK ==
  /\ phase \in Phases
  /\ next \in Configuration
  /\ toLoad \in SUBSET Hw
  /\ toUnload \in SUBSET Hw
  /\ todo \in SUBSET Hw
  /\ ok \in BOOLEAN
  /\ phase = "start" => todo \subseteq HwNames(next)

(* The types of the variables of the manager.                              *)
ManagerTypeOK ==
  /\ active \in Names \cup {"", "None"}
  /\ configurations \in [Names -> Defs \cup {Undefined}]
  /\ server \in [Names -> Defs \cup {Undefined}]
  /\ lock \in Threads \cup {NoThread}
  /\ outcome \in {"none", "ok", "failed"}
  /\ request \in [Threads -> Request]
  /\ main \in {"init", "check", "signal", "faultStop", "signalStop"}
  /\ signal \in BOOLEAN
  /\ node \in {"up", "leaving", "down", "crashed"}
  /\ requests \in 0 .. MaxRequests
  /\ edits \in 0 .. MaxEdits
  /\ CallbackTypeOK

(* A step that leaves the callback alone keeps the types of the callback.  *)
LEMMA CallbackKept ==
  ASSUME CallbackTypeOK, UNCHANGED callbackVars
  PROVE  CallbackTypeOK'
  BY DEF CallbackTypeOK, callbackVars, HwNames

(* Every request a client makes is a request.                              *)
LEMMA RequestTypes ==
  /\ NoRequest \in Request
  /\ MainStop \in Request
  /\ StartRequest \cup StopRequest \subseteq Request
  BY DEF Request

(* The hardware of a configuration is hardware.                            *)
LEMMA ConfigurationHw ==
  ASSUME NEW c \in Configuration
  PROVE  HwNames(c) \in SUBSET Hw
  BY ComponentsFunctions DEF Configuration, HwNames

(* The end of a callback keeps the types of the manager.                   *)
LEMMA ReturnTypes ==
  ASSUME ManagerTypeOK, NEW result \in {"ok", "failed"}, Return(result),
         active' \in Names \cup {"", "None"},
         UNCHANGED <<configurations, envVars>>
  PROVE  ManagerTypeOK'
  <1>1. main' \in {"init", "check", "signal", "faultStop", "signalStop"}
        /\ node' \in {"up", "leaving", "down", "crashed"}
    BY DEF ManagerTypeOK, Return, AfterMainStop
  <1>2. request' \in [Threads -> Request]
    BY RequestTypes DEF ManagerTypeOK, Return
  <1>3. next' \in Configuration
    BY EmptyIsConfiguration DEF Return
  <1> QED
    BY <1>1, <1>2, <1>3
    DEF ManagerTypeOK, CallbackTypeOK, Return, Phases, Threads, envVars

(* The beginning of callback() keeps them.                                 *)
LEMMA EnterTypes ==
  ASSUME LoaderTypeOK, ManagerTypeOK, NEW t \in Threads,
         NEW c \in Configuration, EnterCallback(t, c)
  PROVE  LoaderTypeOK' /\ ManagerTypeOK'
  <1>1. HwNames(c) \in SUBSET Hw /\ HwNames(running) \in SUBSET Hw
    BY ConfigurationHw DEF LoaderTypeOK
  <1>2. LoaderTypeOK'
    BY DEF EnterCallback, LoaderTypeOK, loaderVars, Configuration
  <1>3. phase' \in {"load", "purge"}
    BY DEF EnterCallback
  <1>4. toLoad' \in SUBSET Hw /\ toUnload' \in SUBSET Hw /\ todo' \in SUBSET Hw
    BY <1>1 DEF EnterCallback, LoaderTypeOK
  <1>5. UNCHANGED <<active, configurations, outcome, request, main, node, server,
                    signal, requests, edits>>
        /\ lock' = t /\ next' = c /\ ok' = TRUE
    BY DEF EnterCallback, envVars
  <1> QED
    BY <1>2, <1>3, <1>4, <1>5 DEF ManagerTypeOK, CallbackTypeOK, Phases, Threads

(* A service, up to callback(), keeps the types.                           *)
LEMMA ServiceTypes ==
  ASSUME LoaderTypeOK, ManagerTypeOK, NEW t \in Threads, Service(t)
  PROVE  LoaderTypeOK' /\ ManagerTypeOK'
  <1>1. ASSUME Answer(t)
        PROVE  LoaderTypeOK' /\ ManagerTypeOK'
    <2>1. LoaderTypeOK'
      BY <1>1 DEF Answer, LoaderTypeOK, loaderVars, Configuration
    <2>2. request' \in [Threads -> Request]
      BY <1>1, RequestTypes DEF Answer, ManagerTypeOK
    <2> QED
      BY <1>1, <2>1, <2>2, CallbackKept DEF Answer, ManagerTypeOK, envVars
  <1>2. CASE AlreadyActive(t)
    BY <1>1, <1>2 DEF AlreadyActive
  <1>3. CASE NotListed(t)
    BY <1>1, <1>3 DEF NotListed
  <1>4. CASE ParamsMissing(t)
    <2>1. LoaderTypeOK'
      BY <1>4 DEF ParamsMissing, LoaderTypeOK, loaderVars, Configuration
    <2>2. request' \in [Threads -> Request]
      BY <1>4, RequestTypes DEF ParamsMissing, ManagerTypeOK
    <2> QED
      BY <1>4, <2>1, <2>2, CallbackKept DEF ParamsMissing, ManagerTypeOK, envVars
  <1>5. CASE StartConfiguration(t)
    <2>1. configurations[request[t].name] \in Components
      BY <1>5, ManagerAssumption DEF StartConfiguration, Listed, ManagerTypeOK
    <2>2. [name |-> request[t].name,
           components |-> configurations[request[t].name]] \in Configuration
      BY <1>5, <2>1 DEF StartConfiguration, Listed, Configuration
    <2> QED
      BY <1>5, <2>2, EnterTypes DEF StartConfiguration
  <1>6. CASE StopConfiguration(t)
    BY <1>6, EmptyIsConfiguration, EnterTypes DEF StopConfiguration
  <1> QED
    BY <1>2, <1>3, <1>4, <1>5, <1>6 DEF Service
(* A step of a phase on one hardware interface changes todo and ok only,   *)
(* unless it ends the callback.                                            *)
LEMMA StayTypes ==
  ASSUME ManagerTypeOK, NEW h \in Hw, NEW result \in BOOLEAN,
         Sequential(h, result) \/ Parallel(h, result)
  PROVE  ManagerTypeOK'
  <1>1. CASE Fail
    BY <1>1, ReturnTypes DEF Fail, ManagerTypeOK
  <1>2. CASE todo' = todo \ {h} /\ ok' \in BOOLEAN /\ Stay
    BY <1>2 DEF Stay, ManagerTypeOK, CallbackTypeOK, envVars, HwNames
  <1>3. ok \in BOOLEAN
    BY DEF ManagerTypeOK, CallbackTypeOK
  <1> QED
    BY <1>1, <1>2, <1>3 DEF Sequential, Parallel

(* Going on to another phase keeps the types.                              *)
LEMMA ProceedTypes ==
  ASSUME ManagerTypeOK, NEW p \in Phases, NEW hw \in SUBSET Hw, Proceed(p, hw),
         p = "start" => hw \subseteq HwNames(next)
  PROVE  ManagerTypeOK'
  BY DEF Proceed, ManagerTypeOK, CallbackTypeOK, envVars, HwNames

(* A step of callback() keeps the types.                                   *)
LEMMA CallbackTypes ==
  ASSUME LoaderTypeOK, ManagerTypeOK, CallbackStep
  PROVE  LoaderTypeOK' /\ ManagerTypeOK'
  <1> USE DEF In
  <1>1. ASSUME NEW h \in Hw, PurgeHw(h)
        PROVE  LoaderTypeOK' /\ ManagerTypeOK'
    BY <1>1, UnloadHwTypes, StayTypes DEF PurgeHw
  <1>2. ASSUME NEW h \in Hw, LoadNextHw(h)
        PROVE  LoaderTypeOK' /\ ManagerTypeOK'
    BY <1>2, LoadHwTypes, StayTypes DEF LoadNextHw
  <1>3. ASSUME NEW h \in Hw, StartControllers(h)
        PROVE  LoaderTypeOK' /\ ManagerTypeOK'
    <2>1. next.components \in Components /\ h \in DOMAIN next.components
      BY <1>3
      DEF StartControllers, ManagerTypeOK, CallbackTypeOK, Configuration, HwNames
    <2>2. next.components[h] \in SUBSET Ctrl
      BY <2>1, ComponentsFunctions
    <2> QED
      BY <1>3, <2>2, StartHwControllersTypes, StayTypes DEF StartControllers
  <1>4. ASSUME NEW h \in Hw, StopControllers(h)
        PROVE  LoaderTypeOK' /\ ManagerTypeOK'
    BY <1>4, StopHwControllersTypes, StayTypes DEF StopControllers
  <1>5. ASSUME NEW h \in Hw, UnloadOldHw(h)
        PROVE  LoaderTypeOK' /\ ManagerTypeOK'
    BY <1>5, UnloadHwTypes, StayTypes DEF UnloadOldHw
  <1>6. ASSUME UNCHANGED loaderVars
        PROVE  LoaderTypeOK'
    BY <1>6 DEF loaderVars, LoaderTypeOK, Configuration
  <1>7. CASE PurgeDone
    BY <1>6, <1>7, ProceedTypes
    DEF PurgeDone, ManagerTypeOK, CallbackTypeOK, Phases
  <1>8. CASE LoadDone
    <2>1. HwNames(next) \in SUBSET Hw
      BY ConfigurationHw DEF ManagerTypeOK, CallbackTypeOK
    <2>2. CASE Proceed("start", HwNames(next))
      BY <1>6, <1>8, <2>1, <2>2, ProceedTypes DEF LoadDone, Phases
    <2>3. CASE Fail
      BY <1>6, <1>8, <2>3, ReturnTypes DEF LoadDone, Fail, ManagerTypeOK
    <2> QED
      BY <1>8, <2>2, <2>3 DEF LoadDone
  <1>9. CASE StartDone
    <2>1. LoaderTypeOK'
      BY <1>9
      DEF StartDone, ReplaceRunning, LoaderTypeOK, ManagerTypeOK, CallbackTypeOK,
                  Configuration
    <2>2. CASE Proceed("stop", toUnload)
      BY <2>1, <2>2, ProceedTypes DEF ManagerTypeOK, CallbackTypeOK, Phases
    <2>3. CASE Fail
      BY <2>1, <2>3, ReturnTypes DEF Fail, ManagerTypeOK
    <2> QED
      BY <1>9, <2>2, <2>3 DEF StartDone
  <1>10. CASE StopDone
    <2>1. CASE Proceed("unload", toUnload)
      BY <1>6, <1>10, <2>1, ProceedTypes
      DEF StopDone, ManagerTypeOK, CallbackTypeOK, Phases
    <2>2. CASE Fail
      BY <1>6, <1>10, <2>2, ReturnTypes DEF StopDone, Fail, ManagerTypeOK
    <2> QED
      BY <1>10, <2>1, <2>2 DEF StopDone
  <1>11. CASE Commit
    <2>1. active' \in Names \cup {"", "None"}
      BY <1>11 DEF Commit, ManagerTypeOK, CallbackTypeOK, Configuration
    <2> QED
      BY <1>6, <1>11, <2>1, ReturnTypes DEF Commit
  <1>12. CASE NullDereference
    BY <1>6, <1>12, CallbackKept DEF NullDereference, ManagerTypeOK, envVars
  <1> QED
    BY <1>1, <1>2, <1>3, <1>4, <1>5, <1>7, <1>8, <1>9, <1>10, <1>11, <1>12
    DEF CallbackStep

(* A step of the main thread keeps the types.                              *)
LEMMA MainTypes ==
  ASSUME LoaderTypeOK, ManagerTypeOK, MainStep
  PROVE  LoaderTypeOK' /\ ManagerTypeOK'
  <1>1. CASE UNCHANGED loaderVars
    <2>1. LoaderTypeOK'
      BY <1>1 DEF loaderVars, LoaderTypeOK, Configuration
    <2>2. CASE LoadConfigurations
      BY <2>1, <2>2, CallbackKept
      DEF LoadConfigurations, MainUnchanged, ManagerTypeOK, envVars
    <2>3. CASE DanglingConfiguration
      BY <2>1, <2>3, CallbackKept
      DEF DanglingConfiguration, MainUnchanged, ManagerTypeOK, envVars
    <2>4. CASE CheckHw
      BY <2>1, <2>4, RequestTypes, CallbackKept
      DEF CheckHw, MainUnchanged, ManagerTypeOK, envVars
    <2>5. CASE CheckSignal
      BY <2>1, <2>5, RequestTypes, CallbackKept
      DEF CheckSignal, MainUnchanged, ManagerTypeOK, envVars
    <2>6. CASE Gone \/ TearDownCrash
      BY <2>1, <2>6, CallbackKept DEF Gone, TearDownCrash, ManagerTypeOK, envVars
    <2>7. ASSUME NEW h \in Hw, TearDown(h)
          PROVE  ManagerTypeOK'
      BY <2>7, CallbackKept DEF TearDown, ManagerTypeOK, envVars
    <2> QED
      BY <2>1, <2>2, <2>3, <2>4, <2>5, <2>6, <2>7 DEF MainStep
  <1>2. ASSUME NEW h \in Hw, TearDown(h)
        PROVE  LoaderTypeOK' /\ ManagerTypeOK'
    <2>1. LoaderTypeOK'
      BY <1>2, UnloadHwTypes DEF TearDown
    <2> QED
      BY <1>2, <2>1, CallbackKept DEF TearDown, ManagerTypeOK, envVars
  <1> QED
    BY <1>1, <1>2 DEF MainStep, LoadConfigurations, DanglingConfiguration, CheckHw,
                      CheckSignal, Gone, TearDownCrash, MainUnchanged

(* Clients, the parameter server, drivers and SIGINT keep the types.       *)
LEMMA EnvironmentTypes ==
  ASSUME LoaderTypeOK, ManagerTypeOK, Environment
  PROVE  LoaderTypeOK' /\ ManagerTypeOK'
  <1>1. CASE UNCHANGED loaderVars
    <2>1. LoaderTypeOK'
      BY <1>1 DEF loaderVars, LoaderTypeOK, Configuration
    <2>2. ASSUME NEW t \in Clients, Call(t)
          PROVE  ManagerTypeOK'
      <3>1. requests' \in 0 .. MaxRequests
        <4>1. MaxRequests \in Nat
          BY ManagerAssumption
        <4>2. requests \in 0 .. MaxRequests /\ requests < MaxRequests /\ requests' = requests + 1
          BY <2>2 DEF Call, ManagerTypeOK
        <4> QED
          BY <4>1, <4>2
      <3>2. request' \in [Threads -> Request]
        BY <2>2, RequestTypes DEF Call, ManagerTypeOK
      <3> QED
        BY <2>2, <3>1, <3>2, CallbackKept DEF Call, ManagerTypeOK
    <2>3. CASE ListConfigurations
      BY <2>1, <2>3, CallbackKept
      DEF ListConfigurations, ManagerTypeOK, envVars
    <2>4. CASE EditServer
      <3>1. edits' \in 0 .. MaxEdits
        <4>1. MaxEdits \in Nat
          BY ManagerAssumption
        <4>2. edits \in 0 .. MaxEdits /\ edits < MaxEdits /\ edits' = edits + 1
          BY <2>4 DEF EditServer, ManagerTypeOK
        <4> QED
          BY <4>1, <4>2
      <3>2. server' \in [Names -> Defs \cup {Undefined}]
        BY <2>4 DEF EditServer, ManagerTypeOK
      <3> QED
        BY <2>1, <2>4, <3>1, <3>2, CallbackKept DEF EditServer, ManagerTypeOK
    <2>5. CASE Interrupt
      BY <2>1, <2>5, CallbackKept DEF Interrupt, ManagerTypeOK
    <2>6. CASE DriverStep
      BY <2>1, <2>6, CallbackKept DEF DriverStep, ManagerTypeOK, envVars
    <2> QED
      BY <2>1, <2>2, <2>3, <2>4, <2>5, <2>6 DEF Environment
  <1>2. CASE DriverStep
    <2>1. LoaderTypeOK'
      BY <1>2, DriverStepTypes DEF DriverStep
    <2> QED
      BY <1>2, <2>1, CallbackKept DEF DriverStep, ManagerTypeOK, envVars
  <1> QED
    BY <1>1, <1>2 DEF Environment, Call, ListConfigurations, EditServer, Interrupt

(* The types hold at first.                                                *)
LEMMA InitTypes ==
  ASSUME Init
  PROVE  LoaderTypeOK /\ ManagerTypeOK
  <1>1. NoComponents \in Components /\ EmptyConfiguration \in Configuration
    BY EmptyIsConfiguration DEF EmptyConfiguration, Configuration
  <1>2. LoaderTypeOK
    BY <1>1 DEF Init, LoaderInit, LoaderTypeOK, StatusHw, Configuration
  <1>3. request \in [Threads -> Request]
    BY RequestTypes DEF Init
  <1>4. /\ configurations \in [Names -> Defs \cup {Undefined}]
        /\ server \in [Names -> Defs \cup {Undefined}]
    BY DEF Init
  <1>5. requests \in 0 .. MaxRequests /\ edits \in 0 .. MaxEdits
    <2>1. MaxRequests \in Nat /\ MaxEdits \in Nat
      BY ManagerAssumption
    <2>2. requests = 0 /\ edits = 0
      BY DEF Init
    <2> QED
      BY <2>1, <2>2
  <1>6. ManagerTypeOK
    BY <1>1, <1>3, <1>4, <1>5 DEF Init, ManagerTypeOK, CallbackTypeOK, Phases
  <1> QED
    BY <1>2, <1>6

(* The types are inductive.                                                *)
LEMMA StepTypes ==
  ASSUME LoaderTypeOK, ManagerTypeOK, [Next]_vars
  PROVE  LoaderTypeOK' /\ ManagerTypeOK'
  <1>1. CASE UNCHANGED vars
    <2>1. LoaderTypeOK'
      BY <1>1 DEF vars, loaderVars, LoaderTypeOK, Configuration
    <2>2. ManagerTypeOK'
      BY <1>1, CallbackKept DEF vars, envVars, ManagerTypeOK
    <2> QED
      BY <2>1, <2>2
  <1> QED
    BY <1>1, ServiceTypes, CallbackTypes, MainTypes, EnvironmentTypes DEF Next

(* Every variable has its type in every reachable state, whatever the      *)
(* hardware, the controllers, the configurations and the number of         *)
(* threads and requests.                                                   *)
THEOREM TypeCorrect == Spec => []TypeOK
  <1>1. LoaderTypeOK /\ ManagerTypeOK => TypeOK
    BY DEF LoaderTypeOK, ManagerTypeOK, CallbackTypeOK, TypeOK
  <1> QED
    BY InitTypes, StepTypes, <1>1, PTL DEF Spec

-----------------------------------------------------------------------------
(* SafetyInv speaks of a node that is up: nothing is left to prove of a    *)
(* step that takes it down.                                                *)
LEMMA NotUp ==
  ASSUME node' # "up"
  PROVE  SafetyInv'
  BY DEF SafetyInv, PhaseInv, Coherent, OldConfigurationKept,
         HalfLoadedIsReported

(* A step that touches neither the callback in progress nor what the       *)
(* loader holds.                                                           *)
LEMMA Untouched ==
  ASSUME SafetyInv,
         UNCHANGED <<drivers, cmi, loaded, running, active, outcome, node,
                     callbackVars>>
  PROVE  SafetyInv'
  <1> USE DEF callbackVars
  <1>1. PhaseInv'
    BY DEF SafetyInv, PhaseInv, PurgeInv, LoadInv, StartInv, StopInv, UnloadInv,
           Target, Started, HwNames
  <1>2. Coherent'
    BY DEF SafetyInv, Coherent, RunsConfiguration, HwNames
  <1>3. OldConfigurationKept'
    BY DEF SafetyInv, OldConfigurationKept, RunsConfiguration, HwNames
  <1>4. HalfLoadedIsReported'
    BY DEF SafetyInv, HalfLoadedIsReported
  <1> QED
    BY <1>1, <1>2, <1>3, <1>4 DEF SafetyInv

(* A callback that fails leaves nothing behind that SafetyInv speaks of.   *)
LEMMA Failing ==
  ASSUME Fail
  PROVE  SafetyInv'
  BY DEF Fail, Return, SafetyInv, PhaseInv, PurgeInv, LoadInv,
         StartInv, StopInv, UnloadInv, Coherent, OldConfigurationKept,
         HalfLoadedIsReported

(* The beginning of callback() leads to a phase whose invariant holds.     *)
LEMMA EnterSafe ==
  ASSUME LoaderTypeOK, SafetyInv, NEW t \in Threads, NEW c, node = "up",
         phase = "idle", EnterCallback(t, c)
  PROVE  SafetyInv'
  <1>1. /\ next' = c /\ ok' = TRUE
        /\ toUnload' = HwNames(running) \ HwNames(c)
        /\ UNCHANGED <<drivers, cmi, loaded, running, outcome, node>>
    BY DEF EnterCallback, loaderVars
  <1>2. phase' \in {"load", "purge"}
    BY DEF EnterCallback
  <1>3. outcome = "ok" => HwNames(running) = drivers /\ RunsConfiguration
    BY DEF SafetyInv, Coherent
  <1>4. OldConfigurationKept'
    <2>1. outcome = "ok" => phase' = "load"
      BY <1>3 DEF EnterCallback
    <2> QED
      BY <1>1, <1>3, <2>1 DEF OldConfigurationKept, RunsConfiguration, HwNames
  <1>5. PhaseInv'
    <2>1. HwNames(next') \cap toUnload' = {}
      BY <1>1
    <2>2. Target' = HwNames(running) \cup HwNames(c)
      BY <1>1 DEF Target, HwNames
    <2>3. CASE HwNames(running) = drivers
      BY <1>1, <2>1, <2>2, <2>3
      DEF EnterCallback, PhaseInv, PurgeInv, LoadInv, StartInv, StopInv, UnloadInv,
          HwNames
    <2>4. CASE HwNames(running) # drivers
      BY <1>1, <1>3, <2>1, <2>2, <2>4
      DEF EnterCallback, PhaseInv, PurgeInv, LoadInv, StartInv, StopInv, UnloadInv,
          HwNames
    <2> QED
      BY <2>3, <2>4
  <1>6. Coherent' /\ HalfLoadedIsReported'
    BY <1>1, <1>2 DEF SafetyInv, Coherent, HalfLoadedIsReported
  <1> QED
    BY <1>4, <1>5, <1>6 DEF SafetyInv

(* A service keeps the safety invariant.                                   *)
LEMMA ServiceSafe ==
  ASSUME LoaderTypeOK, HolderServes, SafetyInv, node = "up",
         NEW t \in Threads, Service(t)
  PROVE  SafetyInv'
  <1>1. ASSUME Granted(t, "start") \/ Granted(t, "stop")
        PROVE  phase = "idle"
    BY <1>1 DEF Granted, HolderServes
  <1>2. ASSUME Answer(t)
        PROVE  SafetyInv'
    BY <1>2, Untouched DEF Answer, loaderVars
  <1>3. CASE AlreadyActive(t)
    BY <1>2, <1>3 DEF AlreadyActive
  <1>4. CASE NotListed(t)
    BY <1>2, <1>4 DEF NotListed
  <1>5. CASE ParamsMissing(t)
    BY <1>1, <1>5
    DEF ParamsMissing, callbackVars, loaderVars, SafetyInv, PhaseInv, PurgeInv,
        LoadInv, StartInv, StopInv, UnloadInv, Coherent, HwNames,
        OldConfigurationKept, HalfLoadedIsReported
  <1>6. CASE StartConfiguration(t)
    BY <1>1, <1>6, EnterSafe DEF StartConfiguration
  <1>7. CASE StopConfiguration(t)
    BY <1>1, <1>7, EnterSafe DEF StopConfiguration
  <1> QED
    BY <1>3, <1>4, <1>5, <1>6, <1>7 DEF Service
-----------------------------------------------------------------------------
(* The phases, one lemma each.                                             *)
LEMMA PurgeSafe ==
  ASSUME LoaderTypeOK, SafetyInv, node = "up", NEW h \in Hw, PurgeHw(h)
  PROVE  SafetyInv'
  <1> PICK result \in BOOLEAN : UnloadHw(h, result) /\ Sequential(h, result)
    BY DEF PurgeHw
  <1>1. CASE ~result
    BY <1>1, Failing DEF Sequential
  <1>2. CASE result
    <2>1. /\ todo' = todo \ {h} /\ ok' = ok /\ Stay
          /\ drivers' = drivers \ {h} /\ cmi' = cmi \ {h}
          /\ UNCHANGED running
      BY <1>2 DEF Sequential, UnloadHw
    <2>2. phase = "purge"
      BY DEF PurgeHw, In
    <2>3. outcome # "ok"
      BY <2>2 DEF SafetyInv, PhaseInv, PurgeInv
    <2>4. PhaseInv'
      BY <2>1, <2>2 DEF Stay, SafetyInv, PhaseInv, PurgeInv, LoadInv, StartInv,
                        StopInv, UnloadInv, Target, HwNames
    <2> QED
      BY <2>1, <2>2, <2>3, <2>4
      DEF Stay, SafetyInv, Coherent, OldConfigurationKept, HalfLoadedIsReported
  <1> QED
    BY <1>1, <1>2

(* The purge hands over to the loading.                                    *)
LEMMA PurgeDoneSafe ==
  ASSUME SafetyInv, node = "up", PurgeDone
  PROVE  SafetyInv'
  <1>1. /\ phase = "purge" /\ todo = {} /\ Proceed("load", toLoad)
        /\ UNCHANGED <<drivers, cmi, loaded, running>>
    BY DEF PurgeDone, In, loaderVars
  <1>2. outcome # "ok" /\ drivers = {} /\ toLoad = Target
    BY <1>1 DEF SafetyInv, PhaseInv, PurgeInv
  <1>3. PhaseInv'
    BY <1>1, <1>2 DEF Proceed, SafetyInv, PhaseInv, PurgeInv, LoadInv, StartInv,
                      StopInv, UnloadInv, Target, HwNames
  <1> QED
    BY <1>1, <1>2, <1>3
    DEF Proceed, SafetyInv, Coherent, OldConfigurationKept, HalfLoadedIsReported

(* Loading one piece of hardware keeps the safety invariant.               *)
LEMMA LoadSafe ==
  ASSUME LoaderTypeOK, SafetyInv, node = "up", NEW h \in Hw, LoadNextHw(h)
  PROVE  SafetyInv'
  <1> PICK result \in BOOLEAN : LoadHw(h, result) /\ Sequential(h, result)
    BY DEF LoadNextHw
  <1>1. CASE ~result
    BY <1>1, Failing DEF Sequential
  <1>2. CASE result
    <2>1. phase = "load" /\ h \in todo
      BY DEF LoadNextHw, In
    <2>2. InitAndStart(h, result)
      BY <1>2 DEF LoadHw, HwParamBroken, InitFails
    <2>3. /\ todo' = todo \ {h} /\ ok' = ok /\ Stay
          /\ drivers' = drivers \cup {h} /\ cmi' = cmi \cup {h}
          /\ UNCHANGED <<loaded, running>>
      BY <1>2, <2>2 DEF Sequential, InitAndStart
    <2>4. PhaseInv'
      BY <2>1, <2>3 DEF Stay, SafetyInv, PhaseInv, PurgeInv, LoadInv, StartInv,
                        StopInv, UnloadInv, Target, HwNames
    <2>5. OldConfigurationKept' /\ HalfLoadedIsReported' /\ Coherent'
      BY <2>1, <2>3 DEF Stay, SafetyInv, OldConfigurationKept, RunsConfiguration,
                        HalfLoadedIsReported, Coherent, HwNames
    <2> QED
      BY <2>4, <2>5 DEF SafetyInv
  <1> QED
    BY <1>1, <1>2

(* What is loaded in the end is what the starters look up.                 *)
LEMMA LoadDoneSafe ==
  ASSUME SafetyInv, node = "up", LoadDone
  PROVE  SafetyInv'
  <1>1. CASE Fail
    BY <1>1, Failing
  <1>2. CASE Proceed("start", HwNames(next))
    <2>1. /\ phase = "load" /\ todo = {}
          /\ UNCHANGED <<drivers, cmi, loaded, running>>
      BY DEF LoadDone, In, loaderVars
    <2>2. PhaseInv'
      BY <1>2, <2>1 DEF Proceed, SafetyInv, PhaseInv, PurgeInv, LoadInv, StartInv,
                        StopInv, UnloadInv, Target, Started, HwNames
    <2> QED
      BY <1>2, <2>1, <2>2
      DEF Proceed, SafetyInv, Coherent, OldConfigurationKept, HalfLoadedIsReported
  <1> QED
    BY <1>1, <1>2 DEF LoadDone

(* A parallel starter keeps the safety invariant.                          *)
LEMMA StartSafe ==
  ASSUME LoaderTypeOK, SafetyInv, node = "up", NEW h \in Hw, StartControllers(h)
  PROVE  SafetyInv'
  <1> PICK result \in BOOLEAN :
             /\ StartHwControllers(h, next.components[h], result)
             /\ Parallel(h, result)
    BY DEF StartControllers
  <1>1. /\ phase = "start" /\ h \in todo
        /\ todo' = todo \ {h} /\ ok' = (ok /\ result) /\ Stay
        /\ UNCHANGED <<drivers, cmi, running>>
        /\ h \in cmi
    BY DEF StartControllers, In, Parallel, StartHwControllers
  <1>2. result => loaded' = [loaded EXCEPT ![h] = next.components[h]]
    BY DEF StartHwControllers
  <1>3. ok' => Started(HwNames(next) \ todo)'
    <2> SUFFICES ASSUME ok', NEW g \in HwNames(next) \ (todo \ {h})
                 PROVE  g \in cmi /\ loaded'[g] = next.components[g]
      BY <1>1 DEF Started, Stay, HwNames
    <2>1. Started(HwNames(next) \ todo)
      BY <1>1 DEF SafetyInv, PhaseInv, StartInv
    <2>2. loaded' = [loaded EXCEPT ![h] = next.components[h]]
      BY <1>1, <1>2
    <2> QED
      BY <1>1, <2>1, <2>2 DEF Started, LoaderTypeOK
  <1>4. PhaseInv'
    BY <1>1, <1>3 DEF Stay, SafetyInv, PhaseInv, PurgeInv, LoadInv, StartInv,
                      StopInv, UnloadInv, Target, HwNames
  <1> QED
    BY <1>1, <1>4
    DEF Stay, SafetyInv, Coherent, OldConfigurationKept, HalfLoadedIsReported

(* After the starters the running configuration is the next one.           *)
LEMMA StartDoneSafe ==
  ASSUME SafetyInv, node = "up", StartDone
  PROVE  SafetyInv'
  <1>1. CASE ~ok
    BY <1>1, Failing DEF StartDone
  <1>2. CASE ok
    <2>1. /\ phase = "start" /\ todo = {} /\ Proceed("stop", toUnload)
          /\ running' = next /\ UNCHANGED <<drivers, cmi, loaded>>
      BY <1>2 DEF StartDone, In, ReplaceRunning
    <2>2. Started(HwNames(next)) /\ drivers = Target
      BY <1>2, <2>1 DEF SafetyInv, PhaseInv, StartInv, Started
    <2>3. PhaseInv'
      BY <2>1, <2>2 DEF Proceed, SafetyInv, PhaseInv, PurgeInv, LoadInv, StartInv,
                        StopInv, UnloadInv, Target, Started, HwNames
    <2> QED
      BY <2>1, <2>3
      DEF Proceed, SafetyInv, Coherent, OldConfigurationKept, HalfLoadedIsReported
  <1> QED
    BY <1>1, <1>2 DEF StartDone

(* A parallel stopper keeps the safety invariant.                          *)
LEMMA StopSafe ==
  ASSUME LoaderTypeOK, SafetyInv, node = "up", NEW h \in Hw, StopControllers(h)
  PROVE  SafetyInv'
  <1> PICK result \in BOOLEAN :
             StopHwControllers(h, result) /\ Parallel(h, result)
    BY DEF StopControllers
  <1>1. /\ phase = "stop" /\ h \in todo
        /\ todo' = todo \ {h} /\ Stay
        /\ UNCHANGED <<drivers, cmi, state, running>>
    BY DEF StopControllers, In, Parallel, StopHwControllers
  <1>2. PICK left \in SUBSET loaded[h] : loaded' = [loaded EXCEPT ![h] = left]
    BY DEF StopHwControllers, StopUnloadAllControllers
  <1>3. h \notin HwNames(next)
    BY <1>1 DEF SafetyInv, PhaseInv, StopInv
  <1>4. Started(HwNames(next))'
    BY <1>1, <1>2, <1>3 DEF Stay, SafetyInv, PhaseInv, StopInv, Started, HwNames,
                            LoaderTypeOK
  <1>5. PhaseInv'
    BY <1>1, <1>4 DEF Stay, SafetyInv, PhaseInv, PurgeInv, LoadInv, StartInv,
                      StopInv, UnloadInv, Target, HwNames
  <1> QED
    BY <1>1, <1>5
    DEF Stay, SafetyInv, Coherent, OldConfigurationKept, HalfLoadedIsReported

(* The stoppers hand over to the unloading.                                *)
LEMMA StopDoneSafe ==
  ASSUME SafetyInv, node = "up", StopDone
  PROVE  SafetyInv'
  <1>1. CASE Fail
    BY <1>1, Failing
  <1>2. CASE Proceed("unload", toUnload)
    <2>1. phase = "stop" /\ UNCHANGED <<drivers, cmi, loaded, running>>
      BY DEF StopDone, In, loaderVars
    <2>2. PhaseInv'
      BY <1>2, <2>1 DEF Proceed, SafetyInv, PhaseInv, PurgeInv, LoadInv, StartInv,
                        StopInv, UnloadInv, Target, Started, HwNames
    <2> QED
      BY <1>2, <2>1, <2>2
      DEF Proceed, SafetyInv, Coherent, OldConfigurationKept, HalfLoadedIsReported
  <1> QED
    BY <1>1, <1>2 DEF StopDone

(* Unloading one piece of hardware keeps the safety invariant.             *)
LEMMA UnloadSafe ==
  ASSUME LoaderTypeOK, SafetyInv, node = "up", NEW h \in Hw, UnloadOldHw(h)
  PROVE  SafetyInv'
  <1> PICK result \in BOOLEAN : UnloadHw(h, result) /\ Sequential(h, result)
    BY DEF UnloadOldHw
  <1>1. CASE ~result
    BY <1>1, Failing DEF Sequential
  <1>2. CASE result
    <2>1. phase = "unload" /\ h \in todo
      BY DEF UnloadOldHw, In
    <2>2. /\ todo' = todo \ {h} /\ ok' = ok /\ Stay
          /\ drivers' = drivers \ {h} /\ cmi' = cmi \ {h}
          /\ UNCHANGED running
      BY <1>2 DEF Sequential, UnloadHw
    <2>3. PICK left \in SUBSET loaded[h] : loaded' = [loaded EXCEPT ![h] = left]
      BY DEF UnloadHw, StopUnloadAllControllers
    <2>4. h \notin HwNames(next)
      BY <2>1 DEF SafetyInv, PhaseInv, UnloadInv
    <2>5. Started(HwNames(next))'
      BY <2>1, <2>2, <2>3, <2>4
      DEF Stay, SafetyInv, PhaseInv, UnloadInv, Started, HwNames, LoaderTypeOK
    <2>6. PhaseInv'
      BY <2>1, <2>2, <2>5 DEF Stay, SafetyInv, PhaseInv, PurgeInv, LoadInv,
                              StartInv, StopInv, UnloadInv, HwNames
    <2> QED
      BY <2>1, <2>2, <2>6
      DEF Stay, SafetyInv, Coherent, OldConfigurationKept, HalfLoadedIsReported
  <1> QED
    BY <1>1, <1>2

(* A transition that commits leaves the loader as it reports.              *)
LEMMA CommitSafe ==
  ASSUME LoaderTypeOK, SafetyInv, node = "up", Commit
  PROVE  SafetyInv'
  <1>1. /\ phase = "unload" /\ todo = {} /\ active' = next.name /\ Return("ok")
        /\ UNCHANGED <<drivers, cmi, loaded, running>>
    BY DEF Commit, In, loaderVars
  <1>2. running = next /\ drivers = HwNames(next) /\ Started(HwNames(next))
    BY <1>1 DEF SafetyInv, PhaseInv, UnloadInv
  <1>3. Coherent'
    BY <1>1, <1>2 DEF Coherent, RunsConfiguration, Started, HwNames
  <1>4. HalfLoadedIsReported'
    <2>1. drivers = cmi
      BY <1>2 DEF Started, LoaderTypeOK
    <2> QED
      BY <1>1, <2>1 DEF HalfLoadedIsReported
  <1> QED
    BY <1>1, <1>3, <1>4
    DEF Return, SafetyInv, PhaseInv, PurgeInv, LoadInv, StartInv,
        StopInv, UnloadInv, OldConfigurationKept
(* A step of callback() keeps the safety invariant.                        *)
LEMMA CallbackSafe ==
  ASSUME LoaderTypeOK, SafetyInv, node = "up", CallbackStep
  PROVE  SafetyInv'
  <1>1. CASE NullDereference
    BY <1>1, NotUp DEF NullDereference
  <1> QED
    BY <1>1, PurgeSafe, PurgeDoneSafe, LoadSafe, LoadDoneSafe, StartSafe,
       StartDoneSafe, StopSafe, StopDoneSafe, UnloadSafe, CommitSafe
    DEF CallbackStep

(* A step of the main thread keeps the safety invariant.                   *)
LEMMA MainSafe ==
  ASSUME SafetyInv, node = "up", MainStep
  PROVE  SafetyInv'
  <1>1. CASE node' # "up"
    BY <1>1, NotUp
  <1>2. CASE node' = "up"
    <2>1. MainUnchanged
      BY <1>2 DEF MainStep, LoadConfigurations, DanglingConfiguration, CheckHw,
                  CheckSignal, TearDown, Gone, TearDownCrash
    <2> QED
      BY <1>2, <2>1, Untouched DEF MainUnchanged, loaderVars
  <1> QED
    BY <1>1, <1>2

(* Clients, parameters, drivers and SIGINT keep the safety invariant.      *)
LEMMA EnvironmentSafe ==
  ASSUME SafetyInv, node = "up", Environment
  PROVE  SafetyInv'
  <1>1. UNCHANGED <<drivers, cmi, loaded, running, active, outcome, node,
                    callbackVars>>
    BY DEF Environment, Call, ListConfigurations, EditServer, DriverStep, HwFault,
           LateRun, Interrupt, loaderVars
  <1> QED
    BY <1>1, Untouched

(* A node that exits or has crashed never comes up again.                  *)
LEMMA NeverUpAgain ==
  ASSUME [Next]_vars, node # "up"
  PROVE  node' # "up"
  BY DEF Next, vars, Service, AlreadyActive, NotListed, ParamsMissing, Answer,
         StartConfiguration, StopConfiguration, EnterCallback, CallbackStep,
         PurgeHw, PurgeDone, LoadNextHw, LoadDone, StartControllers, StartDone,
         StopControllers, StopDone, UnloadOldHw, Commit, NullDereference,
         Sequential, Parallel, Proceed, Stay, Fail, Return, AfterMainStop,
         MainStep, LoadConfigurations, DanglingConfiguration, CheckHw,
         CheckSignal, TearDown, Gone, TearDownCrash, MainUnchanged, Environment,
         Call, ListConfigurations, EditServer, DriverStep, Interrupt

(* With the types, the safety invariant is inductive.                      *)
LEMMA StepSafe ==
  ASSUME LoaderTypeOK, HolderServes, SafetyInv, [Next]_vars
  PROVE  SafetyInv'
  <1>1. CASE node # "up"
    BY <1>1, NeverUpAgain, NotUp
  <1>2. CASE node = "up" /\ UNCHANGED vars
    BY <1>2, Untouched DEF vars, loaderVars
  <1> QED
    BY <1>1, <1>2, ServiceSafe, CallbackSafe, MainSafe, EnvironmentSafe DEF Next

-----------------------------------------------------------------------------
(* The mutex.  A callback gives it back exactly when it returns.           *)
LEMMA Entering ==
  ASSUME HolderServes, NEW t \in Threads, request[t] # NoRequest,
         NEW c, EnterCallback(t, c)
  PROVE  HolderServes'
  <1>1. NoThread \notin Threads
    BY ManagerAssumption DEF Threads
  <1> QED
    BY <1>1 DEF EnterCallback, HolderServes

(* HolderServes is inductive: a callback gives the mutex back with its     *)
(* locals, and nobody ends the request of the holder.                      *)
LEMMA StepMutex ==
  ASSUME ManagerTypeOK, HolderServes, [Next]_vars
  PROVE  HolderServes'
  <1>1. ASSUME NEW t \in Threads, Service(t)
        PROVE  HolderServes'
    <2>1. CASE AlreadyActive(t) \/ NotListed(t) \/ ParamsMissing(t)
      BY <1>1, <2>1 DEF AlreadyActive, NotListed, ParamsMissing, Answer, Granted,
                        HolderServes, callbackVars
    <2>2. CASE StartConfiguration(t) \/ StopConfiguration(t)
      BY <1>1, <2>2, Entering DEF StartConfiguration, StopConfiguration, Granted
    <2> QED
      BY <1>1, <2>1, <2>2 DEF Service
  <1>2. CASE CallbackStep
    <2>1. ASSUME NEW result, Return(result)
          PROVE  HolderServes'
      BY <2>1 DEF Return, HolderServes
    <2>2. ASSUME Stay
          PROVE  HolderServes'
      BY <2>2 DEF Stay, HolderServes
    <2>3. ASSUME NEW p \in Phases \ {"idle"}, NEW hw, phase # "idle", Proceed(p, hw)
          PROVE  HolderServes'
      BY <2>3 DEF Proceed, HolderServes
    <2>4. CASE \E h \in Hw, result \in BOOLEAN :
                 Sequential(h, result) \/ Parallel(h, result)
      BY <2>1, <2>2, <2>4 DEF Sequential, Parallel, Fail
    <2>5. CASE PurgeDone \/ LoadDone \/ StartDone \/ StopDone \/ Commit
      BY <2>1, <2>3, <2>5 DEF PurgeDone, LoadDone, StartDone, StopDone, Commit, Fail,
                              In, Phases
    <2>6. CASE NullDereference
      BY <2>6 DEF NullDereference, HolderServes, callbackVars
    <2> QED
      BY <1>2, <2>4, <2>5, <2>6
      DEF CallbackStep, PurgeHw, LoadNextHw, StartControllers, StopControllers,
          UnloadOldHw
  <1>3. CASE MainStep
    <2>1. /\ UNCHANGED <<lock, callbackVars>>
          /\ request' = request \/ request' = [request EXCEPT ![Main] = MainStop]
      BY <1>3 DEF MainStep, LoadConfigurations, DanglingConfiguration, CheckHw,
                  CheckSignal, TearDown, Gone, TearDownCrash, MainUnchanged
    <2>2. MainStop # NoRequest
      BY ManagerAssumption
    <2> QED
      <3>1. request \in [Threads -> Request] /\ lock \in Threads \cup {NoThread}
        BY DEF ManagerTypeOK
      <3>2. phase' = phase /\ lock' = lock
        BY <2>1 DEF callbackVars
      <3>3. ASSUME lock # NoThread
            PROVE  request'[lock] # NoRequest
        <4>1. lock \in Threads /\ request[lock] # NoRequest
          BY <3>1, <3>3 DEF HolderServes
        <4>2. CASE request' = request
          BY <4>1, <4>2
        <4>3. CASE request' = [request EXCEPT ![Main] = MainStop]
          BY <2>2, <3>1, <4>1, <4>3
        <4> QED
          BY <2>1, <4>2, <4>3
      <3> QED
        BY <3>2, <3>3 DEF HolderServes
  <1>4. CASE Environment
    <2>1. CASE request' = request
      BY <1>4, <2>1 DEF Environment, Call, ListConfigurations, EditServer,
                        DriverStep, Interrupt, HolderServes, callbackVars
    <2>2. ASSUME NEW t \in Clients, Call(t)
          PROVE  HolderServes'
      <3>1. PICK r \in StartRequest \cup StopRequest :
                   request' = [request EXCEPT ![t] = r]
        BY <2>2 DEF Call
      <3>2. r # NoRequest
        BY ManagerAssumption
      <3>3. request \in [Threads -> Request]
        BY DEF ManagerTypeOK
      <3> QED
        BY <2>2, <3>1, <3>2, <3>3 DEF Call, HolderServes, callbackVars
    <2> QED
      BY <1>4, <2>1, <2>2 DEF Environment, ListConfigurations, EditServer,
                              DriverStep, Interrupt
  <1>5. CASE UNCHANGED vars
    BY <1>5 DEF vars, HolderServes, callbackVars
  <1> QED
    BY <1>1, <1>2, <1>3, <1>4, <1>5 DEF Next

(* The bookkeeping holds throughout, also while the node exits.            *)
LEMMA HolderServesAlways == Spec => []HolderServes
  <1>1. Init => HolderServes
    BY DEF Init, HolderServes
  <1> QED
    BY InitTypes, StepTypes, <1>1, StepMutex, PTL DEF Spec

LEMMA InitSafe ==
  ASSUME Init
  PROVE  HolderServes /\ SafetyInv
  <1>1. HolderServes
    BY DEF Init, HolderServes
  <1>2. SafetyInv
    BY DEF Init, LoaderInit, EmptyConfiguration, SafetyInv, PhaseInv, PurgeInv,
           LoadInv, StartInv, StopInv, UnloadInv, Coherent, OldConfigurationKept,
           HalfLoadedIsReported
  <1> QED
    BY <1>1, <1>2

(* What each phase has achieved, and the safety properties with it.        *)
THEOREM Invariance == Spec => [](HolderServes /\ LoaderTypeOK /\ SafetyInv)
  BY InitTypes, StepTypes, InitSafe, StepMutex, StepSafe, PTL DEF Spec

(* What a client was told about the last successful transition is what the *)
(* loader has: whatever failures, faults and requests came before.         *)
THEOREM ReportedSuccessIsTrue == Spec => []Coherent
  <1>1. SafetyInv => Coherent
    BY DEF SafetyInv
  <1> QED
    BY Invariance, <1>1, PTL

(* After a success the next transition never purges, and leaves the        *)
(* running configuration alone until it starts controllers.                *)
THEOREM RunningConfigurationUndisturbed == Spec => []OldConfigurationKept
  <1>1. SafetyInv => OldConfigurationKept
    BY DEF SafetyInv
  <1> QED
    BY Invariance, <1>1, PTL

(* A driver without controller manager is behind a failure that was        *)
(* reported, and only there.                                               *)
THEOREM HalfLoadedOnlyAfterFailure == Spec => []HalfLoadedIsReported
  <1>1. SafetyInv => HalfLoadedIsReported
    BY DEF SafetyInv
  <1> QED
    BY Invariance, <1>1, PTL

(* loadHw() is never asked for hardware that is in drivers_, and the       *)
(* parallel starters and stoppers find every driver they look up.          *)
THEOREM LookupsSucceed == Spec => []DriversAsAssumed
  <1>1. SafetyInv => (node = "up" /\ phase = "load" => todo \cap drivers = {})
    BY DEF SafetyInv, PhaseInv, LoadInv
  <1>2. SafetyInv =>
          (node = "up" =>
             /\ phase = "start" => HwNames(next) \subseteq drivers
             /\ phase \in {"start", "stop"} => toUnload \subseteq drivers)
    BY DEF SafetyInv, PhaseInv, StartInv, StopInv, Target
  <1>3. SafetyInv => DriversAsAssumed
    BY <1>1, <1>2 DEF DriversAsAssumed
  <1> QED
    BY Invariance, <1>3, PTL

(* No service replaces the configurations under a transition.              *)
THEOREM ConfigurationsHeldInCallback == Spec => ConfigurationHeld
  <1>1. HolderServes /\ [Next]_vars
          => [phase # "idle" /\ main # "init"
                => configurations' = configurations]_vars
    <2> SUFFICES ASSUME HolderServes, Next, phase # "idle", main # "init"
                 PROVE  configurations' = configurations
      OBVIOUS
    <2>1. lock # NoThread
      BY DEF HolderServes
    <2>2. ASSUME NEW t \in Threads, Service(t)
          PROVE  configurations' = configurations
      BY <2>1, <2>2 DEF Service, AlreadyActive, NotListed, ParamsMissing,
                        StartConfiguration, StopConfiguration, Granted
    <2>3. CASE CallbackStep
      BY <2>3
      DEF CallbackStep, PurgeHw, PurgeDone, LoadNextHw, LoadDone, StartControllers,
          StartDone, StopControllers, StopDone, UnloadOldHw, Commit,
          NullDereference, Sequential, Parallel, Proceed, Stay, Fail
    <2>4. CASE MainStep
      BY <2>4 DEF MainStep, LoadConfigurations, DanglingConfiguration, CheckHw,
                  CheckSignal, TearDown, Gone, TearDownCrash
    <2>5. CASE Environment
      BY <2>1, <2>5 DEF Environment, Call, ListConfigurations, EditServer,
                        DriverStep, Interrupt
    <2> QED
      BY <2>2, <2>3, <2>4, <2>5 DEF Next
  <1> QED
    BY HolderServesAlways, <1>1, PTL DEF Spec, ConfigurationHeld

-----------------------------------------------------------------------------
(* A transition cannot run in circles.                                     *)
Following ==
  [purge |-> {"load", "start", "stop", "unload"},
   load |-> {"start", "stop", "unload"},
   start |-> {"stop", "unload"},
   stop |-> {"unload"},
   unload |-> {}]

(* Whatever else happens, a transition in progress keeps its holder and    *)
(* its goal, and a step of it gives the mutex back, enters a later phase,  *)
(* or is done with one more piece of hardware: there are as many steps in  *)
(* it as there is hardware to treat, and no more.                          *)
MovesOn ==
  \/ UNCHANGED <<lock, next, phase, todo>>
  \/ lock' = NoThread
  \/ /\ UNCHANGED <<lock, next>>
     /\ \/ phase' \in Following[phase]
        \/ phase' = phase /\ \E h \in todo : todo' = todo \ {h}

(* That a service call is answered under fairness (RequestAnswered) is     *)
(* beyond this prover; that nothing but waiting can keep it from being     *)
(* answered is not.  (callback.)                                           *)
THEOREM TransitionsMoveOn == Spec => [][phase # "idle" => MovesOn]_vars
  <1>1. ASSUME HolderServes, [Next]_vars, phase # "idle"
        PROVE  MovesOn
    <2>1. ASSUME NEW t \in Threads, Service(t)
          PROVE  MovesOn
      BY <1>1, <2>1 DEF HolderServes, Service, AlreadyActive, NotListed,
                        ParamsMissing, StartConfiguration, StopConfiguration, Granted
    <2>2. ASSUME NEW h \in Hw, PurgeHw(h) \/ LoadNextHw(h) \/ UnloadOldHw(h)
          PROVE  MovesOn
      BY <2>2 DEF PurgeHw, LoadNextHw, UnloadOldHw, Sequential, Stay, Fail, Return,
                  MovesOn
    <2>3. ASSUME NEW h \in Hw, StartControllers(h) \/ StopControllers(h)
          PROVE  MovesOn
      BY <2>3 DEF StartControllers, StopControllers, Parallel, Stay, MovesOn
    <2>4. CASE PurgeDone \/ LoadDone \/ StartDone \/ StopDone
      BY <2>4 DEF PurgeDone, LoadDone, StartDone, StopDone, In, Proceed, Fail,
                  Return, MovesOn, Following
    <2>5. CASE Commit \/ NullDereference
      BY <2>5 DEF Commit, Return, NullDereference, callbackVars, MovesOn
    <2>6. CASE MainStep \/ Environment
      BY <2>6 DEF MainStep, LoadConfigurations, DanglingConfiguration, CheckHw,
                  CheckSignal, TearDown, Gone, TearDownCrash, MainUnchanged,
                  Environment, Call, ListConfigurations, EditServer, DriverStep,
                  Interrupt, callbackVars, MovesOn
    <2>7. CASE UNCHANGED vars
      BY <2>7 DEF vars, callbackVars, MovesOn
    <2> QED
      BY <1>1, <2>1, <2>2, <2>3, <2>4, <2>5, <2>6, <2>7 DEF Next, CallbackStep
  <1> QED
    BY HolderServesAlways, <1>1, PTL DEF Spec

-----------------------------------------------------------------------------
(* What the main thread still has to do when SIGINT has come: at most one  *)
(* stop for a fault, and the one for the signal.                           *)
MainLeft ==
  [init |-> 4, check |-> 3, faultStop |-> 2, signal |-> 1, signalStop |-> 0]

ExitCloser ==
  /\ signal'
  /\ main' = main \/ node' # "up" \/ MainLeft[main'] < MainLeft[main]

(* The safety half of InterruptEnds: SIGINT is not forgotten, and every    *)
(* step of the main thread brings the node closer to its exit, whatever    *)
(* the stops return and whatever the services do in between.  (run, main.) *)
THEOREM InterruptLeadsOut == Spec => [][node = "up" /\ signal => ExitCloser]_vars
  <1>1. ASSUME Next, node = "up", signal
        PROVE  ExitCloser
    <2> USE <1>1 DEF ExitCloser, MainLeft
    <2>1. ASSUME NEW t \in Threads, Service(t)
          PROVE  ExitCloser
      BY <2>1 DEF Service, AlreadyActive, NotListed, ParamsMissing, Answer,
                  StartConfiguration, StopConfiguration, EnterCallback, envVars
    <2>2. ASSUME NEW result, Return(result), UNCHANGED signal
          PROVE  ExitCloser
      BY <2>2 DEF Return, AfterMainStop
    <2>3. ASSUME NEW h \in Hw, PurgeHw(h) \/ LoadNextHw(h) \/ UnloadOldHw(h)
          PROVE  ExitCloser
      BY <2>2, <2>3 DEF PurgeHw, LoadNextHw, UnloadOldHw, Sequential, Stay, Fail,
                        envVars
    <2>4. ASSUME NEW h \in Hw, StartControllers(h) \/ StopControllers(h)
          PROVE  ExitCloser
      BY <2>4 DEF StartControllers, StopControllers, Parallel, Stay, envVars
    <2>5. CASE PurgeDone \/ LoadDone \/ StartDone \/ StopDone
      BY <2>2, <2>5 DEF PurgeDone, LoadDone, StartDone, StopDone, Proceed, Fail,
                        envVars
    <2>6. CASE Commit \/ NullDereference
      BY <2>2, <2>6 DEF Commit, NullDereference, envVars
    <2>7. CASE MainStep
      <3>1. CASE LoadConfigurations
        <4>1. /\ signal'
              /\ node' # "up" \/ (main = "init" /\ main' = "check")
          BY <3>1 DEF LoadConfigurations, MainUnchanged, envVars
        <4> QED
          BY <4>1
      <3>2. CASE DanglingConfiguration
        BY <3>2 DEF DanglingConfiguration, MainUnchanged, envVars
      <3>3. CASE CheckHw
        BY <3>3 DEF CheckHw, MainUnchanged, envVars
      <3>4. CASE CheckSignal
        BY <3>4 DEF CheckSignal, MainUnchanged, envVars
      <3>5. CASE (\E h \in Hw : TearDown(h)) \/ Gone \/ TearDownCrash
        BY <3>5 DEF TearDown, Gone, TearDownCrash
      <3> QED
        BY <2>7, <3>1, <3>2, <3>3, <3>4, <3>5 DEF MainStep
    <2>8. CASE Environment
      BY <2>8 DEF Environment, Call, ListConfigurations, EditServer, DriverStep,
                  Interrupt, envVars
    <2> QED
      BY <1>1, <2>1, <2>3, <2>4, <2>5, <2>6, <2>7, <2>8 DEF Next, CallbackStep
  <1>2. [Next]_vars => [node = "up" /\ signal => ExitCloser]_vars
    BY <1>1
  <1> QED
    BY <1>2, PTL DEF Spec

-----------------------------------------------------------------------------
(* The control loop of h has ended on a fault, and the thread that stops   *)
(* or starts its controllers waits for an answer of that loop.             *)
CannotReturn(h) ==
  /\ state[h] = "ERROR"
  /\ loaded[h] # {} \/ (phase = "start" /\ next.components[h] # {})

(* One of the parallel threads is in that situation.  (None of them meets  *)
(* a driver without controller manager, and init() is over: otherwise the  *)
(* node may crash, or give up.)                                            *)
Stuck ==
  /\ node = "up" /\ main # "init"
  /\ phase \in {"start", "stop"}
  /\ todo \subseteq cmi
  /\ \E h \in todo : CannotReturn(h)

LEMMA StuckStep ==
  ASSUME ManagerTypeOK, LoaderTypeOK, HolderServes, Stuck, [Next]_vars
  PROVE  /\ Stuck'
         /\ lock' = lock
         /\ \A t \in Threads : request[t] # NoRequest => request'[t] # NoRequest
  <1> DEFINE Kept == \A t \in Threads : request[t] # NoRequest
                                          => request'[t] # NoRequest
  <1>1. /\ lock # NoThread
        /\ state \in [Hw -> StatusHw]
        /\ loaded \in [Hw -> SUBSET Ctrl]
        /\ request \in [Threads -> Request]
        /\ todo \subseteq Hw
    BY DEF HolderServes, Stuck, LoaderTypeOK, ManagerTypeOK, CallbackTypeOK
  <1>2. ASSUME UNCHANGED <<cmi, loaded, callbackVars, node, lock>>,
               main' # "init",
               \A h \in todo : state[h] = "ERROR" => state'[h] = "ERROR",
               Kept
        PROVE  Stuck' /\ lock' = lock /\ Kept
    BY <1>2 DEF Stuck, CannotReturn, callbackVars
  <1>3. ASSUME NEW t \in Threads, Service(t)
        PROVE  FALSE
    BY <1>1, <1>3 DEF Service, AlreadyActive, NotListed, ParamsMissing,
                      StartConfiguration, StopConfiguration, Granted
  <1>4. ASSUME NEW h \in Hw, StartControllers(h) \/ StopControllers(h)
        PROVE  Stuck' /\ lock' = lock /\ Kept
    <2>1. PICK g \in todo : CannotReturn(g)
      BY DEF Stuck
    <2>2. h \in todo /\ g # h
      BY <1>1, <1>4, <2>1
      DEF StartControllers, StopControllers, In, StartHwControllers,
          StopHwControllers, StopUnloadAllControllers, CannotReturn, Alive, Bare
    <2>3. /\ UNCHANGED <<cmi, state, phase, next, node, main, lock, request>>
          /\ todo' = todo \ {h}
          /\ loaded'[g] = loaded[g]
      BY <1>1, <1>4, <2>2
      DEF StartControllers, StopControllers, StartHwControllers,
          StopHwControllers, StopUnloadAllControllers, Parallel, Stay
    <2>4. g \in todo' /\ CannotReturn(g)'
      BY <2>1, <2>2, <2>3 DEF CannotReturn
    <2> QED
      BY <2>3, <2>4 DEF Stuck
  <1>5. CASE CallbackStep
    <2>1. phase \in {"start", "stop"} /\ todo # {} /\ todo \subseteq cmi
      BY DEF Stuck
    <2> QED
      BY <1>4, <1>5, <2>1
      DEF CallbackStep, In, PurgeHw, LoadNextHw, UnloadOldHw, PurgeDone, LoadDone,
          StartDone, StopDone, Commit, NullDereference, NullController
  <1>6. CASE MainStep
    <2>1. MainStop # NoRequest
      BY ManagerAssumption
    <2>2. main # "init" /\ node = "up"
      BY DEF Stuck
    <2> QED
      BY <1>1, <1>2, <1>6, <2>1, <2>2
      DEF MainStep, LoadConfigurations, DanglingConfiguration, CheckHw,
          CheckSignal, TearDown, Gone, TearDownCrash, MainUnchanged, loaderVars,
          callbackVars
  <1>7. CASE Environment
    <2>1. main # "init"
      BY DEF Stuck
    <2>2. CASE DriverStep
      <3>1. \A h \in todo : state[h] = "ERROR" => state'[h] = "ERROR"
        BY <1>1, <2>2 DEF DriverStep, HwFault, LateRun
      <3> QED
        BY <1>2, <2>1, <2>2, <3>1 DEF DriverStep, HwFault, LateRun
    <2>3. CASE \E t \in Clients : Call(t)
      <3>1. Kept
        BY <1>1, <2>3 DEF Call
      <3> QED
        BY <1>2, <2>1, <2>3, <3>1 DEF Call, loaderVars
    <2>4. CASE ListConfigurations \/ EditServer \/ Interrupt
      BY <1>2, <2>1, <2>4 DEF ListConfigurations, EditServer, Interrupt, loaderVars
    <2> QED
      BY <1>7, <2>2, <2>3, <2>4 DEF Environment
  <1>8. CASE UNCHANGED vars
    BY <1>2, <1>8 DEF vars, loaderVars, callbackVars, Stuck
  <1> QED
    BY <1>3, <1>5, <1>6, <1>7, <1>8 DEF Next

(* The disagreement that the run cm_fault_stop shows, for every instance:  *)
(* once a thread that starts or stops controllers waits for a control loop *)
(* that has ended, the mutex is never given back, the node stays up        *)
(* whatever signals it gets, and no service call is ever answered, neither *)
(* that of the holder nor another one.  (callback, run, and the control    *)
(* loop of the driver.)                                                    *)
THEOREM FaultBlocksForEver ==
  ASSUME NEW t \in Threads
  PROVE  Spec => [](Stuck /\ request[t] # NoRequest
                      => [](Stuck /\ request[t] # NoRequest))
  <1>1. ManagerTypeOK /\ LoaderTypeOK /\ HolderServes /\ [Next]_vars =>
          (Stuck /\ request[t] # NoRequest => (Stuck /\ request[t] # NoRequest)')
    BY StuckStep
  <1>2. Spec => [](ManagerTypeOK /\ LoaderTypeOK /\ HolderServes)
    BY InitTypes, StepTypes, Invariance, PTL DEF Spec
  <1> QED
    BY <1>1, <1>2, PTL DEF Spec

=============================================================================
