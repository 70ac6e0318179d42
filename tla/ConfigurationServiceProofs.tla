--------------------- MODULE ConfigurationServiceProofs ---------------------
(***************************************************************************)
(* The configuration manager implements the transactional service of       *)
(* ConfigurationService, for any hardware, controllers, configurations,    *)
(* threads and bounds.  Every step of a phase is a piece of work that the  *)
(* stage allows, or changes nothing that can be seen from outside.         *)
(***************************************************************************)
EXTENDS ConfigurationManagerProofs

(* Hardware that is not in drivers_ has no controllers: what is loaded     *)
(* next comes in bare.                                                     *)
NothingLeftBehind == \A h \in Hw \ drivers : loaded[h] = {}

(* The main thread asks for a stop exactly while it waits for one.         *)
MainAsksToStop ==
  node = "up" =>
    /\ request[Main] \in {NoRequest, MainStop}
    /\ request[Main] # NoRequest <=> main \in {"faultStop", "signalStop"}

-----------------------------------------------------------------------------
(* What an operation of the loader does to what is loaded.                 *)
LEMMA UnloadRemoves ==
  ASSUME LoaderTypeOK, NEW h \in drivers, NEW result \in BOOLEAN,
         UnloadHw(h, result)
  PROVE  Promised!Remove(h)
  <1>1. PICK left \in SUBSET loaded[h] :
          /\ result => left = {}
          /\ loaded' = [loaded EXCEPT ![h] = left]
    BY DEF UnloadHw, StopUnloadAllControllers
  <1>2. CASE result
    <2>1. drivers' = drivers \ {h} /\ \A g \in drivers' : loaded'[g] = loaded[g]
      BY <1>1, <1>2 DEF UnloadHw, LoaderTypeOK
    <2>2. ContentBar' = [g \in DOMAIN ContentBar \ {h} |-> ContentBar[g]]
      BY <2>1 DEF ContentBar
    <2> QED
      BY <2>2 DEF Promised!Remove, ContentBar
  <1>3. CASE ~result
    <2>1. drivers' = drivers
      BY <1>3 DEF UnloadHw
    <2>2. ContentBar' = [ContentBar EXCEPT ![h] = left]
      BY <1>1, <2>1 DEF ContentBar, LoaderTypeOK
    <2>3. left \in SUBSET ContentBar[h]
      BY <1>1 DEF ContentBar
    <2> QED
      BY <2>2, <2>3 DEF Promised!Remove, ContentBar
  <1> QED
    BY <1>2, <1>3

LEMMA StopRemoves ==
  ASSUME LoaderTypeOK, NEW h \in drivers, NEW result \in BOOLEAN,
         StopHwControllers(h, result)
  PROVE  Promised!Remove(h)
  <1>1. PICK left \in SUBSET loaded[h] : loaded' = [loaded EXCEPT ![h] = left]
    BY DEF StopHwControllers, StopUnloadAllControllers
  <1>2. drivers' = drivers
    BY DEF StopHwControllers
  <1>3. ContentBar' = [ContentBar EXCEPT ![h] = left]
    BY <1>1, <1>2 DEF ContentBar, LoaderTypeOK
  <1> QED
    BY <1>1, <1>3 DEF Promised!Remove, ContentBar

LEMMA StartReplaces ==
  ASSUME LoaderTypeOK, NEW h \in drivers, NEW result \in BOOLEAN,
         StartHwControllers(h, next.components[h], result)
  PROVE  Promised!Replace(h)
  <1>1. PICK now \in SUBSET (loaded[h] \cup next.components[h]) :
          loaded' = [loaded EXCEPT ![h] = now]
    BY DEF StartHwControllers
  <1>2. drivers' = drivers
    BY DEF StartHwControllers
  <1>3. ContentBar' = [ContentBar EXCEPT ![h] = now]
    BY <1>1, <1>2 DEF ContentBar, LoaderTypeOK
  <1> QED
    BY <1>1, <1>3 DEF Promised!Replace, ContentBar

LEMMA LoadAdds ==
  ASSUME LoaderTypeOK, NothingLeftBehind, NEW h \in Hw \ drivers,
         NEW result \in BOOLEAN, LoadHw(h, result)
  PROVE  Promised!Add(h) \/ (~result /\ ContentBar' = ContentBar)
  <1>1. CASE HwParamBroken(h, result)
    BY <1>1 DEF HwParamBroken, loaderVars, ContentBar
  <1>2. CASE drivers' = drivers \cup {h} /\ loaded' = loaded
    <2>1. ContentBar' = [g \in DOMAIN ContentBar \cup {h} |->
                           IF g = h THEN {} ELSE ContentBar[g]]
      BY <1>2 DEF ContentBar, NothingLeftBehind
    <2> QED
      BY <2>1 DEF Promised!Add, ContentBar
  <1> QED
    BY <1>1, <1>2 DEF LoadHw, InitFails, InitAndStart

-----------------------------------------------------------------------------
(* The two auxiliary invariants.                                           *)
LEMMA StepNothingLeft ==
  ASSUME LoaderTypeOK, NothingLeftBehind, [Next]_vars
  PROVE  NothingLeftBehind'
  <1>1. ASSUME NEW h \in Hw, NEW result \in BOOLEAN, UnloadHw(h, result)
        PROVE  NothingLeftBehind'
    BY <1>1 DEF UnloadHw, StopUnloadAllControllers, LoaderTypeOK,
                NothingLeftBehind
  <1>2. ASSUME NEW h \in Hw, NEW result \in BOOLEAN, LoadHw(h, result)
        PROVE  NothingLeftBehind'
    BY <1>2 DEF LoadHw, HwParamBroken, InitFails, InitAndStart, loaderVars,
                NothingLeftBehind
  <1>3. ASSUME NEW h \in Hw, NEW result \in BOOLEAN,
               \/ StopHwControllers(h, result)
               \/ StartHwControllers(h, next.components[h], result)
        PROVE  NothingLeftBehind'
    BY <1>3 DEF StopHwControllers, StopUnloadAllControllers, StartHwControllers,
                LoaderTypeOK, NothingLeftBehind
  <1>4. ASSUME UNCHANGED <<drivers, loaded>>
        PROVE  NothingLeftBehind'
    BY <1>4 DEF NothingLeftBehind
  <1>5. ASSUME NEW t \in Threads, Service(t)
        PROVE  NothingLeftBehind'
    BY <1>4, <1>5 DEF Service, AlreadyActive, NotListed, ParamsMissing, Answer,
                      StartConfiguration, StopConfiguration, EnterCallback,
                      loaderVars
  <1>6. CASE CallbackStep
    BY <1>1, <1>2, <1>3, <1>4, <1>6
    DEF CallbackStep, PurgeHw, LoadNextHw, StartControllers, StopControllers,
        UnloadOldHw, PurgeDone, LoadDone, StartDone, StopDone, Commit,
        NullDereference, ReplaceRunning, loaderVars
  <1>7. CASE MainStep
    BY <1>1, <1>4, <1>7
    DEF MainStep, LoadConfigurations, DanglingConfiguration, CheckHw, CheckSignal,
        TearDown, Gone, TearDownCrash, MainUnchanged, loaderVars
  <1>8. CASE Environment
    BY <1>4, <1>8 DEF Environment, Call, ListConfigurations, EditServer,
                      DriverStep, Interrupt, HwFault, LateRun, loaderVars
  <1>9. CASE UNCHANGED vars
    BY <1>4, <1>9 DEF vars, loaderVars
  <1> QED
    BY <1>5, <1>6, <1>7, <1>8, <1>9 DEF Next

(* The requests are only touched by the threads they belong to.            *)
LEMMA StepMainAsks ==
  ASSUME ManagerTypeOK, HolderServes, MainAsksToStop, [Next]_vars
  PROVE  MainAsksToStop'
  <1> SUFFICES ASSUME node = "up", node' = "up"
               PROVE  MainAsksToStop'
    BY NeverUpAgain DEF MainAsksToStop
  <1>1. /\ request \in [Threads -> Request]
        /\ Main \in Threads
        /\ lock \in Threads \cup {NoThread}
    BY DEF ManagerTypeOK, Threads
  <1>2. MainStop # NoRequest /\ MainStop.kind = "stop" /\ Main \notin Clients
    BY ManagerAssumption DEF MainStop
  <1>3. ASSUME UNCHANGED <<main, request>>
        PROVE  MainAsksToStop'
    BY <1>3 DEF MainAsksToStop
  <1>4. ASSUME NEW t \in Threads \ {Main}, NEW r,
               request' = [request EXCEPT ![t] = r], main' = main
        PROVE  MainAsksToStop'
    BY <1>1, <1>4 DEF MainAsksToStop
  <1>5. ASSUME NEW t \in Threads, Service(t)
        PROVE  MainAsksToStop'
    <2>1. CASE t = Main
      BY <1>2, <1>3, <1>5, <2>1
      DEF MainAsksToStop, Service, AlreadyActive, NotListed, ParamsMissing,
          StartConfiguration, StopConfiguration, Granted, EnterCallback
    <2>2. CASE t # Main
      BY <1>3, <1>4, <1>5, <2>2
      DEF Service, AlreadyActive, NotListed, ParamsMissing, Answer,
          StartConfiguration, StopConfiguration, EnterCallback
    <2> QED
      BY <2>1, <2>2
  <1>6. ASSUME NEW result, Return(result), phase # "idle"
        PROVE  MainAsksToStop'
    <2>1. lock \in Threads
      BY <1>1, <1>6 DEF HolderServes
    <2>2. CASE lock = Main
      BY <1>1, <1>6, <2>2 DEF Return, AfterMainStop, MainAsksToStop
    <2>3. CASE lock # Main
      BY <1>4, <1>6, <2>1, <2>3 DEF Return
    <2> QED
      BY <2>2, <2>3
  <1>7. CASE CallbackStep
    <2>1. CASE phase = "idle"
      BY <1>7, <2>1
      DEF CallbackStep, In, PurgeHw, LoadNextHw, StartControllers, StopControllers,
          UnloadOldHw, PurgeDone, LoadDone, StartDone, StopDone, Commit,
          NullDereference
    <2>2. CASE phase # "idle"
      BY <1>3, <1>6, <1>7, <2>2
      DEF CallbackStep, PurgeHw, LoadNextHw, StartControllers, StopControllers,
          UnloadOldHw, PurgeDone, LoadDone, StartDone, StopDone, Commit,
          NullDereference, Sequential, Parallel, Proceed, Stay, Fail
    <2> QED
      BY <2>1, <2>2
  <1>8. CASE MainStep
    BY <1>1, <1>2, <1>3, <1>8
    DEF MainStep, LoadConfigurations, DanglingConfiguration, CheckHw, CheckSignal,
        TearDown, Gone, TearDownCrash, MainAsksToStop
  <1>9. CASE Environment
    BY <1>2, <1>3, <1>4, <1>9
    DEF Environment, Call, ListConfigurations, EditServer, DriverStep, Interrupt,
        Threads
  <1>10. CASE UNCHANGED vars
    BY <1>3, <1>10 DEF vars
  <1> QED
    BY <1>5, <1>7, <1>8, <1>9, <1>10 DEF Next

-----------------------------------------------------------------------------
(* The implementation of the steps, one kind of step at a time.            *)

(* A step that takes the node down: nothing is promised of it.             *)
LEMMA Leaving ==
  ASSUME node' # "up"
  PROVE  Promised!Next
  BY DEF Promised!Next, Promised!Leave

(* A step that cannot be seen from outside.                                *)
LEMMA Unseen ==
  ASSUME UNCHANGED <<request, lock, phase, next, drivers, loaded, running, active,
                     outcome, node>>
  PROVE  UNCHANGED Promised!vars
  BY DEF Promised!vars, StageBar, ContentBar, TidyBar, HwNames

(* A request that arrives.                                                 *)
LEMMA Asking ==
  ASSUME node = "up", NEW t \in Threads, NEW r \in StartRequest \cup StopRequest,
         request[t] = NoRequest, request' = [request EXCEPT ![t] = r],
         UNCHANGED <<lock, phase, next, drivers, loaded, running, active,
                     outcome, node>>
  PROVE  Promised!Next
  <1>1. r \in Promised!Requests
    BY DEF Promised!Requests, StartRequest, StopRequest
  <1>2. UNCHANGED <<StageBar, ContentBar, TidyBar>>
    BY DEF StageBar, ContentBar, TidyBar, HwNames
  <1>3. Promised!Ask(t)
    BY <1>1, <1>2 DEF Promised!Ask
  <1> QED
    BY <1>3 DEF Promised!Next

(* A start that is answered at once.                                       *)
LEMMA Declining ==
  ASSUME node = "up", HolderServes, NEW t \in Threads, Granted(t, "start"),
         request' = [request EXCEPT ![t] = NoRequest],
         outcome' \in {outcome, "failed"},
         UNCHANGED <<lock, phase, next, drivers, loaded, running, active, node>>
  PROVE  Promised!Next
  <1>1. StageBar = "idle"
    BY DEF StageBar, Granted, HolderServes
  <1>2. UNCHANGED <<StageBar, ContentBar, TidyBar>>
    BY DEF StageBar, ContentBar, TidyBar, HwNames
  <1>3. Promised!Decline(t)
    BY <1>1, <1>2 DEF Promised!Decline, Granted
  <1> QED
    BY <1>3 DEF Promised!Next

(* The beginning of a transition.                                          *)
LEMMA Beginning ==
  ASSUME node = "up", HolderServes, NEW t \in Threads, NEW c,
         Granted(t, "start") \/ Granted(t, "stop"),
         c \in Promised!Goals(request[t]),
         request[t].kind = "start" => c.name # active,
         EnterCallback(t, c)
  PROVE  Promised!Next
  <1>1. phase = "idle" /\ request[t] # NoRequest
    BY DEF Granted, HolderServes
  <1>2. /\ next' = c /\ lock' = t
        /\ phase' = IF HwNames(running) = drivers THEN "load" ELSE "purge"
        /\ UNCHANGED <<drivers, loaded, running, request, active, outcome, node>>
    BY DEF EnterCallback, loaderVars
  <1>3. StageBar = "idle" /\ StageBar' = IF TidyBar THEN "prepare" ELSE "clear"
    BY <1>1, <1>2 DEF StageBar, TidyBar
  <1>4. TidyBar' = FALSE /\ ContentBar' = ContentBar
    BY <1>2 DEF TidyBar, ContentBar
  <1>5. Promised!Begin(t)
    BY <1>1, <1>2, <1>3, <1>4 DEF Promised!Begin
  <1> QED
    BY <1>2, <1>5 DEF Promised!Next

(* A piece of work after which the transition goes on.                     *)
LEMMA Working ==
  ASSUME node = "up", NEW h \in Hw, phase # "idle", Promised!Work(h),
         UNCHANGED <<request, lock, phase, next, active, outcome, node>>
  PROVE  Promised!Next
  <1>1. UNCHANGED <<StageBar, TidyBar>>
    BY DEF StageBar, TidyBar
  <1>2. Promised!Proceed(h)
    BY <1>1 DEF Promised!Proceed
  <1> QED
    BY <1>2 DEF Promised!Next

(* A transition that gives up.                                             *)
LEMMA Failed ==
  ASSUME node = "up", phase \in Phases \ {"idle"}, Fail,
         ContentBar' = ContentBar \/ \E h \in Hw : Promised!Work(h)
  PROVE  Promised!Next
  <1>1. CASE node' # "up"
    BY <1>1, Leaving
  <1>2. CASE node' = "up"
    <2>1. StageBar # "idle" /\ StageBar' = "idle"
      BY DEF StageBar, Fail, Return, Phases
    <2>2. /\ lock' = NoThread /\ next' = EmptyConfiguration
          /\ request' = [request EXCEPT ![lock] = NoRequest]
          /\ outcome' = "failed" /\ active' = active
      BY DEF Fail, Return
    <2>3. TidyBar' \in BOOLEAN
      BY DEF TidyBar
    <2>4. Promised!Answered
      BY <2>1, <2>2
      DEF Promised!Answered, Promised!Empty, Promised!Nothing, EmptyConfiguration,
          NoComponents
    <2>5. Promised!Fail
      BY <2>1, <2>2, <2>3, <2>4 DEF Promised!Fail
    <2> QED
      BY <1>2, <2>5 DEF Promised!Next
  <1> QED
    BY <1>1, <1>2

-----------------------------------------------------------------------------
(* What is known of a state from which a step is taken.                    *)
ServiceInv ==
  /\ LoaderTypeOK
  /\ ManagerTypeOK
  /\ HolderServes
  /\ SafetyInv
  /\ NothingLeftBehind
  /\ MainAsksToStop

(* A service is asked for, or answered, or begins a transition.            *)
LEMMA ServiceImplements ==
  ASSUME ServiceInv, node = "up", NEW t \in Threads, Service(t)
  PROVE  Promised!Next
  <1>1. HolderServes /\ request \in [Threads -> Request]
    BY DEF ServiceInv, ManagerTypeOK
  <1>2. CASE AlreadyActive(t) \/ NotListed(t)
    BY <1>1, <1>2, Declining
    DEF AlreadyActive, NotListed, Answer, callbackVars, loaderVars
  <1>3. CASE ParamsMissing(t)
    BY <1>1, <1>3, Declining DEF ParamsMissing, callbackVars, loaderVars
  <1>4. CASE StartConfiguration(t)
    <2>1. configurations[request[t].name] \in Defs
      BY <1>4 DEF ServiceInv, ManagerTypeOK, StartConfiguration, Listed
    <2>2. [name |-> request[t].name,
           components |-> configurations[request[t].name]]
            \in Promised!Goals(request[t])
      BY <1>4, <2>1 DEF Promised!Goals, StartConfiguration, Granted, Listed
    <2> QED
      BY <1>1, <1>4, <2>2, Beginning DEF StartConfiguration, Listed
  <1>5. CASE StopConfiguration(t)
    <2>1. request[t].kind = "stop"
      BY <1>5 DEF StopConfiguration, Granted
    <2>2. EmptyConfiguration \in Promised!Goals(request[t])
      BY <2>1 DEF Promised!Goals, Promised!Empty, Promised!Nothing,
                  EmptyConfiguration, NoComponents
    <2> QED
      BY <1>1, <1>5, <2>1, <2>2, Beginning DEF StopConfiguration
  <1> QED
    BY <1>2, <1>3, <1>4, <1>5 DEF Service

(* The steps of a phase on one piece of hardware.                          *)
LEMMA SequentialImplements ==
  ASSUME node = "up", phase \in Phases \ {"idle"}, NEW h \in Hw,
         NEW result \in BOOLEAN, Sequential(h, result),
         Promised!Work(h) \/ (~result /\ ContentBar' = ContentBar)
  PROVE  Promised!Next
  <1>1. CASE result
    BY <1>1, Working DEF Sequential, Stay
  <1>2. CASE ~result
    BY <1>2, Failed DEF Sequential
  <1> QED
    BY <1>1, <1>2

LEMMA HwStepImplements ==
  ASSUME ServiceInv, node = "up", NEW h \in Hw,
         \/ PurgeHw(h) \/ LoadNextHw(h) \/ StartControllers(h)
         \/ StopControllers(h) \/ UnloadOldHw(h)
  PROVE  Promised!Next
  <1>1. Promised!Wanted = HwNames(next)
    BY DEF Promised!Wanted, HwNames
  <1>2. CASE PurgeHw(h)
    <2>1. PICK result \in BOOLEAN : UnloadHw(h, result) /\ Sequential(h, result)
      BY <1>2 DEF PurgeHw
    <2>2. phase = "purge" /\ h \in drivers
      BY <1>2 DEF PurgeHw, In, ServiceInv, SafetyInv, PhaseInv, PurgeInv
    <2>3. Promised!Remove(h)
      BY <2>1, <2>2, UnloadRemoves DEF ServiceInv
    <2>4. Promised!Work(h)
      BY <2>2, <2>3 DEF Promised!Work, StageBar
    <2> QED
      BY <2>1, <2>2, <2>4, SequentialImplements DEF Phases
  <1>3. CASE LoadNextHw(h)
    <2>1. PICK result \in BOOLEAN : LoadHw(h, result) /\ Sequential(h, result)
      BY <1>3 DEF LoadNextHw
    <2>2. phase = "load" /\ h \in Hw \ drivers
      BY <1>3 DEF LoadNextHw, In, ServiceInv, SafetyInv, PhaseInv, LoadInv
    <2>3. Promised!Add(h) \/ (~result /\ ContentBar' = ContentBar)
      BY <2>1, <2>2, LoadAdds DEF ServiceInv
    <2>4. Promised!Work(h) \/ (~result /\ ContentBar' = ContentBar)
      BY <2>2, <2>3 DEF Promised!Work, StageBar
    <2> QED
      BY <2>1, <2>2, <2>4, SequentialImplements DEF Phases
  <1>4. CASE StartControllers(h)
    <2>1. PICK result \in BOOLEAN :
            /\ StartHwControllers(h, next.components[h], result)
            /\ Parallel(h, result)
      BY <1>4 DEF StartControllers
    <2>2. phase = "start" /\ h \in drivers /\ h \in HwNames(next)
      BY <1>4 DEF StartControllers, In, ServiceInv, ManagerTypeOK, CallbackTypeOK,
                  SafetyInv, PhaseInv, StartInv, Target
    <2>3. Promised!Replace(h)
      BY <2>1, <2>2, StartReplaces DEF ServiceInv
    <2>4. Promised!Work(h)
      BY <1>1, <2>2, <2>3 DEF Promised!Work, StageBar
    <2> QED
      BY <2>1, <2>2, <2>4, Working DEF Parallel, Stay
  <1>5. CASE StopControllers(h)
    <2>1. PICK result \in BOOLEAN :
            StopHwControllers(h, result) /\ Parallel(h, result)
      BY <1>5 DEF StopControllers
    <2>2. phase = "stop" /\ h \in drivers /\ h \notin HwNames(next)
      BY <1>5 DEF StopControllers, In, ServiceInv, SafetyInv, PhaseInv, StopInv,
                  Target
    <2>3. Promised!Remove(h)
      BY <2>1, <2>2, StopRemoves DEF ServiceInv
    <2>4. Promised!Work(h)
      BY <1>1, <2>2, <2>3 DEF Promised!Work, StageBar
    <2> QED
      BY <2>1, <2>2, <2>4, Working DEF Parallel, Stay
  <1>6. CASE UnloadOldHw(h)
    <2>1. PICK result \in BOOLEAN : UnloadHw(h, result) /\ Sequential(h, result)
      BY <1>6 DEF UnloadOldHw
    <2>2. phase = "unload" /\ h \in drivers /\ h \notin HwNames(next)
      BY <1>6 DEF UnloadOldHw, In, ServiceInv, SafetyInv, PhaseInv, UnloadInv
    <2>3. Promised!Remove(h)
      BY <2>1, <2>2, UnloadRemoves DEF ServiceInv
    <2>4. Promised!Work(h)
      BY <1>1, <2>2, <2>3 DEF Promised!Work, StageBar
    <2> QED
      BY <2>1, <2>2, <2>4, SequentialImplements DEF Phases
  <1> QED
    BY <1>2, <1>3, <1>4, <1>5, <1>6

(* The steps from one phase to the next, and the end of a transition.      *)
LEMMA AdvanceImplements ==
  ASSUME node = "up", NEW p \in Phases \ {"idle"}, NEW hw, Proceed(p, hw),
         phase # "idle", UNCHANGED <<drivers, loaded>>,
         Promised!Cleared \/ Promised!Prepared \/ Promised!Moved
  PROVE  Promised!Next
  <1>1. ContentBar' = ContentBar /\ TidyBar' = TidyBar
    BY DEF ContentBar, TidyBar, Proceed
  <1>2. Promised!Advance
    BY <1>1 DEF Promised!Advance, Proceed
  <1> QED
    BY <1>2 DEF Promised!Next, Proceed

LEMMA PhaseEndImplements ==
  ASSUME ServiceInv, node = "up",
         PurgeDone \/ LoadDone \/ StartDone \/ StopDone \/ Commit
  PROVE  [Promised!Next]_Promised!vars
  <1>1. Promised!Wanted = HwNames(next)
    BY DEF Promised!Wanted, HwNames
  <1>2. SafetyInv /\ LoaderTypeOK /\ next \in Configuration
    BY DEF ServiceInv, ManagerTypeOK, CallbackTypeOK
  <1>3. CASE PurgeDone
    <2>1. phase = "purge" /\ drivers = {}
      BY <1>2, <1>3 DEF PurgeDone, In, SafetyInv, PhaseInv, PurgeInv
    <2>2. ContentBar = Promised!Nothing
      BY <2>1 DEF ContentBar, Promised!Nothing
    <2>3. Proceed("load", toLoad) /\ UNCHANGED <<drivers, loaded>>
      BY <1>3 DEF PurgeDone, loaderVars
    <2>4. Promised!Cleared
      BY <2>1, <2>2, <2>3 DEF Promised!Cleared, StageBar, Proceed
    <2> QED
      BY <2>1, <2>3, <2>4, AdvanceImplements DEF Phases
  <1>4. CASE LoadDone
    <2>1. phase = "load" /\ HwNames(next) \subseteq drivers
      BY <1>2, <1>4 DEF LoadDone, In, SafetyInv, PhaseInv, LoadInv, Target
    <2>2. UNCHANGED <<drivers, loaded>>
      BY <1>4 DEF LoadDone, loaderVars
    <2>3. CASE Proceed("start", HwNames(next))
      <3>1. Promised!Prepared
        BY <1>1, <2>1, <2>3 DEF Promised!Prepared, StageBar, ContentBar, Proceed
      <3> QED
        BY <2>1, <2>2, <2>3, <3>1, AdvanceImplements DEF Phases
    <2>4. CASE Fail
      BY <2>1, <2>2, <2>4, Failed DEF ContentBar, Phases
    <2> QED
      BY <1>4, <2>3, <2>4 DEF LoadDone
  <1>5. CASE StartDone
    <2>1. phase = "start" /\ todo = {} /\ drivers = Target
      BY <1>2, <1>5 DEF StartDone, In, SafetyInv, PhaseInv, StartInv
    <2>2. UNCHANGED <<drivers, loaded>>
      BY <1>5 DEF StartDone, ReplaceRunning
    <2>3. CASE ok /\ Proceed("stop", toUnload)
      <3>1. Started(HwNames(next))
        BY <1>2, <2>1, <2>3 DEF SafetyInv, PhaseInv, StartInv
      <3>2. Promised!Moved
        BY <1>1, <2>1, <2>3, <3>1
        DEF Promised!Moved, StageBar, ContentBar, Proceed, Started, Target
      <3> QED
        BY <2>1, <2>2, <2>3, <3>2, AdvanceImplements DEF Phases
    <2>4. CASE Fail
      BY <2>1, <2>2, <2>4, Failed DEF ContentBar, Phases
    <2> QED
      BY <1>5, <2>3, <2>4 DEF StartDone
  <1>6. CASE StopDone
    <2>1. phase = "stop" /\ UNCHANGED <<drivers, loaded, running>>
      BY <1>6 DEF StopDone, In, loaderVars
    <2>2. CASE Proceed("unload", toUnload)
      <3>1. UNCHANGED <<StageBar, ContentBar, TidyBar>>
        BY <2>1, <2>2 DEF Proceed, StageBar, ContentBar, TidyBar
      <3> QED
        BY <2>2, <3>1 DEF Proceed, Promised!vars
    <2>3. CASE Fail
      BY <2>1, <2>3, Failed DEF ContentBar, Phases
    <2> QED
      BY <1>6, <2>2, <2>3 DEF StopDone
  <1>7. CASE Commit
    <2>1. /\ phase = "unload" /\ Return("ok") /\ active' = next.name
          /\ UNCHANGED <<drivers, loaded, running>>
      BY <1>7 DEF Commit, In, loaderVars
    <2>2. running = next /\ drivers = HwNames(next) /\ Started(HwNames(next))
      BY <1>2, <1>7 DEF Commit, In, SafetyInv, PhaseInv, UnloadInv
    <2>3. next.components = [h \in DOMAIN next.components |-> next.components[h]]
      BY <1>2 DEF Configuration, Components
    <2>4. ContentBar = next.components
      BY <2>2, <2>3 DEF ContentBar, Started, HwNames
    <2>5. StageBar = "retire" /\ StageBar' = "idle" /\ ContentBar' = ContentBar
      BY <2>1 DEF StageBar, Return, ContentBar
    <2>6. TidyBar' = TRUE
      BY <2>1, <2>2 DEF TidyBar, Return, HwNames
    <2>7. Promised!Commit
      BY <2>1, <2>4, <2>5, <2>6
      DEF Return, Promised!Commit, Promised!Answered, Promised!Empty,
          Promised!Nothing, EmptyConfiguration, NoComponents
    <2>8. CASE node' = "up"
      BY <2>7, <2>8 DEF Promised!Next
    <2> QED
      BY <2>8, Leaving
  <1> QED
    BY <1>3, <1>4, <1>5, <1>6, <1>7

(* The main thread and the environment ask, leave, or are not seen.        *)
LEMMA OutsideImplements ==
  ASSUME ServiceInv, node = "up", MainStep \/ Environment
  PROVE  [Promised!Next]_Promised!vars
  <1>1. CASE node' # "up"
    BY <1>1, Leaving
  <1>2. CASE node' = "up" /\ MainStep
    <2>1. /\ UNCHANGED <<lock, phase, next, drivers, loaded, running, active,
                         outcome, node>>
          /\ \/ request' = request
             \/ /\ request[Main] = NoRequest
                /\ request' = [request EXCEPT ![Main] = MainStop]
      <3>1. main \in {"check", "signal"} => request[Main] = NoRequest
        BY DEF ServiceInv, MainAsksToStop
      <3> QED
        BY <1>2, <3>1
        DEF MainStep, LoadConfigurations, DanglingConfiguration, CheckHw,
            CheckSignal, TearDown, Gone, TearDownCrash, MainUnchanged,
            callbackVars, loaderVars
    <2>2. Main \in Threads /\ MainStop \in StartRequest \cup StopRequest
      BY DEF Threads, MainStop, StopRequest
    <2> QED
      BY <2>1, <2>2, Unseen, Asking
  <1>3. CASE Environment
    <2>1. UNCHANGED <<lock, phase, next, drivers, loaded, running, active,
                      outcome, node>>
      BY <1>3 DEF Environment, Call, ListConfigurations, EditServer, DriverStep,
                  HwFault, LateRun, Interrupt, callbackVars, loaderVars
    <2>2. CASE request' = request
      BY <2>1, <2>2, Unseen
    <2>3. ASSUME NEW t \in Clients, Call(t)
          PROVE  Promised!Next
      <3>1. PICK r \in StartRequest \cup StopRequest :
                   request' = [request EXCEPT ![t] = r]
        BY <2>3 DEF Call
      <3>2. t \in Threads /\ request[t] = NoRequest
        BY <2>3 DEF Call, Threads
      <3> QED
        BY <2>1, <3>1, <3>2, Asking
    <2> QED
      BY <1>3, <2>2, <2>3
      DEF Environment, ListConfigurations, EditServer, DriverStep, Interrupt
  <1> QED
    BY <1>1, <1>2, <1>3

(* Every step of the node is a step of the service, or is not seen.        *)
LEMMA StepImplements ==
  ASSUME ServiceInv, [Next]_vars
  PROVE  [Promised!Next]_Promised!vars
  <1>1. CASE node # "up"
    BY <1>1, NeverUpAgain, Leaving
  <1>2. CASE node = "up" /\ UNCHANGED vars
    BY <1>2, Unseen DEF vars, callbackVars, loaderVars
  <1>3. CASE node = "up" /\ CallbackStep
    <2>1. CASE NullDereference
      BY <2>1, Leaving DEF NullDereference
    <2> QED
      BY <1>3, <2>1, HwStepImplements, PhaseEndImplements DEF CallbackStep
  <1> QED
    BY <1>1, <1>2, <1>3, ServiceImplements, OutsideImplements DEF Next

(* The configuration manager is a transactional service: whatever its      *)
(* threads, the drivers and the parameter server do.                       *)
THEOREM ManagerImplementsService == Spec => ImplementsService
  <1>1. Init => Promised!Init
    <2> SUFFICES ASSUME Init
                 PROVE  Promised!Init
      OBVIOUS
    <2>1. StageBar = "idle" /\ TidyBar = TRUE /\ ContentBar = Promised!Nothing
      BY DEF Init, LoaderInit, StageBar, TidyBar, ContentBar, Promised!Nothing,
             HwNames, NoComponents
    <2> QED
      BY <2>1 DEF Init, Promised!Init, Promised!Empty, Promised!Nothing,
                  EmptyConfiguration, NoComponents
  <1>2. Init => ServiceInv
    <2>1. Init => NothingLeftBehind /\ MainAsksToStop
      BY DEF Init, LoaderInit, NothingLeftBehind, MainAsksToStop, Threads
    <2>2. Init => HolderServes /\ SafetyInv
      BY InitSafe
    <2> QED
      BY <2>1, <2>2, InitTypes DEF ServiceInv
  <1>3. ServiceInv /\ [Next]_vars => ServiceInv'
    BY StepTypes, StepMutex, StepSafe, StepNothingLeft, StepMainAsks DEF ServiceInv
  <1>4. ServiceInv /\ [Next]_vars => [Promised!Next]_Promised!vars
    BY StepImplements
  <1> QED
    BY <1>1, <1>2, <1>3, <1>4, PTL DEF Spec, ImplementsService, Promised!Spec

=============================================================================
