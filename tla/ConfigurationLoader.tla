------------------------ MODULE ConfigurationLoader ------------------------
(***************************************************************************)
(* The ConfigurationLoader owns one driver per hardware interface: the map *)
(* drivers_, and the configuration it last started controllers for,        *)
(* running_configuration_.  This module is the state of the loader and the *)
(* effect of each of its operations on one hardware interface; the module  *)
(* ConfigurationManager calls them in the order of the service callbacks.  *)
(*                                                                         *)
(* The parameter ok of an operation is the value it returns.  An operation *)
(* that is not enabled has not returned: most of the calls below end up in *)
(* the control loop of the driver (run()), which answers the service       *)
(* list_controllers and executes every switch, and wait for it without a   *)
(* timeout.                                                                *)
(***************************************************************************)
EXTENDS Integers, FiniteSets

CONSTANTS
  Hw,        (* names of hardware interfaces                               *)
  Ctrl       (* names of controllers                                       *)

VARIABLES
  drivers,   (* the keys of drivers_                                       *)
  cmi,       (* those whose driver has a controller manager: init() ended  *)
  state,     (* state[h]: m_state of the driver of h                       *)
  loaded,    (* loaded[h]: the controllers the controller manager of h has *)
  running    (* running_configuration_, with its name and its components   *)

loaderVars == <<drivers, cmi, state, loaded, running>>

(* ConfigurationStruct.components: hardware name -> its controllers.       *)
Components == UNION {[S -> SUBSET Ctrl] : S \in SUBSET Hw}
NoComponents == [h \in {} |-> {}]

StatusHw == {"UNLOADED", "INITIALIZED", "RUNNING", "ERROR"}

(* getHardwareInterfacesNames: the hardware a configuration uses.          *)
HwNames(configuration) == DOMAIN configuration.components

(* Members of drivers_ of which nothing was ever loaded have state         *)
(* UNLOADED, and so have the names that are not in drivers_.               *)
LoaderInit ==
  /\ drivers = {}
  /\ cmi = {}
  /\ state = [h \in Hw |-> "UNLOADED"]
  /\ loaded = [h \in Hw |-> {}]
  /\ running = [name |-> "", components |-> NoComponents]

-----------------------------------------------------------------------------
(* The control loop of h is alive: it answers calls.                       *)
Alive(h) == state[h] = "RUNNING"

(* controllers_ of h is empty: listControllers() returns at once, without  *)
(* asking the control loop.                                                *)
Bare(h) == loaded[h] = {}

(* getDriver(h) ? getDriver(h)->getState() : ERROR                         *)
DriverState(h) == IF h \in drivers THEN state[h] ELSE "ERROR"

(***************************************************************************)
(* loadHw(h): the parameters of h are read, then its entry in drivers_ is  *)
(* created, then the driver is initialised (init() may leave it without a  *)
(* controller manager) and its control loop is started (start() gives up   *)
(* after the watchdog, and the thread it spawned goes on).  Nothing takes  *)
(* the entry away again when one of the last two fails.  The caller never  *)
(* asks for a name that is in drivers_ (DriversAsAssumed): the branch that *)
(* skips such a name is not part of the action.                            *)
(***************************************************************************)
HwParamBroken(h, ok) ==
  /\ ~ok
  /\ UNCHANGED loaderVars

InitFails(h, ok) ==
  /\ ~ok
  /\ drivers' = drivers \cup {h}
  /\ \E s \in {"UNLOADED", "ERROR"} : state' = [state EXCEPT ![h] = s]
  /\ UNCHANGED <<cmi, loaded, running>>

InitAndStart(h, ok) ==
  /\ drivers' = drivers \cup {h}
  /\ cmi' = cmi \cup {h}
  /\ \E s \in (IF ok THEN {"RUNNING"} ELSE {"INITIALIZED", "ERROR"}) :
       state' = [state EXCEPT ![h] = s]
  /\ UNCHANGED <<loaded, running>>

LoadHw(h, ok) ==
  \/ HwParamBroken(h, ok)
  \/ InitFails(h, ok)
  \/ InitAndStart(h, ok)

(***************************************************************************)
(* driver->stopUnloadAllControllers(): list, stop the running ones, unload *)
(* them all.  With controllers loaded it needs the control loop; when it   *)
(* fails some of them may be gone already.                                 *)
(***************************************************************************)
StopUnloadAllControllers(h, ok) ==
  /\ h \in cmi
  /\ Bare(h) \/ Alive(h)
  /\ ok \/ ~Bare(h)
  /\ \E left \in SUBSET loaded[h] :
       /\ ok => left = {}
       /\ loaded' = [loaded EXCEPT ![h] = left]

(* One round of the loop of unloadHw(): the driver is stopped and erased.  *)
UnloadHw(h, ok) ==
  /\ StopUnloadAllControllers(h, ok)
  /\ IF ok
     THEN /\ drivers' = drivers \ {h}
          /\ cmi' = cmi \ {h}
          /\ state' = [state EXCEPT ![h] = "UNLOADED"]
     ELSE UNCHANGED <<drivers, cmi, state>>
  /\ UNCHANGED running

(* One of the parallel stoppers of stopAndUnloadAllControllers().          *)
StopHwControllers(h, ok) ==
  /\ StopUnloadAllControllers(h, ok)
  /\ UNCHANGED <<drivers, cmi, state, running>>

(***************************************************************************)
(* One of the parallel starters of loadAndStartControllers(): the driver   *)
(* loads what is missing, switches, then unloads what is not wanted any    *)
(* more.  A failure leaves it somewhere on that way, and comes back only   *)
(* with the control loop alive: even a controller that cannot be loaded    *)
(* makes it ask for the list of types first.                               *)
(***************************************************************************)
StartHwControllers(h, wanted, ok) ==
  /\ h \in cmi
  /\ IF ok
     THEN /\ Alive(h) \/ (Bare(h) /\ wanted = {})
          /\ loaded' = [loaded EXCEPT ![h] = wanted]
     ELSE \E now \in SUBSET (loaded[h] \cup wanted) :
            /\ Alive(h)
            /\ loaded[h] \cup wanted # {}
            /\ loaded[h] \subseteq now \/ wanted \subseteq now
            /\ loaded' = [loaded EXCEPT ![h] = now]
  /\ UNCHANGED <<drivers, cmi, state, running>>

(* The end of loadAndStartControllers(): running_configuration_ is         *)
(* replaced whatever the starters returned.                                *)
ReplaceRunning(configuration) ==
  /\ running' = configuration
  /\ UNCHANGED <<drivers, cmi, state, loaded>>

-----------------------------------------------------------------------------
(* run(): read(), update() or write() threw, or the RobotHW says ERROR:    *)
(* the driver dumps ERROR and its control loop ends.                       *)
HwFault(h) ==
  /\ h \in cmi
  /\ state[h] \in {"INITIALIZED", "RUNNING"}
  /\ state' = [state EXCEPT ![h] = "ERROR"]
  /\ UNCHANGED <<drivers, cmi, loaded, running>>

(* run(): the loop begins after start() stopped waiting for it.            *)
LateRun(h) ==
  /\ h \in cmi
  /\ state[h] = "INITIALIZED"
  /\ state' = [state EXCEPT ![h] = "RUNNING"]
  /\ UNCHANGED <<drivers, cmi, loaded, running>>

(* A driver whose init() failed has a null m_cmi, and                      *)
(* stopUnloadAllControllers(), loadAndStartControllers() and the           *)
(* destructor dereference it: the process dies.                            *)
NullController(h) == h \in drivers \ cmi
=============================================================================
