--------------------- MODULE ControllerManagerInterface ---------------------
(***************************************************************************)
(* The controllers of one driver.  ControllerManagerInterface wraps the    *)
(* controller_manager of ros_control, keeps a map controllers_ of what it  *)
(* has loaded, and puts the three operations the rest of the system uses   *)
(* together from lists, loads, switches and unloads:                       *)
(*   - "start", loadAndStartControllers() of the driver: switchControllers;*)
(*   - "stop", stopUnloadAllControllers() of the driver;                   *)
(*   - "destroy", stopUnloadAllControllers() of the base class, which the  *)
(*     destructors call.                                                   *)
(* Nothing is atomic: between two calls controllers fail and stop          *)
(* themselves, and the control loop, which every call but a refused switch *)
(* waits for, may end.                                                     *)
(***************************************************************************)
EXTENDS Integers, FiniteSets

CONSTANTS
  Ctrl,      (* names of controllers                                       *)
  hw         (* the hardware they run on                                   *)

VARIABLES
  looping,      (* run() of the driver is in its loop                      *)
  state,        (* state_ of each controller, "absent" if not loaded       *)
  controllers,  (* the keys of controllers_                                *)
  op,           (* the operation in progress, or the last one              *)
  wanted,       (* its next_ctrl                                           *)
  strict,       (* its strictness is 2                                     *)
  before,       (* what was loaded when it was called                      *)
  pc,           (* how far it got                                          *)
  toStart, toStop, toUnload,  (* what it has still to do                   *)
  todo,         (* controllers a loop has still to treat                   *)
  starting, stopping,         (* the switch the controller manager executes*)
  result        (* what the last operation returned                        *)

callVars == <<op, wanted, strict, before>>
planVars == <<toStart, toStop, toUnload>>
switchVars == <<starting, stopping>>
vars == <<looping, state, controllers, callVars, pc, planVars, todo, switchVars,
          result>>

States == {"absent", "INITIALIZED", "RUNNING", "STOPPED", "ABORTED"}
Loaded == {c \in Ctrl : state[c] # "absent"}
Running == {c \in Ctrl : state[c] = "RUNNING"}

(* The types; and the map is the one of the controller manager.            *)
TypeOK ==
  /\ looping \in BOOLEAN
  /\ state \in [Ctrl -> States]
  /\ controllers = Loaded
  /\ op \in {"start", "stop", "destroy"}
  /\ wanted \in SUBSET Ctrl
  /\ strict \in BOOLEAN
  /\ before \in SUBSET Ctrl
  /\ pc \in {"idle", "list", "load", "switch", "executing", "check", "relist",
             "unload"}
  /\ toStart \in SUBSET Ctrl
  /\ toStop \in SUBSET Ctrl
  /\ toUnload \in SUBSET Ctrl
  /\ todo \in SUBSET Ctrl
  /\ starting \in SUBSET Ctrl
  /\ stopping \in SUBSET Ctrl
  /\ result \in {"none", "ok", "failed"}

(* A driver whose control loop has begun.                                  *)
Init ==
  /\ looping = TRUE
  /\ state = [c \in Ctrl |-> "absent"]
  /\ controllers = {}
  /\ op = "stop"
  /\ wanted = {}
  /\ strict = FALSE
  /\ before = {}
  /\ pc = "idle"
  /\ toStart = {} /\ toStop = {} /\ toUnload = {}
  /\ todo = {}
  /\ starting = {} /\ stopping = {}
  /\ result = "none"

-----------------------------------------------------------------------------
(* The operation returns; its locals are gone.                             *)
Return(value) ==
  /\ pc' = "idle"
  /\ result' = value
  /\ toStart' = {} /\ toStop' = {} /\ toUnload' = {}
  /\ todo' = {}
  /\ UNCHANGED <<callVars, switchVars>>

GoesTo(next) == pc' = next /\ UNCHANGED <<callVars, switchVars, result>>

Call(o, names, strictly) ==
  /\ pc = "idle"
  /\ pc' = "list"
  /\ op' = o
  /\ wanted' = IF o = "start" THEN names ELSE {}
  /\ strict' = (o = "start" /\ strictly)
  /\ before' = controllers
  /\ result' = "none"
  /\ UNCHANGED <<looping, state, controllers, planVars, todo, switchVars>>

(* listControllers() asks nobody when the map is empty.                    *)
ListAnswered == controllers = {} \/ looping
ListedRunning == IF controllers = {} THEN {} ELSE Running
ListedStopped == IF controllers = {} THEN {} ELSE Loaded \ Running

(* Mutant: what runs is stopped and started again.                         *)
PlanStartRestarting ==
  /\ todo' = wanted \ (ListedRunning \cup ListedStopped)
  /\ toStart' = wanted
  /\ toStop' = ListedRunning
  /\ toUnload' = (ListedRunning \cup ListedStopped) \ wanted
  /\ GoesTo(IF todo' # {} THEN "load" ELSE "switch")

(* Mutant: what had stopped before is not unloaded.                        *)
PlanStartKeeping ==
  /\ todo' = wanted \ (ListedRunning \cup ListedStopped)
  /\ toStart' = wanted
  /\ toStop' = ListedRunning \ wanted
  /\ toUnload' = ListedRunning \ wanted
  /\ GoesTo(IF todo' # {} THEN "load" ELSE "switch")

(* Mutant: what is loaded but does not run is loaded again.                *)
PlanStartReloading ==
  /\ todo' = wanted \ ListedRunning
  /\ toStart' = wanted
  /\ toStop' = ListedRunning \ wanted
  /\ toUnload' = (ListedRunning \cup ListedStopped) \ wanted
  /\ GoesTo(IF todo' # {} THEN "load" ELSE "switch")

(***************************************************************************)
(* What the operation makes of the list.  extract(a, b) splits two lists   *)
(* into a \ b, b \ a and a \cap b.                                         *)
(***************************************************************************)
PlanStart ==
  LET toLoadAndStart == wanted \ ListedRunning
      stopAndUnload == ListedRunning \ wanted
      restart == (wanted \cap ListedRunning) \cup (toLoadAndStart \cap ListedStopped)
      toLoad == toLoadAndStart \ ListedStopped
      unload == stopAndUnload \cup (ListedStopped \ toLoadAndStart)
  IN  /\ todo' = toLoad
      /\ toStart' = toLoad \cup restart
      /\ toStop' = stopAndUnload
      /\ toUnload' = unload
      /\ GoesTo(IF toLoad # {} THEN "load" ELSE "switch")

PlanStop ==
  /\ toStart' = {}
  /\ toStop' = ListedRunning
  /\ toUnload' = ListedRunning \cup ListedStopped
  /\ todo' = {}
  /\ GoesTo("switch")

(* Mutant: the loop is never left.                                         *)
PlanDestroyNoBreak ==
  /\ toStart' = {}
  /\ toStop' = ListedRunning
  /\ toUnload' = ListedStopped
  /\ todo' = {}
  /\ GoesTo("switch")

PlanDestroy ==
  /\ toStart' = {}
  /\ toStop' = ListedRunning
  /\ toUnload' = ListedStopped
  /\ todo' = {}
  /\ GoesTo(IF ListedRunning # {} THEN "switch" ELSE "relist")

List ==
  /\ pc = "list"
  /\ ListAnswered
  /\ CASE op = "start" -> PlanStart
       [] op = "stop" -> PlanStop
       [] op = "destroy" -> PlanDestroy
  /\ UNCHANGED <<looping, state, controllers>>

(* The service list_controllers is broken.                                 *)
ListFails ==
  /\ pc \in {"list", "relist"}
  /\ looping
  /\ controllers # {}
  /\ Return("failed")
  /\ UNCHANGED <<looping, state, controllers>>

(***************************************************************************)
(* loadController().  The controller manager waits for the control loop to *)
(* use the new list of controllers; when it refuses, its list of types is  *)
(* asked for, by a service.  What is in the map is not loaded again: of    *)
(* the plan nothing is (NeverRefused).                                     *)
(***************************************************************************)
Load(c) ==
  /\ pc = "load"
  /\ looping
  /\ c \in todo
  /\ state' = [state EXCEPT ![c] = "INITIALIZED"]
  /\ controllers' = controllers \cup {c}
  /\ todo' = todo \ {c}
  /\ GoesTo(IF todo' = {} THEN "switch" ELSE "load")
  /\ UNCHANGED <<looping, planVars>>

LoadFails ==
  /\ pc = "load"
  /\ looping
  /\ Return("failed")
  /\ UNCHANGED <<looping, state, controllers>>

-----------------------------------------------------------------------------
(* After switchController() returned true.                                 *)
Switched ==
  IF op = "start" /\ toUnload = {}
  THEN Return("ok")
  ELSE GoesTo(IF op = "destroy" THEN "list" ELSE "relist") /\ UNCHANGED <<planVars, todo>>

(* The controllers the switch is about: a stop is only for those in the map.*)
StartControllers == toStart
StopControllers == toStop \cap controllers

NothingToSwitch ==
  /\ pc = "switch"
  /\ StartControllers = {} /\ StopControllers = {}
  /\ Switched
  /\ UNCHANGED <<looping, state, controllers>>

(***************************************************************************)
(* switchController() of the controller manager leaves out, or in the      *)
(* strict mode refuses, to stop what does not run and to start what runs.  *)
(* It checks for conflicts and prepares the hardware, then waits for       *)
(* update() to execute the switch.                                         *)
(***************************************************************************)
Acceptable ==
  strict => StopControllers \subseteq Running /\ StartControllers \cap Running = {}

Request ==
  /\ pc = "switch"
  /\ StartControllers \cup StopControllers # {}
  /\ Acceptable
  /\ starting' = StartControllers \ Running
  /\ stopping' = StopControllers \cap Running
  /\ pc' = "executing"
  /\ UNCHANGED <<looping, state, controllers, callVars, planVars, todo, result>>

(* Not acceptable, a conflict, or prepareSwitch() failed.                  *)
RequestRefused ==
  /\ pc = "switch"
  /\ StartControllers \cup StopControllers # {}
  /\ Return("failed")
  /\ UNCHANGED <<looping, state, controllers>>

(* update(), in run().  starting() and stopping() of a controller may fail;*)
(* they ask to abort it then, and where that leaves it is up to the        *)
(* controller manager.                                                     *)
Execute ==
  /\ pc = "executing"
  /\ looping
  /\ \E failing \in SUBSET (starting \cup (stopping \cap Running)) :
       state' = [c \in Ctrl |->
                   IF c \in failing THEN "ABORTED"
                   ELSE IF c \in starting THEN "RUNNING"
                   ELSE IF c \in stopping \cap Running THEN "STOPPED"
                   ELSE state[c]]
  /\ pc' = "check"
  /\ starting' = {} /\ stopping' = {}
  /\ UNCHANGED <<looping, controllers, callVars, planVars, todo, result>>

(* Some controller is not in the state it was switched to.                 *)
Missed ==
  \/ \E c \in StartControllers : state[c] # "RUNNING"
  \/ \E c \in StopControllers : state[c] # "STOPPED"

(* The loop that checks the switch fails only if it takes longer than the  *)
(* watchdog, and leaves with success in its first round otherwise.         *)
Check ==
  /\ pc = "check"
  /\ Switched
  /\ UNCHANGED <<looping, state, controllers>>

CheckFails ==
  /\ pc = "check"
  /\ Missed
  /\ Return("failed")
  /\ UNCHANGED <<looping, state, controllers>>

-----------------------------------------------------------------------------
(* Mutant: whatever does not run goes.                                     *)
ListToUnloadAll ==
  /\ pc = "relist"
  /\ ListAnswered
  /\ IF ListedRunning \cap toUnload # {} THEN Return("failed")
     ELSE /\ todo' = ListedStopped
          /\ GoesTo("unload")
          /\ UNCHANGED planVars
  /\ UNCHANGED <<looping, state, controllers>>

(* unloadControllers(): another list, and nothing is unloaded if some of   *)
(* it runs.                                                                *)
ListToUnload ==
  /\ pc = "relist"
  /\ ListAnswered
  /\ IF ListedRunning \cap toUnload # {} THEN Return("failed")
     ELSE /\ todo' = ListedStopped \cap toUnload
          /\ GoesTo("unload")
          /\ UNCHANGED planVars
  /\ UNCHANGED <<looping, state, controllers>>

(* Mutant: the map keeps the controller.                                   *)
UnloadKeepingEntry(c) ==
  /\ pc = "unload"
  /\ looping
  /\ c \in todo
  /\ state' = [state EXCEPT ![c] = "absent"]
  /\ todo' = todo \ {c}
  /\ UNCHANGED <<looping, controllers, callVars, pc, planVars, switchVars, result>>

(* The controller manager refuses to unload what runs, or what it does not *)
(* have: there is no such controller in the plan (NeverRefused).           *)
Unload(c) ==
  /\ pc = "unload"
  /\ looping
  /\ c \in todo
  /\ state' = [state EXCEPT ![c] = "absent"]
  /\ controllers' = controllers \ {c}
  /\ todo' = todo \ {c}
  /\ UNCHANGED <<looping, callVars, pc, planVars, switchVars, result>>

Unloaded ==
  /\ pc = "unload"
  /\ todo = {}
  /\ Return("ok")
  /\ UNCHANGED <<looping, state, controllers>>

-----------------------------------------------------------------------------
(* update() of a controller failed: it stops itself, and aborts when that  *)
(* fails too.                                                              *)
ControllerEnds(c) ==
  /\ looping
  /\ state[c] = "RUNNING"
  /\ \E s \in {"STOPPED", "ABORTED"} : state' = [state EXCEPT ![c] = s]
  /\ UNCHANGED <<looping, controllers, callVars, pc, planVars, todo, switchVars,
                 result>>

(* run() of the driver ends.                                               *)
LoopEnds ==
  /\ looping
  /\ looping' = FALSE
  /\ UNCHANGED <<state, controllers, callVars, pc, planVars, todo, switchVars,
                 result>>

-----------------------------------------------------------------------------
OperationStep ==
  \/ List \/ ListFails
  \/ \E c \in Ctrl : Load(c) \/ Unload(c)
  \/ LoadFails \/ NothingToSwitch \/ Request \/ RequestRefused
  \/ Check \/ CheckFails \/ ListToUnload \/ Unloaded

Environment ==
  \/ \E o \in {"start", "stop", "destroy"}, names \in SUBSET Ctrl,
        strictly \in BOOLEAN : Call(o, names, strictly)
  \/ \E c \in Ctrl : ControllerEnds(c)
  \/ LoopEnds

Next == OperationStep \/ Execute \/ Environment

Spec == Init /\ [][Next]_vars

(* The thread of the operation and the control loop are scheduled.         *)
FairSpec == Spec /\ WF_vars(OperationStep) /\ WF_vars(Execute)

-----------------------------------------------------------------------------
(* An operation that returned true leaves exactly what it was asked for:   *)
(* the wanted controllers, or none - whatever was loaded, stopped itself   *)
(* or failed in between.  (switchControllers, stopUnloadAllControllers.)   *)
SuccessIsComplete == pc = "idle" /\ result = "ok" => controllers = wanted

(* Nothing is loaded that is there already, and nothing is unloaded that   *)
(* runs or is not there: the controller manager would refuse both.         *)
(* (switchControllers, unloadControllers.)                                 *)
NeverRefused ==
  /\ pc = "load" => todo \cap Loaded = {}
  /\ pc = "relist" => toUnload \cap Running = {}
  /\ pc = "unload" => todo \subseteq Loaded \ Running

(* A controller that is wanted and runs goes on running, unless it fails   *)
(* by itself: a start does not restart what it keeps.  (switchControllers.)*)
KeptControllersRun ==
  [][op' = "start" /\ (OperationStep \/ Execute) =>
       \A c \in wanted \cap Running : state'[c] = "RUNNING"]_vars

(* What the operations do as a whole is what the configuration loader      *)
(* reckons with.  (The control loop answered the last call it waited for,  *)
(* though it may have ended since.)                                        *)
Loader == INSTANCE ConfigurationLoader
            WITH Hw <- {hw},
                 drivers <- {hw},
                 cmi <- {hw},
                 state <- [h \in {hw} |-> "RUNNING"],
                 loaded <- [h \in {hw} |-> IF pc = "idle" THEN controllers ELSE before],
                 running <- [name |-> "", components |-> {}]

ImplementsLoader ==
  [][pc # "idle" /\ pc' = "idle" =>
       IF op = "start" THEN Loader!StartHwControllers(hw, wanted, result' = "ok")
       ELSE Loader!StopHwControllers(hw, result' = "ok")]_vars

(* As long as the control loop lives, every operation returns.             *)
OperationReturns == []looping => (pc # "idle" ~> pc = "idle")
=============================================================================
