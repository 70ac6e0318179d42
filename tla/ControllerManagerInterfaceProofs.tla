------------------ MODULE ControllerManagerInterfaceProofs ------------------
(***************************************************************************)
(* What ControllerManagerInterface does for any set of controllers.  None  *)
(* of its invariants is inductive: what an operation leaves in the end is  *)
(* what it planned, and what a plan is good for depends on the map being   *)
(* the list of the controller manager.  Inv says, for every pc, how the    *)
(* map is made up of what is wanted, what is to be unloaded and what is    *)
(* still to do, and which of it may run.                                   *)
(***************************************************************************)
EXTENDS ControllerManagerInterface, TLAPS

(* Where the plan of an operation counts.                                  *)
Planned == {"load", "switch", "executing", "check", "relist"}

(* Only a start wants anything, and it starts all it wants.                *)
Wanted ==
  /\ op # "start" => wanted = {}
  /\ pc \in {"load", "switch"} => toStart = wanted

(* The map is made up of what is wanted and what goes.                     *)
Accounted ==
  /\ pc \in Planned => toUnload \cap wanted = {}
  /\ pc = "load" =>
       op = "start" /\ todo \cap controllers = {} /\ controllers \cup todo = toUnload \cup wanted
  /\ pc \in {"switch", "executing", "check"} /\ op # "destroy" =>
       controllers = toUnload \cup wanted
  /\ pc = "relist" => controllers = toUnload \cup wanted
  /\ pc = "unload" => controllers = todo \cup wanted /\ todo \cap wanted = {}

(* What runs and goes is stopped before, and nothing that is wanted is.    *)
Switching ==
  /\ pc \in {"load", "switch"} => toUnload \cap Running \subseteq toStop /\ toStop \cap wanted = {}
  /\ pc = "executing" =>
       /\ toUnload \cap Running \subseteq stopping
       /\ stopping \cap wanted = {}
       /\ starting \subseteq wanted \cap controllers
       /\ starting \cap Running = {}
  /\ pc \in {"check", "relist"} => toUnload \cap Running = {}
  /\ pc = "unload" => todo \cap Running = {}

Inv == TypeOK /\ Wanted /\ Accounted /\ Switching /\ SuccessIsComplete

-----------------------------------------------------------------------------
(* A list is the truth, as the map is empty only if nothing is loaded.     *)
LEMMA Lists ==
  ASSUME TypeOK
  PROVE  /\ Running \subseteq Loaded /\ Loaded \subseteq Ctrl
         /\ ListedRunning = Running
         /\ ListedStopped = controllers \ Running
<1>1. Running \subseteq Loaded /\ Loaded \subseteq Ctrl
  BY DEF Running, Loaded
<1> QED
  BY <1>1 DEF TypeOK, ListedRunning, ListedStopped

(* Without a step of a controller the two sets stay.                       *)
LEMMA SameSets ==
  ASSUME UNCHANGED state
  PROVE  Loaded' = Loaded /\ Running' = Running
BY DEF Loaded, Running

(* An operation that fails has nothing to keep but the types.              *)
LEMMA FailureKeepsInv ==
  ASSUME Inv, Return("failed"), UNCHANGED <<looping, state, controllers>>
  PROVE  Inv'
<1>1. Loaded' = Loaded
  BY SameSets
<1>2. TypeOK'
  BY <1>1 DEF Inv, TypeOK, Return, callVars, switchVars
<1> QED
  BY <1>2 DEF Inv, Return, callVars, Wanted, Accounted, Switching, SuccessIsComplete,
              Planned

(* The three plans split the map as they should.                           *)
LEMMA ListKeepsInv ==
  ASSUME Inv, List PROVE Inv'
<1> USE DEF Inv, List, GoesTo, callVars, switchVars
<1>1. Loaded' = Loaded /\ Running' = Running
  BY SameSets
<1>2. /\ Running \subseteq Loaded /\ Loaded \subseteq Ctrl
      /\ ListedRunning = Running
      /\ ListedStopped = controllers \ Running
  BY Lists
<1>3. CASE op = "start"
  <2>1. PlanStart
    BY <1>3
  <2>2. /\ todo' = wanted \ controllers
        /\ toStart' = wanted
        /\ toStop' = Running \ wanted
        /\ toUnload' = controllers \ wanted
    BY <1>2, <2>1 DEF PlanStart, TypeOK
  <2>3. pc' \in {"load", "switch"} /\ (pc' = "switch" => todo' = {})
    BY <2>1 DEF PlanStart
  <2>4. TypeOK'
    BY <1>1, <1>2, <2>1, <2>2, <2>3 DEF PlanStart, TypeOK
  <2> QED
    BY <1>1, <1>2, <1>3, <2>1, <2>2, <2>3, <2>4
    DEF PlanStart, Wanted, Accounted, Switching, SuccessIsComplete, Planned, TypeOK
<1>4. CASE op = "stop"
  <2>1. PlanStop
    BY <1>4
  <2>2. toStart' = {} /\ toStop' = Running /\ toUnload' = controllers /\ todo' = {}
    BY <1>2, <2>1 DEF PlanStop, TypeOK
  <2>3. TypeOK'
    BY <1>1, <1>2, <2>1, <2>2 DEF PlanStop, TypeOK
  <2> QED
    BY <1>1, <1>2, <1>4, <2>1, <2>2, <2>3
    DEF PlanStop, Wanted, Accounted, Switching, SuccessIsComplete, Planned
<1>5. CASE op = "destroy"
  <2>1. PlanDestroy
    BY <1>5
  <2>2. /\ toStart' = {} /\ toStop' = Running /\ todo' = {}
        /\ toUnload' = controllers \ Running
        /\ pc' = IF Running # {} THEN "switch" ELSE "relist"
    BY <1>2, <2>1 DEF PlanDestroy
  <2>3. TypeOK'
    BY <1>1, <1>2, <2>1, <2>2 DEF PlanDestroy, TypeOK
  <2> QED
    BY <1>1, <1>2, <1>5, <2>1, <2>2, <2>3
    DEF PlanDestroy, Wanted, Accounted, Switching, SuccessIsComplete, Planned
<1> QED
  BY <1>3, <1>4, <1>5 DEF TypeOK

(* Loading moves a controller from what is to be done into the map.        *)
LEMMA LoadKeepsInv ==
  ASSUME Inv, NEW c \in Ctrl, Load(c) PROVE Inv'
<1> USE DEF Inv, Load, GoesTo, callVars, switchVars, planVars
<1>1. Loaded' = Loaded \cup {c} /\ Running' = Running \ {c}
  BY DEF Loaded, Running, TypeOK
<1>2. c \notin controllers
  BY DEF Accounted
<1>3. Running' = Running
  BY <1>1, <1>2 DEF TypeOK, Loaded, Running
<1>4. TypeOK'
  <2>1. state' \in [Ctrl -> States]
    BY DEF TypeOK, States
  <2> QED
    BY <1>1, <2>1 DEF TypeOK
<1>5. pc' \in {"load", "switch"} /\ (pc' = "switch" => todo' = {})
  OBVIOUS
<1> QED
  BY <1>2, <1>3, <1>4, <1>5
  DEF Wanted, Accounted, Switching, SuccessIsComplete, Planned

(* After a switch what goes has stopped, and there may be nothing to unload.*)
LEMMA SwitchedKeepsInv ==
  ASSUME Inv, Switched, UNCHANGED <<looping, state, controllers>>,
         pc \in {"switch", "check"}, toUnload \cap Running = {}
  PROVE  Inv'
<1> USE DEF Inv, callVars, switchVars, planVars
<1>1. Loaded' = Loaded /\ Running' = Running
  BY SameSets
<1>2. CASE op = "start" /\ toUnload = {}
  <2>1. Return("ok")
    BY <1>2 DEF Switched
  <2>2. controllers = wanted
    BY <1>2 DEF Accounted
  <2>3. TypeOK'
    BY <1>1, <2>1 DEF TypeOK, Return
  <2> QED
    BY <2>1, <2>2, <2>3
    DEF Return, Wanted, Accounted, Switching, SuccessIsComplete, Planned
<1>3. CASE ~(op = "start" /\ toUnload = {})
  <2>1. /\ pc' = IF op = "destroy" THEN "list" ELSE "relist"
        /\ UNCHANGED <<callVars, switchVars, result, planVars, todo>>
    BY <1>3 DEF Switched, GoesTo
  <2>2. TypeOK'
    BY <1>1, <2>1 DEF TypeOK
  <2> QED
    BY <1>1, <2>1, <2>2
    DEF Wanted, Accounted, Switching, SuccessIsComplete, Planned
<1> QED
  BY <1>2, <1>3

(* What goes and is not in the list of stops does not run.                 *)
LEMMA NothingToSwitchKeepsInv ==
  ASSUME Inv, NothingToSwitch PROVE Inv'
<1>1. toStop \cap controllers = {}
  BY DEF NothingToSwitch, StopControllers
<1>2. Running \subseteq controllers
  BY Lists DEF Inv, TypeOK
<1>3. toUnload \cap Running = {}
  BY <1>1, <1>2 DEF Inv, Switching, NothingToSwitch
<1> QED
  BY <1>3, SwitchedKeepsInv DEF NothingToSwitch

(* A check that reports success.                                           *)
LEMMA CheckKeepsInv ==
  ASSUME Inv, Check PROVE Inv'
BY SwitchedKeepsInv DEF Check, Inv, Switching

(* The request takes over what is to be started and stopped.               *)
LEMMA RequestKeepsInv ==
  ASSUME Inv, Request PROVE Inv'
<1> USE DEF Inv, Request, callVars, planVars, StartControllers, StopControllers
<1>1. Loaded' = Loaded /\ Running' = Running
  BY SameSets
<1>2. Running \subseteq Loaded
  BY Lists
<1>3. toStart \subseteq controllers
  BY DEF Wanted, Accounted, TypeOK
<1>4. TypeOK'
  BY <1>1 DEF TypeOK
<1> QED
  BY <1>1, <1>2, <1>3, <1>4
  DEF Wanted, Accounted, Switching, SuccessIsComplete, Planned, TypeOK

(* The switch: whatever fails, what goes stops.                            *)
LEMMA ExecuteKeepsInv ==
  ASSUME Inv, Execute PROVE Inv'
<1> USE DEF Inv, callVars, planVars
<1>1. PICK failing \in SUBSET (starting \cup (stopping \cap Running)) :
        state' = [c \in Ctrl |->
                    IF c \in failing THEN "ABORTED"
                    ELSE IF c \in starting THEN "RUNNING"
                    ELSE IF c \in stopping \cap Running THEN "STOPPED"
                    ELSE state[c]]
  BY DEF Execute
<1>2. starting \subseteq Loaded /\ Running \subseteq Loaded
  BY Lists DEF Execute, Switching, TypeOK
<1>3. Running' = (starting \ failing) \cup (Running \ (stopping \cup failing))
  <2>1. starting \subseteq Ctrl /\ starting \cap stopping = {}
    BY DEF Execute, Switching, TypeOK
  <2> QED
    BY <1>1, <2>1 DEF Running
<1>4. Loaded' = Loaded
  BY <1>1, <1>2 DEF Loaded
<1>5. TypeOK'
  <2>1. state' \in [Ctrl -> States]
    BY <1>1 DEF TypeOK, States
  <2> QED
    BY <1>4, <2>1 DEF TypeOK, Execute
<1>6. toUnload \cap Running' = {}
  BY <1>3 DEF Execute, Switching, Accounted, Planned
<1> QED
  BY <1>5, <1>6
  DEF Execute, Wanted, Accounted, Switching, SuccessIsComplete, Planned

-----------------------------------------------------------------------------
(* What is to be unloaded is listed as stopped, all of it.                 *)
LEMMA ListToUnloadKeepsInv ==
  ASSUME Inv, ListToUnload PROVE Inv'
<1> USE DEF Inv, ListToUnload, callVars, switchVars, planVars
<1>1. Loaded' = Loaded /\ Running' = Running
  BY SameSets
<1>2. /\ ListedRunning = Running
      /\ ListedStopped = controllers \ Running
  BY Lists
<1>3. toUnload \cap Running = {}
  BY DEF Switching
<1>4. /\ todo' = (controllers \ Running) \cap toUnload
      /\ GoesTo("unload")
      /\ UNCHANGED planVars
  BY <1>2, <1>3
<1>5. TypeOK'
  BY <1>1, <1>4 DEF TypeOK, GoesTo
<1> QED
  BY <1>1, <1>3, <1>4, <1>5
  DEF GoesTo, Wanted, Accounted, Switching, SuccessIsComplete, Planned

(* Unloading takes a controller out of the map and of what is to be done.  *)
LEMMA UnloadKeepsInv ==
  ASSUME Inv, NEW c \in Ctrl, Unload(c) PROVE Inv'
<1> USE DEF Inv, Unload, callVars, switchVars, planVars
<1>1. Loaded' = Loaded \ {c} /\ Running' = Running \ {c}
  BY DEF Loaded, Running, TypeOK
<1>2. TypeOK'
  <2>1. state' \in [Ctrl -> States]
    BY DEF TypeOK, States
  <2> QED
    BY <1>1, <2>1 DEF TypeOK
<1> QED
  BY <1>1, <1>2 DEF Wanted, Accounted, Switching, SuccessIsComplete, Planned

(* The end: nothing is left but what is wanted.                            *)
LEMMA UnloadedKeepsInv ==
  ASSUME Inv, Unloaded PROVE Inv'
<1>1. Loaded' = Loaded
  BY SameSets DEF Unloaded
<1>2. TypeOK'
  BY <1>1 DEF Inv, TypeOK, Unloaded, Return, callVars, switchVars
<1> QED
  BY <1>2 DEF Inv, Unloaded, Return, callVars, Wanted, Accounted, Switching,
              SuccessIsComplete, Planned

(* A call only says what is wanted.                                        *)
LEMMA CallKeepsInv ==
  ASSUME Inv, NEW o \in {"start", "stop", "destroy"}, NEW names \in SUBSET Ctrl,
         NEW strictly \in BOOLEAN, Call(o, names, strictly)
  PROVE  Inv'
<1> USE DEF Inv, Call, planVars, switchVars
<1>1. Loaded' = Loaded
  BY SameSets
<1>2. strict' \in BOOLEAN
  BY Zenon
<1>3. wanted' \in SUBSET Ctrl /\ before' \in SUBSET Ctrl
  BY Lists DEF TypeOK
<1>4. TypeOK'
  BY <1>1, <1>2, <1>3 DEF TypeOK
<1> QED
  BY <1>4 DEF Wanted, Accounted, Switching, SuccessIsComplete, Planned

(* A controller that ends is still loaded.                                 *)
LEMMA EndKeepsInv ==
  ASSUME Inv, NEW c \in Ctrl, ControllerEnds(c) PROVE Inv'
<1> USE DEF Inv, callVars, switchVars, planVars
<1>1. PICK s \in {"STOPPED", "ABORTED"} : state' = [state EXCEPT ![c] = s]
  BY DEF ControllerEnds
<1>2. Loaded' = Loaded /\ Running' = Running \ {c}
  BY <1>1 DEF ControllerEnds, Loaded, Running, TypeOK
<1>3. TypeOK'
  <2>1. state' \in [Ctrl -> States]
    BY <1>1 DEF TypeOK, States
  <2> QED
    BY <1>2, <2>1 DEF TypeOK, ControllerEnds
<1> QED
  BY <1>2, <1>3
  DEF ControllerEnds, Wanted, Accounted, Switching, SuccessIsComplete, Planned

(* The end of the control loop changes nothing else.                       *)
LEMMA LoopEndKeepsInv ==
  ASSUME Inv, LoopEnds PROVE Inv'
<1> USE DEF Inv, LoopEnds, callVars, switchVars, planVars
<1>1. Loaded' = Loaded /\ Running' = Running
  BY SameSets
<1>2. TypeOK'
  BY <1>1 DEF TypeOK
<1> QED
  BY <1>1, <1>2 DEF Wanted, Accounted, Switching, SuccessIsComplete, Planned

-----------------------------------------------------------------------------
(* Nothing is loaded and nothing is in progress at first.                  *)
LEMMA InitInv == Init => Inv
BY DEF Init, Inv, TypeOK, States, Loaded, Running, Wanted, Accounted, Switching,
       SuccessIsComplete, Planned

(* Every step keeps the invariant.                                         *)
LEMMA StepInv == Inv /\ [Next]_vars => Inv'
<1> SUFFICES ASSUME Inv, [Next]_vars PROVE Inv'
  OBVIOUS
<1>1. CASE List
  BY <1>1, ListKeepsInv
<1>2. CASE ListFails
  BY <1>2, FailureKeepsInv DEF ListFails
<1>3. ASSUME NEW c \in Ctrl, Load(c) PROVE Inv'
  BY <1>3, LoadKeepsInv
<1>4. ASSUME NEW c \in Ctrl, Unload(c) PROVE Inv'
  BY <1>4, UnloadKeepsInv
<1>5. CASE LoadFails
  BY <1>5, FailureKeepsInv DEF LoadFails
<1>6. CASE NothingToSwitch
  BY <1>6, NothingToSwitchKeepsInv
<1>7. CASE Request
  BY <1>7, RequestKeepsInv
<1>8. CASE RequestRefused
  BY <1>8, FailureKeepsInv DEF RequestRefused
<1>9. CASE Check
  BY <1>9, CheckKeepsInv
<1>10. CASE CheckFails
  BY <1>10, FailureKeepsInv DEF CheckFails
<1>11. CASE ListToUnload
  BY <1>11, ListToUnloadKeepsInv
<1>12. CASE Unloaded
  BY <1>12, UnloadedKeepsInv
<1>13. CASE Execute
  BY <1>13, ExecuteKeepsInv
<1>14. ASSUME NEW o \in {"start", "stop", "destroy"}, NEW names \in SUBSET Ctrl,
              NEW strictly \in BOOLEAN, Call(o, names, strictly)
       PROVE  Inv'
  BY <1>14, CallKeepsInv
<1>15. ASSUME NEW c \in Ctrl, ControllerEnds(c) PROVE Inv'
  BY <1>15, EndKeepsInv
<1>16. CASE LoopEnds
  BY <1>16, LoopEndKeepsInv
<1>17. CASE UNCHANGED vars
  <2>1. Loaded' = Loaded /\ Running' = Running
    BY <1>17, SameSets DEF vars
  <2> QED
    BY <1>17, <2>1 DEF vars, Inv, TypeOK, Wanted, Accounted, Switching,
                       SuccessIsComplete, Planned, callVars, planVars, switchVars
<1> QED
  BY <1>1, <1>2, <1>3, <1>4, <1>5, <1>6, <1>7, <1>8, <1>9, <1>10, <1>11, <1>12,
     <1>13, <1>14, <1>15, <1>16, <1>17
  DEF Next, OperationStep, Environment

(* The inductive invariant of the three operations.                        *)
THEOREM Invariance == Spec => []Inv
BY InitInv, StepInv, PTL DEF Spec

(* Every variable keeps its type, and the map controllers_ is at every     *)
(* moment what the controller manager has loaded.                          *)
THEOREM MapIsTrue == Spec => []TypeOK
<1>1. Inv => TypeOK
  BY DEF Inv
<1> QED
  BY <1>1, Invariance, PTL

(* An operation that returned true leaves exactly the wanted controllers.  *)
THEOREM SuccessLeavesWanted == Spec => []SuccessIsComplete
<1>1. Inv => SuccessIsComplete
  BY DEF Inv
<1> QED
  BY <1>1, Invariance, PTL

(* The controller manager is never asked to load what it has, nor to       *)
(* unload what runs or is absent.                                          *)
THEOREM NothingRefused == Spec => []NeverRefused
<1>1. Inv => (pc = "load" => todo \cap Loaded = {})
  BY DEF Inv, TypeOK, Accounted
<1>2. Inv => /\ pc = "relist" => toUnload \cap Running = {}
             /\ pc = "unload" => todo \subseteq Loaded \ Running
  BY DEF Inv, TypeOK, Accounted, Switching
<1>3. Inv => NeverRefused
  BY <1>1, <1>2 DEF NeverRefused
<1> QED
  BY <1>3, Invariance, PTL

(* What is wanted and runs is not touched by any step of an operation.     *)
LEMMA StepKeepsControllers ==
  ASSUME Inv, OperationStep \/ Execute, NEW k \in wanted \cap Running
  PROVE  state'[k] = "RUNNING"
<1> USE DEF Inv
<1>1. k \in Ctrl /\ state[k] = "RUNNING" /\ k \in Loaded
  BY Lists DEF Running
<1>2. ASSUME NEW c \in Ctrl, Load(c) PROVE state'[k] = "RUNNING"
  <2>1. c \notin Loaded
    BY <1>2 DEF Load, Accounted, TypeOK
  <2> QED
    BY <1>1, <1>2, <2>1 DEF Load, TypeOK
<1>3. ASSUME NEW c \in Ctrl, Unload(c) PROVE state'[k] = "RUNNING"
  <2>1. c \notin Running
    BY <1>3 DEF Unload, Switching
  <2> QED
    BY <1>1, <1>3, <2>1 DEF Unload, TypeOK
<1>4. CASE Execute
  <2>1. k \notin stopping /\ k \notin starting
    BY <1>4 DEF Execute, Switching
  <2> QED
    BY <1>1, <1>4, <2>1 DEF Execute
<1>5. CASE \/ List \/ ListFails \/ LoadFails \/ NothingToSwitch \/ Request
           \/ RequestRefused \/ Check \/ CheckFails \/ ListToUnload \/ Unloaded
  <2>1. UNCHANGED state
    BY <1>5 DEF List, ListFails, LoadFails, NothingToSwitch, Request, RequestRefused,
                Check, CheckFails, ListToUnload, Unloaded
  <2> QED
    BY <1>1, <2>1
<1> QED
  BY <1>2, <1>3, <1>4, <1>5 DEF OperationStep

(* A start does not restart what it keeps.                                 *)
THEOREM KeptControllersStay == Spec => KeptControllersRun
<1>1. Inv /\ [Next]_vars
        => [op' = "start" /\ (OperationStep \/ Execute) =>
              \A c \in wanted \cap Running : state'[c] = "RUNNING"]_vars
  BY StepKeepsControllers
<1> QED
  BY <1>1, Invariance, PTL DEF Spec, KeptControllersRun

-----------------------------------------------------------------------------
(* How what is loaded relates to what was loaded at the call.              *)
Before ==
  /\ pc \notin {"idle", "list"} /\ op = "start" => controllers \subseteq before \cup wanted
  /\ pc # "idle" /\ op # "start" => controllers \subseteq before
  /\ pc = "list" => controllers \subseteq before
  /\ pc = "list" /\ op = "start" => controllers = before
  /\ pc = "load" => before \subseteq controllers /\ todo # {} /\ todo \subseteq wanted
  /\ pc \in {"executing", "check"} => toStart = wanted

(* A list is made at the beginning.                                        *)
LEMMA ListKeepsBefore ==
  ASSUME Inv, Before, List PROVE Before'
<1> USE DEF Inv, Before, List, GoesTo, callVars
<1>1. /\ ListedRunning = Running /\ ListedStopped = controllers \ Running
      /\ Running \subseteq controllers
  BY Lists DEF TypeOK
<1>2. CASE op = "start"
  BY <1>1, <1>2 DEF PlanStart
<1>3. CASE op = "stop"
  BY <1>1, <1>3 DEF PlanStop
<1>4. CASE op = "destroy"
  BY <1>1, <1>4 DEF PlanDestroy
<1> QED
  BY <1>2, <1>3, <1>4 DEF TypeOK

(* Every step keeps it.                                                    *)
LEMMA StepBefore ==
  ASSUME Inv, Before, [Next]_vars PROVE Before'
<1> USE DEF Inv, Before, callVars, planVars, switchVars
<1>1. CASE List
  BY <1>1, ListKeepsBefore
<1>2. CASE ListFails \/ LoadFails \/ RequestRefused \/ CheckFails \/ Unloaded
  BY <1>2 DEF ListFails, LoadFails, RequestRefused, CheckFails, Unloaded, Return
<1>3. ASSUME NEW c \in Ctrl, Load(c) PROVE Before'
  BY <1>3 DEF Load, GoesTo, Accounted
<1>4. ASSUME NEW c \in Ctrl, Unload(c) PROVE Before'
  BY <1>4 DEF Unload
<1>5. CASE NothingToSwitch \/ Check
  BY <1>5 DEF NothingToSwitch, Check, Switched, Return, GoesTo
<1>6. CASE Request
  BY <1>6 DEF Request, Wanted
<1>7. CASE ListToUnload
  BY <1>7 DEF ListToUnload, Return, GoesTo
<1>8. CASE Execute
  BY <1>8 DEF Execute
<1>9. ASSUME NEW o \in {"start", "stop", "destroy"}, NEW names \in SUBSET Ctrl,
             NEW strictly \in BOOLEAN, Call(o, names, strictly)
      PROVE  Before'
  BY <1>9 DEF Call
<1>10. ASSUME NEW c \in Ctrl, ControllerEnds(c) PROVE Before'
  BY <1>10 DEF ControllerEnds
<1>11. CASE LoopEnds \/ UNCHANGED vars
  BY <1>11 DEF LoopEnds, vars
<1> QED
  BY <1>1, <1>2, <1>3, <1>4, <1>5, <1>6, <1>7, <1>8, <1>9, <1>10, <1>11
  DEF Next, OperationStep, Environment

(* What an operation that returns leaves behind.                           *)
LEMMA ReturnLeaves ==
  ASSUME Inv, Before, [Next]_vars, pc # "idle", pc' = "idle"
  PROVE  /\ controllers' = controllers
         /\ controllers \subseteq before \cup wanted
         /\ result' = "ok" => controllers = wanted
         /\ result' # "ok" =>
              /\ before \cup wanted # {}
              /\ before \subseteq controllers \/ wanted \subseteq controllers
<1> USE DEF Inv, callVars, planVars, switchVars
<1>1. controllers \subseteq before \cup wanted
  BY DEF Before, TypeOK
<1>2. CASE ListFails
  BY <1>1, <1>2 DEF ListFails, Return, Before, Wanted, Accounted
<1>3. CASE LoadFails
  BY <1>1, <1>3 DEF LoadFails, Return, Before
<1>4. CASE RequestRefused
  <2>1. toStart = wanted /\ (StartControllers # {} \/ StopControllers # {})
    BY <1>4 DEF RequestRefused, Wanted
  <2>2. controllers \cup wanted # {}
    BY <2>1 DEF StartControllers, StopControllers
  <2>3. wanted \subseteq controllers
    BY <1>4 DEF RequestRefused, Wanted, Accounted, TypeOK
  <2> QED
    BY <1>1, <1>4, <2>2, <2>3 DEF RequestRefused, Return
<1>5. CASE CheckFails
  <2>1. toStart = wanted /\ (StartControllers # {} \/ StopControllers # {})
    BY <1>5 DEF CheckFails, Missed, Before
  <2>2. controllers \cup wanted # {}
    BY <2>1 DEF StartControllers, StopControllers
  <2>3. wanted \subseteq controllers
    BY <1>5 DEF CheckFails, Wanted, Accounted, TypeOK
  <2> QED
    BY <1>1, <1>5, <2>2, <2>3 DEF CheckFails, Return
<1>6. CASE NothingToSwitch \/ Check
  <2>1. op = "start" /\ toUnload = {} /\ Return("ok")
    BY <1>6 DEF NothingToSwitch, Check, Switched, GoesTo
  <2> QED
    BY <1>1, <1>6, <2>1 DEF NothingToSwitch, Check, Return, Accounted
<1>7. CASE Unloaded
  BY <1>1, <1>7 DEF Unloaded, Return, Accounted
<1>8. CASE ListToUnload
  <2>1. ListedRunning \cap toUnload = {}
    BY <1>8, Lists DEF ListToUnload, Switching
  <2> QED
    BY <1>8, <2>1 DEF ListToUnload, GoesTo
<1>9. CASE List
  BY <1>9 DEF List, PlanStart, PlanStop, PlanDestroy, GoesTo, TypeOK
<1>10. ASSUME NEW c \in Ctrl, Load(c) \/ Unload(c) PROVE FALSE
  BY <1>10 DEF Load, Unload, GoesTo
<1>11. CASE Request \/ Execute
  BY <1>11 DEF Request, Execute
<1>12. CASE Environment \/ UNCHANGED vars
  BY <1>12 DEF Environment, Call, ControllerEnds, LoopEnds, vars
<1> QED
  BY <1>2, <1>3, <1>4, <1>5, <1>6, <1>7, <1>8, <1>9, <1>10, <1>11, <1>12
  DEF Next, OperationStep

(* That is what the operations of the loader may leave.                    *)
LEMMA ReturnImplements ==
  ASSUME Inv, Before, [Next]_vars, pc # "idle", pc' = "idle"
  PROVE  IF op = "start" THEN Loader!StartHwControllers(hw, wanted, result' = "ok")
         ELSE Loader!StopHwControllers(hw, result' = "ok")
<1>1. /\ controllers' = controllers
      /\ controllers \subseteq before \cup wanted
      /\ result' = "ok" => controllers = wanted
      /\ result' # "ok" =>
           /\ before \cup wanted # {}
           /\ before \subseteq controllers \/ wanted \subseteq controllers
  BY ReturnLeaves
<1>2. CASE op = "start"
  <2>1. CASE result' = "ok"
    BY <1>1, <1>2, <2>1 DEF Loader!StartHwControllers, Loader!Alive
  <2>2. CASE result' # "ok"
    BY <1>1, <1>2, <2>2 DEF Loader!StartHwControllers, Loader!Alive
  <2> QED
    BY <2>1, <2>2
<1>3. CASE op # "start"
  <2>1. wanted = {}
    BY <1>3 DEF Inv, Wanted
  <2> QED
    BY <1>1, <1>3, <2>1
    DEF Loader!StopHwControllers, Loader!StopUnloadAllControllers, Loader!Alive,
        Loader!Bare
<1> QED
  BY <1>2, <1>3

(* The three operations implement those the configuration loader is        *)
(* modelled with.                                                          *)
THEOREM OperationsImplementLoader == Spec => ImplementsLoader
<1>1. Init => Before
  BY DEF Init, Before
<1>2. Inv /\ Before /\ [Next]_vars => Before'
  BY StepBefore
<1>3. Inv /\ Before /\ [Next]_vars
        => [pc # "idle" /\ pc' = "idle" =>
              IF op = "start" THEN Loader!StartHwControllers(hw, wanted, result' = "ok")
              ELSE Loader!StopHwControllers(hw, result' = "ok")]_vars
  BY ReturnImplements
<1> QED
  BY <1>1, <1>2, <1>3, Invariance, PTL DEF Spec, ImplementsLoader

-----------------------------------------------------------------------------
(* An operation cannot run in circles: not even "destroy", which goes back *)
(* to its first list.                                                      *)
Stage ==
  CASE pc = "idle" -> 0
    [] pc = "unload" -> 1
    [] pc = "relist" -> 2
    [] pc = "list" /\ op = "destroy" /\ Running = {} -> 3
    [] pc = "check" -> 4
    [] pc = "executing" -> 5
    [] pc = "switch" -> 6
    [] pc = "load" -> 7
    [] pc = "list" /\ ~(op = "destroy" /\ Running = {}) -> 8

(* A step of the operation, or of the control loop for it, returns, gets   *)
(* it further or treats one more controller; what happens beside it does   *)
(* not throw it back.                                                      *)
GetsOn ==
  \/ Stage' < Stage
  \/ Stage' = Stage /\ \E c \in todo : todo' = todo \ {c}
  \/ ~(OperationStep \/ Execute) /\ Stage' = Stage /\ todo' = todo

(* Of what "destroy" found running, all is stopped before it goes on.      *)
Quieting == op = "destroy" =>
  /\ pc = "switch" => Running \subseteq toStop
  /\ pc = "executing" => Running \subseteq stopping
  /\ pc \in {"check", "relist"} => Running = {}

LEMMA StepQuieting ==
  ASSUME Inv, Quieting, [Next]_vars
  PROVE  Quieting'
<1> USE DEF Quieting, callVars, planVars, switchVars
<1>1. ASSUME UNCHANGED state PROVE Running' = Running
  BY <1>1, SameSets
<1>2. CASE List
  <2>1. Running' = Running /\ ListedRunning = Running
    BY <1>1, <1>2, Lists DEF Inv, List
  <2>2. CASE op = "destroy"
    BY <1>2, <2>1, <2>2 DEF List, PlanDestroy, GoesTo
  <2>3. CASE op # "destroy"
    BY <1>2, <2>3 DEF Inv, TypeOK, List, PlanStart, PlanStop, GoesTo
  <2> QED
    BY <2>2, <2>3
<1>3. CASE LoadFails \/ ListFails \/ RequestRefused \/ CheckFails \/ Unloaded
  BY <1>3 DEF LoadFails, ListFails, RequestRefused, CheckFails, Unloaded, Return
<1>4. CASE NothingToSwitch \/ Check
  BY <1>1, <1>4 DEF NothingToSwitch, Check, Switched, Return, GoesTo
<1>5. CASE Request
  <2>1. Running \subseteq controllers
    BY Lists DEF Inv, TypeOK
  <2> QED
    BY <1>1, <1>5, <2>1 DEF Request, StopControllers
<1>6. CASE Execute
  <2>1. PICK failing \in SUBSET (starting \cup (stopping \cap Running)) :
          state' = [c \in Ctrl |->
                      IF c \in failing THEN "ABORTED"
                      ELSE IF c \in starting THEN "RUNNING"
                      ELSE IF c \in stopping \cap Running THEN "STOPPED"
                      ELSE state[c]]
    BY <1>6 DEF Execute
  <2>2. pc = "executing" /\ pc' = "check" /\ op' = op
    BY <1>6 DEF Execute
  <2>3. ASSUME op = "destroy" PROVE Running' = {}
    <3>1. starting = {} /\ Running \subseteq stopping
      BY <2>2, <2>3 DEF Inv, Wanted, Switching
    <3> QED
      BY <2>1, <3>1 DEF Running
  <2> QED
    BY <2>2, <2>3
<1>7. CASE ListToUnload
  BY <1>1, <1>7 DEF ListToUnload, Return, GoesTo
<1>8. ASSUME NEW c \in Ctrl, Load(c) \/ Unload(c) \/ ControllerEnds(c)
      PROVE  Quieting'
  <2>1. CASE Load(c)
    BY <2>1 DEF Load, GoesTo, Inv, Accounted
  <2>2. CASE Unload(c)
    BY <2>2 DEF Unload
  <2>3. CASE ControllerEnds(c)
    <3>1. Running' \subseteq Running
      BY <2>3 DEF ControllerEnds, Running, Inv, TypeOK
    <3> QED
      BY <2>3, <3>1 DEF ControllerEnds
  <2> QED
    BY <1>8, <2>1, <2>2, <2>3
<1>9. ASSUME NEW o \in {"start", "stop", "destroy"}, NEW names \in SUBSET Ctrl,
             NEW strictly \in BOOLEAN, Call(o, names, strictly)
      PROVE  Quieting'
  BY <1>9 DEF Call
<1>10. CASE LoopEnds \/ UNCHANGED vars
  BY <1>1, <1>10 DEF LoopEnds, vars
<1> QED
  BY <1>2, <1>3, <1>4, <1>5, <1>6, <1>7, <1>8, <1>9, <1>10
  DEF Next, OperationStep, Environment

LEMMA StepGetsOn ==
  ASSUME Inv, Quieting, [Next]_vars, pc # "idle"
  PROVE  GetsOn
<1> USE DEF callVars, planVars, switchVars
<1>1. ASSUME UNCHANGED state PROVE Running' = Running
  BY <1>1, SameSets
<1>2. CASE List
  <2>1. ListedRunning = Running
    BY Lists DEF Inv
  <2>2. op' = op /\ pc = "list"
    BY <1>2 DEF List, PlanStart, PlanStop, PlanDestroy, GoesTo, Inv, TypeOK
  <2>3. CASE op = "destroy" /\ Running = {}
    BY <1>2, <2>1, <2>2, <2>3 DEF List, PlanDestroy, GoesTo, GetsOn, Stage
  <2>4. CASE ~(op = "destroy" /\ Running = {})
    <3>1. pc' \in {"load", "switch", "relist"}
      BY <1>2 DEF List, PlanStart, PlanStop, PlanDestroy, GoesTo, Inv, TypeOK
    <3> QED
      BY <2>2, <2>4, <3>1 DEF GetsOn, Stage
  <2> QED
    BY <2>3, <2>4
<1>3. pc \in {"unload", "relist", "list", "check", "executing", "switch", "load"}
  BY DEF Inv, TypeOK
<1>4. Stage \in 1 .. 8
  BY <1>3 DEF Stage
<1>5. CASE ListFails \/ LoadFails \/ RequestRefused \/ CheckFails \/ Unloaded
  <2>1. pc' = "idle"
    BY <1>5 DEF ListFails, LoadFails, RequestRefused, CheckFails, Unloaded, Return
  <2>2. Stage' = 0
    BY <2>1 DEF Stage
  <2> HIDE DEF Stage
  <2> QED
    BY <1>4, <2>2 DEF GetsOn
<1>6. CASE NothingToSwitch \/ Check
  <2>1. /\ Running' = Running /\ pc \in {"switch", "check"}
        /\ Switched
    BY <1>1, <1>6 DEF NothingToSwitch, Check
  <2>2. op = "destroy" => Running = {}
    <3>1. Running \subseteq controllers
      BY Lists DEF Inv, TypeOK
    <3> QED
      BY <1>6, <3>1 DEF NothingToSwitch, StopControllers, Check, Quieting
  <2>3. op' = op /\ pc' \in {"idle", "list", "relist"} /\ (pc' = "list" => op = "destroy")
    BY <2>1 DEF Switched, Return, GoesTo
  <2> QED
    BY <2>1, <2>2, <2>3 DEF GetsOn, Stage
<1>7. CASE Request
  BY <1>7 DEF Request, GetsOn, Stage
<1>8. CASE Execute
  BY <1>8 DEF Execute, GetsOn, Stage
<1>9. CASE ListToUnload
  BY <1>9 DEF ListToUnload, Return, GoesTo, GetsOn, Stage
<1>10. ASSUME NEW c \in Ctrl, Load(c) \/ Unload(c)
       PROVE  GetsOn
  BY <1>10 DEF Load, Unload, GoesTo, GetsOn, Stage
<1>11. ASSUME NEW c \in Ctrl, ControllerEnds(c), ~(OperationStep \/ Execute)
       PROVE  GetsOn
  <2>1. Running' \subseteq Running /\ pc' = pc /\ op' = op /\ todo' = todo
    BY <1>11 DEF ControllerEnds, Running, Inv, TypeOK
  <2> QED
    BY <1>3, <1>11, <2>1 DEF GetsOn, Stage
<1>12. ASSUME LoopEnds \/ UNCHANGED vars, ~(OperationStep \/ Execute)
       PROVE  GetsOn
  <2>1. Running' = Running /\ pc' = pc /\ op' = op /\ todo' = todo
    BY <1>1, <1>12 DEF LoopEnds, vars
  <2> QED
    BY <1>12, <2>1 DEF GetsOn, Stage
<1>13. ASSUME NEW o, NEW names, NEW strictly, Call(o, names, strictly)
       PROVE  GetsOn
  BY <1>13 DEF Call
<1> QED
  BY <1>2, <1>5, <1>6, <1>7, <1>8, <1>9, <1>10, <1>11, <1>12, <1>13
  DEF Next, OperationStep, Environment

(* That an operation returns under fairness (OperationReturns) is beyond   *)
(* this prover.  What it rests on is not: an operation makes at most seven *)
(* steps, and one for each controller it loads or unloads; controllers     *)
(* that stop themselves in between cost it none.  In particular the loop   *)
(* of stopUnloadAllControllers() is executed once and left: a switch that  *)
(* took place stopped all that ran.                                        *)
THEOREM OperationsGetOn == Spec => [][pc # "idle" => GetsOn]_vars
<1>1. Init => Quieting
  BY DEF Init, Quieting
<1>2. Inv /\ Quieting /\ [Next]_vars => Quieting'
  BY StepQuieting
<1>3. Inv /\ Quieting /\ [Next]_vars => [pc # "idle" => GetsOn]_vars
  BY StepGetsOn
<1> QED
  BY Invariance, <1>1, <1>2, <1>3, PTL DEF Spec

=============================================================================
