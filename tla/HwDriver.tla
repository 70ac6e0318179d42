------------------------------ MODULE HwDriver ------------------------------
(***************************************************************************)
(* The threads of one RobotHwDriverInterface whose init() succeeded:       *)
(*   - the client, a thread of the configuration manager: start(), loads   *)
(*     and unloads controllers, and destroys the driver in the end;        *)
(*   - run(), the control loop, in a thread start() creates;               *)
(*   - diagnosticsThread(), in a thread run() creates for a                *)
(*     cnr_hardware_interface::RobotHW.                                    *)
(* They share m_state and three flags, none of them atomic and none under  *)
(* a mutex: an access that another thread can get in between is a step of  *)
(* its own.                                                                *)
(***************************************************************************)

VARIABLES
  cnrHw,               (* m_cnr_hw is not null                             *)
  hwState,             (* m_cnr_hw->getState()                             *)
  mState,              (* m_state                                          *)
  retrieved,           (* what retriveState() is about to store in m_state *)
  stopRun,             (* m_stop_run                                       *)
  stopDiagnostics,     (* m_stop_diagnostic_thread                         *)
  diagnosticsRunning,  (* m_diagnostics_thread_running                     *)
  controllers,         (* the controller manager has controllers           *)
  client, run, diagnostics  (* where the threads are                       *)

stateVars == <<cnrHw, hwState, mState>>
flagVars == <<stopRun, stopDiagnostics, diagnosticsRunning>>
vars == <<stateVars, retrieved, flagVars, controllers, client, run, diagnostics>>

HwStates == {"INITIALIZED", "RUNNING", "ERROR", "CTRL_ERROR"}
DriverStates == HwStates \cup {"SHUTDOWN"}

TypeOK ==
  /\ cnrHw \in BOOLEAN
  /\ hwState \in HwStates
  /\ mState \in DriverStates
  /\ retrieved \in DriverStates
  /\ stopRun \in BOOLEAN
  /\ stopDiagnostics \in BOOLEAN
  /\ diagnosticsRunning \in BOOLEAN
  /\ controllers \in BOOLEAN
  /\ client \in {"ready", "poll", "store", "test", "started", "failed", "list",
                 "switch", "unload", "destroy", "joinDiagnostics", "stop", "join",
                 "gone", "terminated"}
  /\ run \in {"none", "fetch", "reset", "spawn", "wait", "publish", "arm",
              "initRT", "loop", "cycle", "fault", "leave", "ended"}
  /\ diagnostics \in {"none", "starting", "running", "ended", "joined"}

(* Mutant: init() does not dump the state after the init() of the hardware. *)
InitWithoutDump ==
  /\ cnrHw \in BOOLEAN
  /\ hwState = "INITIALIZED"
  /\ mState = "CREATED"
  /\ retrieved = "INITIALIZED"
  /\ stopRun \in BOOLEAN
  /\ stopDiagnostics \in BOOLEAN
  /\ diagnosticsRunning \in BOOLEAN
  /\ controllers = FALSE
  /\ client = "ready"
  /\ run = "none"
  /\ diagnostics = "none"

(* After init().  Nobody initialises the flags.                            *)
Init ==
  /\ cnrHw \in BOOLEAN
  /\ hwState = "INITIALIZED"
  /\ mState = "INITIALIZED"
  /\ retrieved = "INITIALIZED"
  /\ stopRun \in BOOLEAN
  /\ stopDiagnostics \in BOOLEAN
  /\ diagnosticsRunning \in BOOLEAN
  /\ controllers = FALSE
  /\ client = "ready"
  /\ run = "none"
  /\ diagnostics = "none"

ClientGoes(from, to) == client = from /\ client' = to
RunGoes(from, to) == run = from /\ run' = to

Looping == run \in {"loop", "cycle"}

(* run() is past its resets of the flags, or is over.                      *)
PastReset == Looping \/ run \in {"fault", "leave", "ended"}

-----------------------------------------------------------------------------
(* start() creates the thread, then polls until the state is RUNNING or    *)
(* the watchdog expires.  retriveState() loads the state of the hardware   *)
(* (of a plain RobotHW: m_state itself), stores it into m_state and        *)
(* returns a reference to m_state, which start() reads once more.          *)
Start ==
  /\ ClientGoes("ready", "poll")
  /\ stopRun' = FALSE
  /\ run' = "fetch"
  /\ UNCHANGED <<stateVars, retrieved, stopDiagnostics, diagnosticsRunning,
                 controllers, diagnostics>>

Watchdog ==
  /\ ClientGoes("poll", "failed")
  /\ UNCHANGED <<stateVars, retrieved, flagVars, controllers, run, diagnostics>>

Retrieve ==
  /\ ClientGoes("poll", "store")
  /\ retrieved' = IF cnrHw THEN hwState ELSE mState
  /\ UNCHANGED <<stateVars, flagVars, controllers, run, diagnostics>>

Store ==
  /\ ClientGoes("store", "test")
  /\ mState' = retrieved
  /\ UNCHANGED <<cnrHw, hwState, retrieved, flagVars, controllers, run,
                 diagnostics>>

(* Mutant: any state but ERROR is good enough.                             *)
TestNoError ==
  /\ client = "test"
  /\ client' = IF mState # "ERROR" THEN "started" ELSE "poll"
  /\ UNCHANGED <<stateVars, retrieved, flagVars, controllers, run, diagnostics>>

TestRunning ==
  /\ client = "test"
  /\ client' = IF mState = "RUNNING" THEN "started" ELSE "poll"
  /\ UNCHANGED <<stateVars, retrieved, flagVars, controllers, run, diagnostics>>

(***************************************************************************)
(* The client starts controllers, or stops and unloads those that are      *)
(* there.  Loaded controllers are listed first, and again before they are  *)
(* unloaded, by a service that callAvailable() in run() answers; the       *)
(* switch is executed by update() in run().  The client waits for both.    *)
(***************************************************************************)
AskForSwitch ==
  /\ client = "started"
  /\ client' = IF controllers THEN "list" ELSE "switch"
  /\ UNCHANGED <<stateVars, retrieved, flagVars, controllers, run, diagnostics>>

(* ~RobotHwDriverInterface().  It stops and unloads the controllers first, *)
(* which is AskForSwitch.                                                  *)
Destroy ==
  /\ client \in {"started", "failed"}
  /\ ~controllers
  /\ client' = "destroy"
  /\ UNCHANGED <<stateVars, retrieved, flagVars, controllers, run, diagnostics>>

StopDiagnostics ==
  /\ ClientGoes("destroy", "joinDiagnostics")
  /\ stopDiagnostics' = TRUE
  /\ UNCHANGED <<stateVars, retrieved, stopRun, diagnosticsRunning, controllers,
                 run, diagnostics>>

(* A thread that was never created is not joinable.                        *)
JoinDiagnostics ==
  /\ ClientGoes("joinDiagnostics", "stop")
  /\ \/ diagnostics = "none" /\ diagnostics' = "none"
     \/ diagnostics = "ended" /\ diagnostics' = "joined"
  /\ UNCHANGED <<stateVars, retrieved, flagVars, controllers, run>>

(* Mutant: stop() does not ask run() to end.                               *)
OnlyWait ==
  /\ ClientGoes("stop", "join")
  /\ UNCHANGED <<stateVars, retrieved, flagVars, controllers, run, diagnostics>>

(* stop(), which waits for the end of run().                               *)
Stop ==
  /\ ClientGoes("stop", "join")
  /\ stopRun' = TRUE
  /\ UNCHANGED <<stateVars, retrieved, stopDiagnostics, diagnosticsRunning,
                 controllers, run, diagnostics>>

(* The destruction of a std::thread that is joinable ends the process.     *)
Join ==
  /\ client = "join"
  /\ run = "ended"
  /\ client' = IF diagnostics \in {"none", "joined"} THEN "gone" ELSE "terminated"
  /\ UNCHANGED <<stateVars, retrieved, flagVars, controllers, run, diagnostics>>

-----------------------------------------------------------------------------
(* run().  fetchState() compares the last status with the first value of   *)
(* the enumeration only, which it is not after init(); without a last      *)
(* status among the parameters run() returns at once and dumps nothing.    *)
Fetch ==
  /\ run = "fetch"
  /\ \/ mState' = mState /\ run' = "ended"
     \/ /\ mState' = IF cnrHw THEN hwState ELSE mState
        /\ run' = IF mState' = "RUNNING" THEN "ended"
                  ELSE IF cnrHw THEN "reset" ELSE "publish"
  /\ UNCHANGED <<cnrHw, hwState, retrieved, flagVars, controllers, client,
                 diagnostics>>

ResetDiagnostics ==
  /\ RunGoes("reset", "spawn")
  /\ diagnosticsRunning' = FALSE
  /\ stopDiagnostics' = FALSE
  /\ UNCHANGED <<stateVars, retrieved, stopRun, controllers, client, diagnostics>>

SpawnDiagnostics ==
  /\ RunGoes("spawn", "wait")
  /\ diagnostics' = "starting"
  /\ UNCHANGED <<stateVars, retrieved, flagVars, controllers, client>>

(* Up to ten seconds.                                                      *)
WaitForDiagnostics ==
  /\ run = "wait"
  /\ (diagnosticsRunning /\ run' = "arm") \/ run' = "ended"
  /\ UNCHANGED <<stateVars, retrieved, flagVars, controllers, client, diagnostics>>

(* A plain RobotHW has no state of its own: it is RUNNING from here on.    *)
Publish ==
  /\ RunGoes("publish", "arm")
  /\ mState' = "RUNNING"
  /\ UNCHANGED <<cnrHw, hwState, retrieved, flagVars, controllers, client,
                 diagnostics>>

(* The real-time properties of the thread cannot be set.                   *)
NoRealTime ==
  /\ RunGoes("arm", "ended")
  /\ UNCHANGED <<stateVars, retrieved, flagVars, controllers, client, diagnostics>>

Arm ==
  /\ RunGoes("arm", "initRT")
  /\ stopRun' = FALSE
  /\ UNCHANGED <<stateVars, retrieved, stopDiagnostics, diagnosticsRunning,
                 controllers, client, diagnostics>>

(* dumpState() looks at the state for the history first, which stores the  *)
(* one of the hardware into m_state, and then stores the status it is      *)
(* called with: ERROR where run() stands at "fault", SHUTDOWN at "leave".  *)
Dump(at) ==
  /\ mState' = IF cnrHw THEN hwState' ELSE mState
  /\ run' = at

(* Mutant: dumpState() records the state and stores no other.              *)
RunEndsSilently ==
  /\ run \in {"fault", "leave"}
  /\ run' = "ended"
  /\ UNCHANGED <<stateVars, retrieved, flagVars, controllers, client, diagnostics>>

(* The end of dumpState() and of run().                                    *)
RunEnds ==
  /\ \/ run = "fault" /\ mState' = "ERROR"
     \/ run = "leave" /\ mState' = "SHUTDOWN"
  /\ run' = "ended"
  /\ UNCHANGED <<cnrHw, hwState, retrieved, flagVars, controllers, client,
                 diagnostics>>

InitRT ==
  /\ run = "initRT"
  /\ \/ /\ hwState' = IF cnrHw THEN "RUNNING" ELSE hwState
        /\ run' = "loop"
        /\ mState' = mState
     \/ /\ cnrHw
        /\ hwState' \in {hwState, "ERROR"}
        /\ Dump("fault")
  /\ UNCHANGED <<cnrHw, retrieved, flagVars, controllers, client, diagnostics>>

(* Mutant: nobody calls the callback queue.                                *)
LoopHeadOnly ==
  /\ run = "loop"
  /\ hwState' = hwState
  /\ IF stopRun THEN Dump("leave") ELSE run' = "cycle" /\ mState' = mState
  /\ UNCHANGED <<cnrHw, retrieved, flagVars, controllers, client, diagnostics>>

(* callAvailable(): a list that is waited for.                             *)
Listed ==
  CASE client = "list" -> client' = "switch" /\ controllers' = controllers
    [] client = "unload" -> client' = "started" /\ controllers' = FALSE
    [] OTHER -> UNCHANGED <<client, controllers>>

(* The head of the loop.                                                   *)
LoopHead ==
  /\ run = "loop"
  /\ hwState' = hwState
  /\ IF stopRun
     THEN Dump("leave") /\ UNCHANGED <<client, controllers>>
     ELSE run' = "cycle" /\ mState' = mState /\ Listed
  /\ UNCHANGED <<cnrHw, retrieved, flagVars, diagnostics>>

(* update() executes the switch that is waiting.                           *)
Switched ==
  IF client = "switch"
  THEN client' = (IF controllers THEN "unload" ELSE "started") /\ controllers' = TRUE
  ELSE UNCHANGED <<client, controllers>>

(* The status a read() or write() may leave the hardware in.               *)
HwNext == IF cnrHw THEN {hwState, "RUNNING", "ERROR", "CTRL_ERROR"} ELSE {hwState}

(* read(), update() and write().  An exception of one of them ends run(),  *)
(* and so does hardware that says ERROR after them.                        *)
CycleThrows ==
  /\ run = "cycle"
  /\ Switched \/ UNCHANGED <<client, controllers>>
  /\ hwState' \in HwNext
  /\ Dump("fault")
  /\ UNCHANGED <<cnrHw, retrieved, flagVars, diagnostics>>

Cycle ==
  /\ run = "cycle"
  /\ Switched
  /\ hwState' \in HwNext
  /\ IF cnrHw /\ hwState' = "ERROR"
     THEN Dump("fault")
     ELSE run' = "loop" /\ mState' = mState
  /\ UNCHANGED <<cnrHw, retrieved, flagVars, diagnostics>>

-----------------------------------------------------------------------------
DiagnosticsStart ==
  /\ diagnostics = "starting"
  /\ diagnostics' = "running"
  /\ diagnosticsRunning' = TRUE
  /\ UNCHANGED <<stateVars, retrieved, stopRun, stopDiagnostics, controllers,
                 client, run>>

DiagnosticsEnd ==
  /\ diagnostics = "running"
  /\ stopDiagnostics
  /\ diagnostics' = "ended"
  /\ diagnosticsRunning' = FALSE
  /\ UNCHANGED <<stateVars, retrieved, stopRun, stopDiagnostics, controllers,
                 client, run>>

-----------------------------------------------------------------------------
(* What the client does on its own account, and what start() and the       *)
(* destructor do once it called them.                                      *)
ClientCalls == Start \/ AskForSwitch \/ Destroy
ClientStep ==
  \/ Watchdog \/ Retrieve \/ Store \/ TestRunning
  \/ StopDiagnostics \/ JoinDiagnostics \/ Stop \/ Join

RunStep ==
  \/ Fetch \/ ResetDiagnostics \/ SpawnDiagnostics \/ WaitForDiagnostics
  \/ Publish \/ NoRealTime \/ Arm \/ InitRT \/ LoopHead \/ CycleThrows \/ Cycle
  \/ RunEnds

DiagnosticsStep == DiagnosticsStart \/ DiagnosticsEnd

Next == ClientCalls \/ ClientStep \/ RunStep \/ DiagnosticsStep

Spec == Init /\ [][Next]_vars

(* The threads are scheduled.  The client need not call anything.          *)
FairSpec ==
  /\ Spec
  /\ WF_vars(ClientStep)
  /\ WF_vars(RunStep)
  /\ WF_vars(DiagnosticsStep)

-----------------------------------------------------------------------------
(* When start() returned true for a cnr RobotHW, run() is past the line    *)
(* that resets m_stop_run, and the diagnostics flag is not reset any more: *)
(* a stop that follows is not forgotten.  It is not so for a plain         *)
(* RobotHW, whose RUNNING run() itself publishes before that line.         *)
(* (start, run, stop.)                                                     *)
StartedIsPastReset ==
  cnrHw /\ client \in {"started", "list", "switch", "unload"} =>
    PastReset

(* Once start() has returned, a control loop that ends unasked leaves the  *)
(* driver in ERROR, and nothing takes that away again: isOk() will see it. *)
(* (run, dumpState, start.)                                                *)
FaultIsReported ==
  [][client \notin {"poll", "store", "test"} =>
       /\ (PastReset /\ run # "ended" /\ run' = "ended" /\ ~stopRun)
            => mState' = "ERROR"
       /\ (mState = "ERROR" /\ run = "ended") => mState' = "ERROR"]_vars

(* What the client waits for comes, as long as the control loop lives.     *)
(* (run: callAvailable, update.)                                           *)
CallsAnswered ==
  client \in {"list", "switch", "unload"} ~> (client = "started" \/ run = "ended")

(* The destruction of a driver whose run() got to its loop, whether that   *)
(* is over or not, ends and leaves no thread behind.                       *)
DestructionEnds ==
  (client = "destroy" /\ PastReset) ~> client = "gone"

=============================================================================
