--------------------------- MODULE HwDriverProofs ---------------------------
(***************************************************************************)
(* What holds of the threads of a driver, however they are scheduled.      *)
(*                                                                         *)
(* The types are inductive.  StartedIsPastReset is not: it needs that no   *)
(* copy of the state, be it the one of the hardware, m_state or the one    *)
(* start() holds between its load and its store, says RUNNING as long as   *)
(* run() is starting up.                                                   *)
(***************************************************************************)
EXTENDS HwDriver, Naturals, TLAPS

(* run() has not got past the initialisation of the real time.             *)
StartingUp ==
  run \in {"none", "fetch", "reset", "spawn", "wait", "publish", "arm", "initRT"}

InUse == client \in {"started", "list", "switch", "unload"}

NotYetRunning ==
  cnrHw /\ StartingUp =>
    /\ hwState # "RUNNING" /\ mState # "RUNNING" /\ retrieved # "RUNNING"
    /\ ~InUse

OneStart == client = "ready" => run = "none"

PlainPublishes == run = "publish" => ~cnrHw

(* run() leaves its loop without an error only when it is asked to.        *)
LeavesWhenAsked == run = "leave" => stopRun

Starting == NotYetRunning /\ OneStart /\ PlainPublishes /\ LeavesWhenAsked

IInv == TypeOK /\ Starting

-----------------------------------------------------------------------------
(* The invariant holds at first.                                           *)
LEMMA InitIInv == Init => IInv
BY DEF Init, IInv, Starting, TypeOK, NotYetRunning, OneStart, PlainPublishes, InUse,
       LeavesWhenAsked, HwStates, DriverStates

(* A step of each of the threads keeps the types.                          *)
LEMMA ClientKeepsTypes ==
  ASSUME TypeOK, ClientCalls \/ ClientStep PROVE TypeOK'
<1> USE DEF TypeOK, HwStates, DriverStates, stateVars, flagVars
<1>1. CASE Start
  <2>1. stopRun' \in BOOLEAN
    BY <1>1, Zenon DEF Start
  <2> QED
    BY <1>1, <2>1 DEF Start, ClientGoes
<1>2. CASE AskForSwitch
  BY <1>2 DEF AskForSwitch
<1>3. CASE Destroy
  BY <1>3 DEF Destroy
<1>4. CASE Watchdog
  BY <1>4 DEF Watchdog, ClientGoes
<1>5. CASE Retrieve
  BY <1>5 DEF Retrieve, ClientGoes
<1>6. CASE Store
  BY <1>6 DEF Store, ClientGoes
<1>7. CASE TestRunning
  BY <1>7 DEF TestRunning
<1>8. CASE StopDiagnostics
  BY <1>8 DEF StopDiagnostics, ClientGoes
<1>9. CASE JoinDiagnostics
  BY <1>9 DEF JoinDiagnostics, ClientGoes
<1>10. CASE Stop
  BY <1>10 DEF Stop, ClientGoes
<1>11. CASE Join
  BY <1>11 DEF Join
<1> QED
  BY <1>1, <1>2, <1>3, <1>4, <1>5, <1>6, <1>7, <1>8, <1>9, <1>10, <1>11
  DEF ClientCalls, ClientStep

(* A step of run() keeps the types.                                        *)
LEMMA RunKeepsTypes ==
  ASSUME TypeOK, RunStep PROVE TypeOK'
<1> USE DEF TypeOK, HwStates, DriverStates, stateVars, flagVars
<1>1. CASE Fetch
  BY <1>1 DEF Fetch
<1>2. CASE ResetDiagnostics
  <2>1. diagnosticsRunning' \in BOOLEAN /\ stopDiagnostics' \in BOOLEAN
    BY <1>2, Zenon DEF ResetDiagnostics
  <2> QED
    BY <1>2, <2>1 DEF ResetDiagnostics, RunGoes
<1>3. CASE SpawnDiagnostics
  BY <1>3 DEF SpawnDiagnostics, RunGoes
<1>4. CASE WaitForDiagnostics
  BY <1>4 DEF WaitForDiagnostics
<1>5. CASE Publish
  BY <1>5 DEF Publish, RunGoes
<1>6. CASE NoRealTime
  BY <1>6 DEF NoRealTime, RunGoes
<1>7. CASE Arm
  <2>1. stopRun' \in BOOLEAN
    BY <1>7, Zenon DEF Arm
  <2> QED
    BY <1>7, <2>1 DEF Arm, RunGoes
<1>8. CASE InitRT
  BY <1>8 DEF InitRT, Dump
<1>9. CASE LoopHead
  <2>1. controllers' \in BOOLEAN
    BY <1>9, Zenon DEF LoopHead, Listed, Dump
  <2> QED
    BY <1>9, <2>1 DEF LoopHead, Listed, Dump
<1>10. CASE CycleThrows
  <2>1. controllers' \in BOOLEAN
    BY <1>10, Zenon DEF CycleThrows, Switched
  <2>2. hwState' \in HwStates
    BY <1>10 DEF CycleThrows, HwNext
  <2>3. client' \in {client, "unload", "started"}
    BY <1>10 DEF CycleThrows, Switched
  <2> QED
    BY <1>10, <2>1, <2>2, <2>3 DEF CycleThrows, Dump
<1>11. CASE Cycle
  <2>1. controllers' \in BOOLEAN
    BY <1>11, Zenon DEF Cycle, Switched
  <2>2. hwState' \in HwStates
    BY <1>11 DEF Cycle, HwNext
  <2>3. client' \in {client, "unload", "started"}
    BY <1>11 DEF Cycle, Switched
  <2> QED
    BY <1>11, <2>1, <2>2, <2>3 DEF Cycle, Dump
<1>12. CASE RunEnds
  BY <1>12 DEF RunEnds
<1> QED
  BY <1>1, <1>2, <1>3, <1>4, <1>5, <1>6, <1>7, <1>8, <1>9, <1>10, <1>11, <1>12
  DEF RunStep

(* A step of the diagnostics thread keeps the types.                       *)
LEMMA DiagnosticsKeepsTypes ==
  ASSUME TypeOK, DiagnosticsStep PROVE TypeOK'
<1> USE DEF TypeOK, HwStates, DriverStates, stateVars, flagVars
<1>1. CASE DiagnosticsStart
  BY <1>1 DEF DiagnosticsStart
<1>2. CASE DiagnosticsEnd
  <2>1. diagnosticsRunning' \in BOOLEAN
    BY <1>2, Zenon DEF DiagnosticsEnd
  <2> QED
    BY <1>2, <2>1 DEF DiagnosticsEnd
<1> QED
  BY <1>1, <1>2
  DEF DiagnosticsStep

(* ... and what the start of the control loop relies on.                   *)
LEMMA ClientKeepsStart ==
  ASSUME Starting, ClientCalls \/ ClientStep PROVE Starting'
<1> USE DEF Starting, NotYetRunning, OneStart, PlainPublishes, LeavesWhenAsked,
            StartingUp, InUse, stateVars, flagVars
<1>1. CASE Start
  BY <1>1 DEF Start, ClientGoes
<1>2. CASE AskForSwitch
  BY <1>2 DEF AskForSwitch
<1>3. CASE Destroy
  BY <1>3 DEF Destroy
<1>4. CASE Watchdog
  BY <1>4 DEF Watchdog, ClientGoes
<1>5. CASE Retrieve
  BY <1>5 DEF Retrieve, ClientGoes
<1>6. CASE Store
  BY <1>6 DEF Store, ClientGoes
<1>7. CASE TestRunning
  BY <1>7 DEF TestRunning
<1>8. CASE StopDiagnostics
  BY <1>8 DEF StopDiagnostics, ClientGoes
<1>9. CASE JoinDiagnostics
  BY <1>9 DEF JoinDiagnostics, ClientGoes
<1>10. CASE Stop
  BY <1>10 DEF Stop, ClientGoes
<1>11. CASE Join
  BY <1>11 DEF Join
<1> QED
  BY <1>1, <1>2, <1>3, <1>4, <1>5, <1>6, <1>7, <1>8, <1>9, <1>10, <1>11
  DEF ClientCalls, ClientStep

(* run() does not say RUNNING before its loop.                             *)
LEMMA RunKeepsStart ==
  ASSUME Starting, RunStep PROVE Starting'
<1> USE DEF Starting, NotYetRunning, OneStart, PlainPublishes, LeavesWhenAsked,
            StartingUp, InUse, stateVars, flagVars
<1>1. CASE Fetch
  BY <1>1 DEF Fetch
<1>2. CASE ResetDiagnostics
  BY <1>2 DEF ResetDiagnostics, RunGoes
<1>3. CASE SpawnDiagnostics
  BY <1>3 DEF SpawnDiagnostics, RunGoes
<1>4. CASE WaitForDiagnostics
  BY <1>4 DEF WaitForDiagnostics
<1>5. CASE Publish
  BY <1>5 DEF Publish, RunGoes
<1>6. CASE NoRealTime
  BY <1>6 DEF NoRealTime, RunGoes
<1>7. CASE Arm
  BY <1>7 DEF Arm, RunGoes
<1>8. CASE InitRT
  BY <1>8 DEF InitRT, Dump
<1>9. CASE LoopHead
  BY <1>9 DEF LoopHead, Listed, Dump
<1>10. CASE CycleThrows
  BY <1>10 DEF CycleThrows, Switched, HwNext, Dump
<1>11. CASE Cycle
  BY <1>11 DEF Cycle, Switched, HwNext, Dump
<1>12. CASE RunEnds
  BY <1>12 DEF RunEnds
<1> QED
  BY <1>1, <1>2, <1>3, <1>4, <1>5, <1>6, <1>7, <1>8, <1>9, <1>10, <1>11, <1>12
  DEF RunStep

(* The diagnostics thread does not touch the state.                        *)
LEMMA DiagnosticsKeepsStart ==
  ASSUME Starting, DiagnosticsStep PROVE Starting'
<1> USE DEF Starting, NotYetRunning, OneStart, PlainPublishes, LeavesWhenAsked,
            StartingUp, InUse, stateVars, flagVars
<1>1. CASE DiagnosticsStart
  BY <1>1 DEF DiagnosticsStart
<1>2. CASE DiagnosticsEnd
  BY <1>2 DEF DiagnosticsEnd
<1> QED
  BY <1>1, <1>2
  DEF DiagnosticsStep

(* The invariant is inductive.                                             *)
LEMMA StepIInv == IInv /\ [Next]_vars => IInv'
<1> SUFFICES ASSUME IInv, [Next]_vars PROVE IInv'
  OBVIOUS
<1>1. CASE Next
  BY <1>1, ClientKeepsTypes, RunKeepsTypes, DiagnosticsKeepsTypes,
     ClientKeepsStart, RunKeepsStart, DiagnosticsKeepsStart DEF Next, IInv
<1>2. CASE UNCHANGED vars
  BY <1>2 DEF IInv, TypeOK, Starting, NotYetRunning, OneStart, PlainPublishes,
              LeavesWhenAsked, StartingUp, InUse, vars, stateVars, flagVars
<1> QED
  BY <1>1, <1>2

(* The inductive invariant holds of every behaviour.                       *)
THEOREM DriverInvariance == Spec => []IInv
BY InitIInv, StepIInv, PTL DEF Spec

(* Every variable keeps its type.                                          *)
THEOREM DriverTypeCorrect == Spec => []TypeOK
<1>1. IInv => TypeOK
  BY DEF IInv
<1> QED
  BY <1>1, DriverInvariance, PTL

(* start() answers only when run() is past the lines that reset the flags  *)
(* of stop() and of the destructor.                                        *)
THEOREM StartedDriverCanBeStopped == Spec => []StartedIsPastReset
<1>1. IInv => StartedIsPastReset
  BY DEF IInv, Starting, TypeOK, NotYetRunning, StartedIsPastReset, PastReset, Looping,
         StartingUp, InUse
<1> QED
  BY <1>1, DriverInvariance, PTL

-----------------------------------------------------------------------------
(* A step that is not part of start() keeps the ERROR of a control loop    *)
(* that has ended, and dumps it when it ends the loop unasked.             *)
THEOREM BrokenLoopIsReported == Spec => FaultIsReported
<1> DEFINE Reported ==
      client \notin {"poll", "store", "test"} =>
        /\ (PastReset /\ run # "ended" /\ run' = "ended" /\ ~stopRun) => mState' = "ERROR"
        /\ (mState = "ERROR" /\ run = "ended") => mState' = "ERROR"
<1>1. IInv /\ [Next]_vars => [Reported]_vars
  <2> SUFFICES ASSUME IInv, Next, client \notin {"poll", "store", "test"}
               PROVE  Reported
    BY Zenon DEF IInv
  <2> USE DEF Looping, PastReset, stateVars, flagVars
  <2>1. CASE ClientCalls
    BY <2>1 DEF ClientCalls, Start, AskForSwitch, Destroy, ClientGoes, IInv,
                Starting, OneStart
  <2>2. CASE ClientStep
    BY <2>2 DEF ClientStep, Watchdog, Retrieve, Store, TestRunning,
                StopDiagnostics, JoinDiagnostics, Stop, Join, ClientGoes
  <2>3. CASE Fetch \/ ResetDiagnostics \/ SpawnDiagnostics \/ WaitForDiagnostics
    BY <2>3 DEF Fetch, ResetDiagnostics, SpawnDiagnostics, WaitForDiagnostics,
                RunGoes
  <2>4. CASE Publish \/ NoRealTime \/ Arm \/ InitRT
    BY <2>4 DEF Publish, NoRealTime, Arm, InitRT, Dump, RunGoes
  <2>5. CASE LoopHead \/ CycleThrows \/ Cycle
    BY <2>5 DEF LoopHead, CycleThrows, Cycle, Dump
  <2>5a. CASE RunEnds
    BY <2>5a DEF RunEnds, IInv, Starting, LeavesWhenAsked
  <2>6. CASE DiagnosticsStep
    BY <2>6 DEF DiagnosticsStep, DiagnosticsStart, DiagnosticsEnd
  <2> QED
    BY <2>1, <2>2, <2>3, <2>4, <2>5, <2>5a, <2>6 DEF Next, RunStep
<1> QED
  BY <1>1, DriverInvariance, PTL DEF Spec, FaultIsReported

-----------------------------------------------------------------------------
(* What ConfigurationLoader takes m_state for: RUNNING as long as the      *)
(* control loop lives (Alive), ERROR once it is over.  In between          *)
(* dumpState() shows the state of the hardware for a moment.               *)
Truthful ==
  \/ Looping /\ mState = "RUNNING"
  \/ run = "fault"
  \/ run = "ended" /\ mState = "ERROR"

(* start() stored a RUNNING it had retrieved over the ERROR of the loop.   *)
Overwritten == run = "ended" /\ mState = "RUNNING"

(* Before the destructor asks for it no stop is pending in the loop, which *)
(* therefore ends only with an ERROR.                                      *)
NotAskedToStop ==
  cnrHw /\ stopRun /\ run \in {"initRT", "loop", "cycle", "leave"} =>
    client \in {"join", "gone", "terminated"}

TestedState == cnrHw /\ InUse => Truthful \/ Overwritten

(* Once start() has answered for a cnr RobotHW, m_state is what the model  *)
(* of the configuration manager takes it for, with one exception that only *)
(* start() itself brings about: what is true stays true until the driver   *)
(* is destroyed.  (start, retriveState, run, dumpState.)                   *)
THEOREM StateIsTrueInUse ==
  Spec => /\ []TestedState
          /\ [][cnrHw /\ InUse /\ Truthful /\ InUse' => Truthful']_vars
<1>1. Init => NotAskedToStop /\ TestedState
  BY DEF Init, NotAskedToStop, TestedState, InUse
<1>2. ASSUME IInv, NotAskedToStop, TestedState, [Next]_vars
      PROVE  /\ NotAskedToStop' /\ TestedState'
             /\ cnrHw /\ InUse /\ Truthful /\ InUse' => Truthful'
  <2> USE <1>2 DEF NotAskedToStop, TestedState, InUse, Truthful, Overwritten, Looping,
                   IInv, Starting, NotYetRunning, StartingUp, stateVars, flagVars
  <2>1. CASE ClientCalls
    BY <2>1 DEF ClientCalls, Start, AskForSwitch, Destroy, ClientGoes
  <2>2. CASE Watchdog \/ Retrieve \/ Store \/ TestRunning
    BY <2>2 DEF Watchdog, Retrieve, Store, TestRunning, ClientGoes, TypeOK,
                LeavesWhenAsked
  <2>3. CASE StopDiagnostics \/ JoinDiagnostics \/ Stop \/ Join
    BY <2>3 DEF StopDiagnostics, JoinDiagnostics, Stop, Join, ClientGoes
  <2>4. CASE Fetch \/ ResetDiagnostics \/ SpawnDiagnostics \/ WaitForDiagnostics
    BY <2>4 DEF Fetch, ResetDiagnostics, SpawnDiagnostics, WaitForDiagnostics,
                RunGoes
  <2>5. CASE Publish \/ NoRealTime \/ Arm \/ InitRT
    BY <2>5 DEF Publish, NoRealTime, Arm, InitRT, Dump, RunGoes
  <2>6. CASE LoopHead
    BY <2>6 DEF LoopHead, Listed, Dump
  <2>7. CASE CycleThrows \/ Cycle
    BY <2>7 DEF CycleThrows, Cycle, Switched, Dump
  <2>8. CASE RunEnds
    BY <2>8 DEF RunEnds, LeavesWhenAsked
  <2>9. CASE DiagnosticsStep
    BY <2>9 DEF DiagnosticsStep, DiagnosticsStart, DiagnosticsEnd
  <2>10. CASE UNCHANGED vars
    BY <2>10 DEF vars
  <2> QED
    BY <2>1, <2>2, <2>3, <2>4, <2>5, <2>6, <2>7, <2>8, <2>9, <2>10
    DEF Next, ClientStep, RunStep
<1>3. IInv /\ NotAskedToStop /\ TestedState /\ [Next]_vars
        => [cnrHw /\ InUse /\ Truthful /\ InUse' => Truthful']_vars
  BY <1>2
<1> QED
  BY DriverInvariance, <1>1, <1>2, <1>3, PTL DEF Spec

-----------------------------------------------------------------------------
(* The safety halves of CallsAnswered and DestructionEnds: what every step *)
(* of a thread contributes, so that fair threads come to the end.          *)

Waiting == client \in {"list", "switch", "unload"}

(* What the client still waits for, up to the end of its call.             *)
CallLeft == [list |-> 3, switch |-> 2, unload |-> 1, started |-> 0]

(* The steps of run() up to the one that answers: the head of the loop     *)
(* answers a list, its body executes a switch.                             *)
AnswerLeft ==
  [none |-> 10, fetch |-> 9, reset |-> 8, spawn |-> 7, wait |-> 6, publish |-> 6,
   arm |-> 5, initRT |-> 4, loop |-> IF client = "switch" THEN 3 ELSE 2,
   cycle |-> IF client = "switch" THEN 2 ELSE 3, fault |-> 1, leave |-> 1,
   ended |-> 0]

AnswerCloser ==
  \/ UNCHANGED <<client, run>>
  \/ run' = "ended"
  \/ client' \in DOMAIN CallLeft /\ CallLeft[client'] < CallLeft[client]
  \/ client' = client /\ AnswerLeft'[run'] < AnswerLeft[run]

(* Every step of the control loop answers a client that waits, or comes    *)
(* closer to its answer, or is its last: no list and no switch is passed   *)
(* over, also while run() is still starting up.  (run: callAvailable,      *)
(* update.)                                                                *)
THEOREM AnswersComeCloser == Spec => [][Waiting => AnswerCloser]_vars
<1>1. ASSUME IInv, Waiting, Next
      PROVE  AnswerCloser
  <2> USE <1>1 DEF Waiting, AnswerCloser, CallLeft, AnswerLeft, stateVars, flagVars
  <2>1. CASE ClientCalls
    BY <2>1 DEF ClientCalls, Start, AskForSwitch, Destroy, ClientGoes
  <2>2. CASE ClientStep
    BY <2>2 DEF ClientStep, Watchdog, Retrieve, Store, TestRunning,
                StopDiagnostics, JoinDiagnostics, Stop, Join, ClientGoes
  <2>3. CASE Fetch \/ ResetDiagnostics \/ SpawnDiagnostics \/ WaitForDiagnostics
    BY <2>3 DEF Fetch, ResetDiagnostics, SpawnDiagnostics, WaitForDiagnostics,
                RunGoes
  <2>4. CASE Publish \/ NoRealTime \/ Arm \/ InitRT
    BY <2>4 DEF Publish, NoRealTime, Arm, InitRT, Dump, RunGoes
  <2>5. CASE LoopHead
    BY <2>5 DEF LoopHead, Listed, Dump
  <2>6. CASE CycleThrows \/ Cycle
    BY <2>6 DEF CycleThrows, Cycle, Switched, Dump
  <2>7. CASE RunEnds
    BY <2>7 DEF RunEnds
  <2>8. CASE DiagnosticsStep
    BY <2>8 DEF DiagnosticsStep, DiagnosticsStart, DiagnosticsEnd
  <2> QED
    BY <2>1, <2>2, <2>3, <2>4, <2>5, <2>6, <2>7, <2>8 DEF Next, RunStep
<1>2. IInv /\ [Next]_vars => [Waiting => AnswerCloser]_vars
  BY <1>1
<1> QED
  BY DriverInvariance, <1>2, PTL DEF Spec

(* The destruction of a driver whose run() is past the lines that reset    *)
(* the flags: what has been asked for is not forgotten.                    *)
Ending ==
  /\ client \in {"destroy", "joinDiagnostics", "stop", "join", "gone"}
  /\ PastReset
  /\ client # "destroy" => stopDiagnostics
  /\ client \in {"stop", "join", "gone"} => diagnostics \in {"none", "joined"}
  /\ client = "join" => stopRun
  /\ client = "gone" => run = "ended"

ClientLeft ==
  [destroy |-> 4, joinDiagnostics |-> 3, stop |-> 2, join |-> 1, gone |-> 0]
DiagnosticsLeft ==
  [starting |-> 3, running |-> 2, ended |-> 1, joined |-> 0, none |-> 0]
RunLeft == [cycle |-> 3, loop |-> 2, fault |-> 1, leave |-> 1, ended |-> 0]

(* The destructor goes on, or the diagnostics thread does; until stop() is *)
(* called the control loop may go round, after it is on its way out.       *)
EndCloser ==
  \/ ClientLeft[client'] < ClientLeft[client]
  \/ /\ client' = client
     /\ \/ DiagnosticsLeft[diagnostics'] < DiagnosticsLeft[diagnostics]
        \/ /\ diagnostics' = diagnostics
           /\ client = "join" => RunLeft[run'] < RunLeft[run]

(* The destruction of a driver whose run() got to its loop leads nowhere   *)
(* but to "gone", without std::terminate, and no step of any thread takes  *)
(* it back.  (The destructor, stop, run, diagnosticsThread.)               *)
THEOREM DestructionComesCloser ==
  Spec => /\ [](client = "destroy" /\ PastReset => []Ending)
          /\ [][Ending => EndCloser]_vars
<1>1. ASSUME Ending, Next
      PROVE  EndCloser /\ Ending'
  <2> USE <1>1 DEF Ending, EndCloser, ClientLeft, DiagnosticsLeft, RunLeft,
                   PastReset, Looping, stateVars, flagVars
  <2>1. CASE ClientCalls
    BY <2>1 DEF ClientCalls, Start, AskForSwitch, Destroy, ClientGoes
  <2>2. CASE ClientStep
    BY <2>2 DEF ClientStep, Watchdog, Retrieve, Store, TestRunning,
                StopDiagnostics, JoinDiagnostics, Stop, Join, ClientGoes
  <2>3. CASE Fetch \/ ResetDiagnostics \/ SpawnDiagnostics \/ WaitForDiagnostics
    BY <2>3 DEF Fetch, ResetDiagnostics, SpawnDiagnostics, WaitForDiagnostics,
                RunGoes
  <2>4. CASE Publish \/ NoRealTime \/ Arm \/ InitRT
    BY <2>4 DEF Publish, NoRealTime, Arm, InitRT, Dump, RunGoes
  <2>5. CASE LoopHead
    BY <2>5 DEF LoopHead, Listed, Dump
  <2>6. CASE CycleThrows \/ Cycle
    BY <2>6 DEF CycleThrows, Cycle, Switched, Dump
  <2>7. CASE RunEnds
    BY <2>7 DEF RunEnds
  <2>8. CASE DiagnosticsStep
    BY <2>8 DEF DiagnosticsStep, DiagnosticsStart, DiagnosticsEnd
  <2> QED
    BY <2>1, <2>2, <2>3, <2>4, <2>5, <2>6, <2>7, <2>8 DEF Next, RunStep
<1>2. Ending /\ [Next]_vars => Ending'
  <2>1. Ending /\ UNCHANGED vars => Ending'
    BY DEF Ending, PastReset, Looping, vars, flagVars
  <2> QED
    BY <1>1, <2>1
<1>3. [Next]_vars => [Ending => EndCloser]_vars
  BY <1>1
<1>4. client = "destroy" /\ PastReset => Ending
  BY DEF Ending
<1> QED
  BY <1>2, <1>3, <1>4, PTL DEF Spec

=============================================================================
