-------------------------- MODULE ControllerLifeCycle --------------------------
(***************************************************************************)
(* The life of one controller: Controller<T>, the base class of the        *)
(* controllers (cnr_controller_interface_impl.h, CI), with the thread that *)
(* JointController adds to it to compute the kinematics                    *)
(* (cnr_joint_controller_interface_impl.h, JC).                            *)
(*                                                                         *)
(* The control loop calls the requests of ros_control (startRequest(),     *)
(* updateRequest(), ...: external), which call starting(), update(), ...   *)
(* of the base class and then write state_ themselves.  Each of these      *)
(* calls the virtual hooks enterX(), doX() and exitX(); a derived class    *)
(* may make any of them succeed, return false or throw.  Only update()     *)
(* catches whatever is thrown; the other calls, and the control loop,      *)
(* catch what is derived from std::exception.  Anything else ends the      *)
(* process there ("alien").                                                *)
(***************************************************************************)
CONSTANT Topics    \* the topics the controller subscribes while it is initialised

VARIABLES
    state,         \* state_ of ros_control's ControllerBase; "DESTROYED" once deleted
    topics,        \* m_sub: the topics still subscribed
    queueOn,       \* m_controller_nh_callback_queue is enabled
    period,        \* m_fkin_update_period > 0
    thread,        \* update_transformations_: "none" is not joinable, "ended" has returned
    stopThread,    \* stop_update_transformations_
    firstPass,     \* update_transformations_runnig_
    pc,            \* where the control loop stands inside the controller
    ownStop,       \* the stop in progress was asked for by update()
    crashed,       \* std::terminate: a joinable "thread" was assigned to, or an
                   \* "exception" left the thread of the control loop
    escaped,       \* an exception left the controller: the control loop has ended
    skippedJoin    \* history: doStopping() threw and left the thread running

lifeVars == <<state, topics, queueOn, period, thread, stopThread, firstPass, pc,
              ownStop, crashed, escaped, skippedJoin>>

threadVars == <<thread, stopThread, firstPass>>

States == {"CONSTRUCTED", "INITIALIZED", "RUNNING", "WAITING", "STOPPED", "ABORTED",
           "DESTROYED"}
Outcomes == {"ok", "fail", "throw", "alien"}

\* How aborting() ends: in exitAborting(), or with an exception, whatever its hooks did.
Aborts == {"ok", "throw", "alien"}

\* It follows only hooks that fail.
AbortsAfter(o) == IF o = "fail" THEN Aborts ELSE {"ok"}

\* The manager starts what is initialised and does not run (external).
Startable == {"INITIALIZED", "WAITING", "STOPPED", "ABORTED"}

TypeOK ==
    /\ state \in States
    /\ topics \subseteq Topics
    /\ queueOn \in BOOLEAN
    /\ period \in BOOLEAN
    /\ thread \in {"none", "new", "loop", "ended"}
    /\ stopThread \in BOOLEAN
    /\ firstPass \in BOOLEAN
    /\ pc \in {"idle", "starting", "launching", "updating", "joining", "exiting",
              "destroying"}
    /\ ownStop \in BOOLEAN
    /\ crashed \in {"no", "thread", "exception"}
    /\ escaped \in BOOLEAN
    /\ skippedJoin \in BOOLEAN

LifeInit ==
    /\ state = "CONSTRUCTED"
    /\ topics = {}
    /\ queueOn = TRUE
    /\ period = FALSE
    /\ thread = "none"
    /\ stopThread = FALSE
    /\ firstPass = FALSE
    /\ pc = "idle"
    /\ ownStop = FALSE
    /\ crashed = "no"
    /\ escaped = FALSE
    /\ skippedJoin = FALSE

\* The control loop may call the controller.
Ready == pc = "idle" /\ crashed = "no" /\ ~escaped

\* Hooks with outcome o, and the abort a that follows when they fail, let something out
\* that is no std::exception.
Alien(o, a) == o = "alien" \/ (o = "fail" /\ a = "alien")

-----------------------------------------------------------------------------
(* Topics.  The messages are left out: callAvailable(), which every update *)
(* and the end of starting() call, gives a callback what was published on  *)
(* a topic that is still subscribed, while the queue is enabled.           *)

\* shutdown() of the base class, which the destructor calls: the subscriptions and
\* publishers are dropped.
Shutdown == topics' = {}

\* exitStopping() and exitAborting(): shutdown(), and no callback again.
ShutdownAndDisable ==
    /\ Shutdown
    /\ queueOn' = FALSE

\* What was thrown came before or after the hook of the base class that does so.
MayShutdown == ShutdownAndDisable \/ UNCHANGED <<topics, queueOn>>

\* abortRequest() called by starting(), waiting() or stopping(), which catch the
\* std::exception aborting() throws.  The state it stores is overwritten by the request
\* around it.
AbortInside(a) ==
    \/ a = "ok" /\ ShutdownAndDisable
    \/ a # "ok" /\ MayShutdown

-----------------------------------------------------------------------------
(* init() *)

\* enterInit() and doInit(): the hooks subscribe, an exception stops them half-way.
\* JointController reads the period of its thread in enterInit(), and sets it to -1
\* again in doInit(), unless the derived class overrides doInit().
EnterInit(o) ==
    /\ topics' \in SUBSET Topics
    /\ o = "ok" => topics' = Topics
    /\ \E given, callsBase \in BOOLEAN : period' = (given /\ ~callsBase)

\* prepareInit() misses the hardware, a name, the logger or the sampling period: the
\* manager deletes the controller.
InitRefused ==
    /\ Ready
    /\ state = "CONSTRUCTED"
    /\ state' = "DESTROYED"
    /\ UNCHANGED <<topics, queueOn, period, pc, ownStop, crashed, escaped, skippedJoin>>
    /\ UNCHANGED threadVars

\* init(): a std::exception inside is caught, and init() returns true.  The manager
\* catches everything else (external), and deletes a controller that did not return true.
InitRequest(o) ==
    /\ Ready
    /\ state = "CONSTRUCTED"
    /\ \/ o \in {"fail", "alien"} /\ state' = "DESTROYED" /\ UNCHANGED <<topics, period>>
       \/ o \in {"ok", "throw"} /\ state' = "INITIALIZED" /\ EnterInit(o)
    /\ UNCHANGED <<queueOn, pc, ownStop, crashed, escaped, skippedJoin>>
    /\ UNCHANGED threadVars

-----------------------------------------------------------------------------
(* starting() *)

\* startUpdateTransformationsThread(): the flags are reset, the thread is created.
LaunchThread ==
    IF thread # "none"
    THEN /\ crashed' = "thread"
         /\ pc' = "idle"
         /\ UNCHANGED threadVars
    ELSE /\ thread' = "new"
         /\ stopThread' = FALSE
         /\ firstPass' = FALSE
         /\ pc' = "launching"
         /\ UNCHANGED crashed

\* starting() from the first hook that does not succeed, or from the end of
\* exitStarting() on, with the hooks' outcome o and, when they fail, the outcome a of
\* the abort.  startRequest() stores RUNNING after starting(), whatever was caught in it.
FinishStarting(o, a) ==
    /\ pc' = "idle"
    /\ IF Alien(o, a)
       THEN crashed' = "exception" /\ state' = state
       ELSE state' = "RUNNING" /\ crashed' = crashed
    /\ \/ o = "fail" /\ AbortInside(a)
       \/ o # "fail" /\ UNCHANGED <<topics, queueOn>>

\* startRequest(), when enterStarting() does not get to where it sends the target, ...
StartRefused(o, a) ==
    /\ Ready
    /\ state \in Startable
    /\ o # "ok"
    /\ FinishStarting(o, a)
    /\ UNCHANGED <<period, ownStop, escaped, skippedJoin>>
    /\ UNCHANGED threadVars

\* ... and when it does.
StartRequest ==
    /\ Ready
    /\ state \in Startable
    /\ pc' = "starting"
    /\ UNCHANGED <<state, topics, queueOn, period, ownStop, crashed, escaped, skippedJoin>>
    /\ UNCHANGED threadVars

\* From there up to the thread, with the outcome o of the hooks.
StartGoesOn(o, a) ==
    /\ pc = "starting"
    /\ \/ /\ o = "ok" /\ period
          /\ LaunchThread
          /\ UNCHANGED <<state, topics, queueOn>>
       \/ /\ ~(o = "ok" /\ period)
          /\ FinishStarting(o, a)
          /\ UNCHANGED threadVars
    /\ UNCHANGED <<period, ownStop, escaped, skippedJoin>>

\* exitStarting() goes on when the thread has done its first pass, or without it
\* after a second.
(* Mutant: it waits for the thread as long as it takes. *)
LaunchedNoTimeout(o, a) ==
    /\ pc = "launching"
    /\ firstPass
    /\ FinishStarting(o, a)
    /\ UNCHANGED <<period, ownStop, escaped, skippedJoin>>
    /\ UNCHANGED threadVars

Launched(o, a) ==
    /\ pc = "launching"
    /\ FinishStarting(o, a)
    /\ UNCHANGED <<period, ownStop, escaped, skippedJoin>>
    /\ UNCHANGED threadVars

-----------------------------------------------------------------------------
(* stopping() and update() *)

\* The end of stopping(), with the outcome o of its hooks: stopRequest() stores STOPPED
\* after it, whatever was caught.  What was not gets to update(), which catches it, if
\* that is who asked for the stop (own).
FinishStopping(o, a, own) ==
    /\ pc' = "idle"
    /\ ownStop' = FALSE
    /\ IF Alien(o, a)
       THEN crashed' = (IF own THEN crashed ELSE "exception") /\ state' = state
       ELSE state' = "STOPPED" /\ crashed' = crashed
    /\ \/ o = "ok" /\ ShutdownAndDisable
       \/ o = "fail" /\ AbortInside(a)
       \/ o \in {"throw", "alien"} /\ MayShutdown

(* Mutant: the thread is asked to stop and not joined. *)
StoppingNoJoin(o, a, own) ==
    /\ FinishStopping(o, a, own)
    /\ stopThread' = (stopThread \/ period)
    /\ UNCHANGED skippedJoin

\* stopping(): the hook of a derived class may fail or throw before
\* stopUpdateTransformationsThread() is called; otherwise the flag is set, and without a
\* thread to join the call has got to exitStopping().
Stopping(o, a, own) ==
    \/ /\ o # "ok"
       /\ FinishStopping(o, a, own)
       /\ skippedJoin' = (skippedJoin \/ thread # "none")
       /\ UNCHANGED stopThread
    \/ /\ o = "ok"
       /\ stopThread' = (stopThread \/ period)
       /\ pc' = IF thread = "none" THEN "exiting" ELSE "joining"
       /\ ownStop' = own
       /\ UNCHANGED <<state, topics, queueOn, crashed, skippedJoin>>

\* stopRequest() of the manager.
StopRequest(o, a) ==
    /\ Ready
    /\ state = "RUNNING"
    /\ Stopping(o, a, FALSE)
    /\ UNCHANGED <<period, thread, firstPass, escaped>>

\* updateRequest(): enterUpdate() calls the callbacks first.  The hooks succeed, or
\* throw, which update() only reports ...
UpdateThrows ==
    /\ Ready
    /\ state = "RUNNING"
    /\ UNCHANGED lifeVars

UpdateRequest ==
    /\ Ready
    /\ state = "RUNNING"
    /\ pc' = "updating"
    /\ UNCHANGED <<state, topics, queueOn, period, ownStop, crashed, escaped, skippedJoin>>
    /\ UNCHANGED threadVars

UpdateEnds ==
    /\ pc = "updating"
    /\ pc' = "idle"
    /\ UNCHANGED <<state, topics, queueOn, period, ownStop, crashed, escaped, skippedJoin>>
    /\ UNCHANGED threadVars

\* ... or fail, at once or after exitUpdate(): then update() calls stopRequest()
\* (outcomes o and a).
UpdateFails(o, a) ==
    /\ Ready \/ pc = "updating"
    /\ state = "RUNNING"
    /\ Stopping(o, a, TRUE)
    /\ UNCHANGED <<period, thread, firstPass, escaped>>

\* join() returns, and stopping() goes on to exitStopping(), or breaks off before it.
Joined(o, a) ==
    /\ pc = "joining"
    /\ thread = "ended"
    /\ thread' = "none"
    /\ \/ /\ o = "ok"
          /\ pc' = "exiting"
          /\ UNCHANGED <<state, topics, queueOn, ownStop, crashed>>
       \/ o # "ok" /\ FinishStopping(o, a, ownStop)
    /\ UNCHANGED <<period, stopThread, firstPass, escaped, skippedJoin>>

\* exitStopping() returns to stopping().
Exited(o, a) ==
    /\ pc = "exiting"
    /\ FinishStopping(o, a, ownStop)
    /\ UNCHANGED <<period, escaped, skippedJoin>>
    /\ UNCHANGED threadVars

-----------------------------------------------------------------------------
(* waiting(), aborting() and the destructor *)

\* waitRequest(), while the hardware has not completed the switch: WAITING is
\* stored whatever waiting() caught.
WaitRequest(o, a) ==
    /\ Ready
    /\ state \in Startable
    /\ IF Alien(o, a)
       THEN crashed' = "exception" /\ state' = state
       ELSE state' = "WAITING" /\ crashed' = crashed
    /\ \/ o # "fail" /\ UNCHANGED <<topics, queueOn>>
       \/ o = "fail" /\ AbortInside(a)
    /\ UNCHANGED <<period, pc, ownStop, escaped, skippedJoin>>
    /\ UNCHANGED threadVars

\* abortRequest() of the manager, when the hardware could not switch or was late:
\* the exception aborting() throws reaches the control loop, which ends with it, and one
\* it does not catch ends the process.
AbortRequest(a) ==
    /\ Ready
    /\ state \in Startable
    /\ state' = IF a = "ok" THEN "ABORTED" ELSE state
    /\ escaped' = (a = "throw")
    /\ crashed' = IF a = "alien" THEN "exception" ELSE crashed
    /\ AbortInside(a)
    /\ UNCHANGED <<period, pc, ownStop, skippedJoin>>
    /\ UNCHANGED threadVars

\* The destructors of a controller that does not run (the manager unloads no other):
\* ~JointController() joins its thread, ~Controller() shuts the topics down.
Destroy ==
    /\ pc = "idle" /\ crashed = "no"
    /\ state \notin {"RUNNING", "DESTROYED"}
    /\ IF thread = "none"
       THEN Shutdown /\ state' = "DESTROYED" /\ UNCHANGED <<pc, stopThread>>
       ELSE pc' = "destroying" /\ stopThread' = TRUE /\ UNCHANGED <<state, topics>>
    /\ UNCHANGED <<queueOn, period, thread, firstPass, ownStop, crashed, escaped,
                   skippedJoin>>

Destroyed ==
    /\ pc = "destroying"
    /\ thread = "ended"
    /\ thread' = "none"
    /\ pc' = "idle"
    /\ state' = "DESTROYED"
    /\ Shutdown
    /\ UNCHANGED <<queueOn, period, stopThread, firstPass, ownStop, crashed, escaped,
                   skippedJoin>>

-----------------------------------------------------------------------------
(* updateTransformationsThread() *)

\* The thread initialises its own copy of the state: without a chain it returns.
ThreadBegins(ok) ==
    /\ thread = "new" /\ crashed = "no"
    /\ thread' = IF ok THEN "loop" ELSE "ended"
    /\ UNCHANGED <<state, topics, queueOn, period, stopThread, firstPass, pc,
                   ownStop, crashed, escaped, skippedJoin>>

\* One pass of its loop.
ThreadPasses ==
    /\ thread = "loop" /\ crashed = "no"
    /\ ~stopThread
    /\ firstPass' = TRUE
    /\ UNCHANGED <<state, topics, queueOn, period, thread, stopThread, pc,
                   ownStop, crashed, escaped, skippedJoin>>

ThreadEnds ==
    /\ thread = "loop" /\ crashed = "no"
    /\ stopThread
    /\ thread' = "ended"
    /\ UNCHANGED <<state, topics, queueOn, period, stopThread, firstPass, pc,
                   ownStop, crashed, escaped, skippedJoin>>

ThreadStep == (\E ok \in BOOLEAN : ThreadBegins(ok)) \/ ThreadPasses \/ ThreadEnds

=============================================================================
