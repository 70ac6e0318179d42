---------------------- MODULE JointCommandControllerProofs ----------------------
(***************************************************************************)
(* Proofs about JointCommandController, for any topics, positions and      *)
(* speeds: type correctness, the invariants on the thread and on the       *)
(* command of a controller that does not run, and the bound of the filter. *)
(***************************************************************************)
EXTENDS JointCommandController, TLAPS

-----------------------------------------------------------------------------
(* Lemmas on the filter *)

\* saturateSpeed() gives an admitted speed, or keeps what is not a number.
LEMMA SaturatedBounded ==
    ASSUME NEW v \in Int \union {NaN}
    PROVE  /\ v # NaN => Saturated(v) \in -MaxSpeed..MaxSpeed
           /\ v = NaN => Saturated(v) = NaN
<1>1. CASE v = NaN
    BY <1>1 DEF Saturated
<1>2. CASE v # NaN /\ v > MaxSpeed
    BY <1>2, CommandAssumption DEF Saturated
<1>3. CASE v # NaN /\ v < -MaxSpeed
    BY <1>3, CommandAssumption DEF Saturated
<1>4. CASE v # NaN /\ ~(v > MaxSpeed) /\ ~(v < -MaxSpeed)
    BY <1>4, CommandAssumption DEF Saturated
<1>5. QED
    BY <1>1, <1>2, <1>3, <1>4

\* The fields of a target are numbers or NaN.
LEMMA TargetInts ==
    ASSUME NEW t \in Targets
    PROVE  /\ t.q \in Int \union {NaN} /\ t.q \in Positions \union {NaN}
           /\ t.qd \in Int \union {NaN} /\ t.qd \in Speeds
           /\ t.acc \in Int \union {NaN} /\ t.acc \in Accelerations
           /\ t = [q |-> t.q, qd |-> t.qd, acc |-> t.acc]
<1>1. Positions \union {NaN} \subseteq Int \union {NaN}
    BY CommandAssumption
<1>2. Speeds \subseteq Int \union {NaN}
  <2>1. -MaxSpeed..MaxSpeed \subseteq Int
    BY CommandAssumption
  <2>2. QED
    BY <2>1, CommandAssumption DEF Speeds
<1>3. Accelerations \subseteq Int \union {NaN}
    BY CommandAssumption
<1>4. QED
    BY <1>1, <1>2, <1>3 DEF Targets

\* The speed the filter starts from is a number or NaN.
LEMMA NominalType ==
    ASSUME NEW t \in Targets, NEW last \in Targets, NEW prio \in Priorities
    PROVE  Nominal(t, last, prio) \in Int \union {NaN}
<1>1. /\ t.q \in Int \union {NaN}
      /\ t.qd \in Int \union {NaN}
      /\ last.q \in Int \union {NaN}
    BY TargetInts
<1>2. Minus(last.q, last.q) \in Int \union {NaN} /\ Minus(t.q, last.q) \in Int \union {NaN}
    BY <1>1, CommandAssumption DEF Minus
<1>3. CASE prio = "Q_PRIORITY" /\ t.q = NaN
    BY <1>2, <1>3 DEF Nominal
<1>4. CASE prio = "Q_PRIORITY" /\ t.q # NaN
    BY <1>2, <1>4 DEF Nominal
<1>5. CASE prio = "QD_PRIORITY" /\ t.qd = NaN
    BY <1>5 DEF Nominal
<1>6. CASE prio # "Q_PRIORITY" /\ ~(prio = "QD_PRIORITY" /\ t.qd = NaN)
    BY <1>1, <1>6 DEF Nominal
<1>7. QED
    BY <1>3, <1>4, <1>5, <1>6

\* It is a number when the last position is one: exitUpdate() replaces what is not.
LEMMA NominalNumber ==
    ASSUME NEW t \in Targets, NEW last \in Targets, NEW prio \in Priorities,
           prio # "NONE", last.q # NaN
    PROVE  Nominal(t, last, prio) \in Int
<1>1. /\ t.q \in Int \union {NaN}
      /\ t.qd \in Int \union {NaN}
      /\ last.q \in Int
    BY TargetInts
<1>2. CASE prio = "Q_PRIORITY" /\ t.q = NaN
    BY <1>1, <1>2, CommandAssumption DEF Nominal, Minus
<1>3. CASE prio = "Q_PRIORITY" /\ t.q # NaN
    BY <1>1, <1>3, CommandAssumption DEF Nominal, Minus
<1>4. CASE prio = "QD_PRIORITY" /\ t.qd = NaN
    BY <1>4 DEF Nominal
<1>5. CASE prio = "QD_PRIORITY" /\ t.qd # NaN
    BY <1>1, <1>5 DEF Nominal
<1>6. QED
    BY <1>2, <1>3, <1>4, <1>5 DEF Priorities

\* The filter keeps the acceleration, and its speed is one the model knows.
LEMMA FilteredFields ==
    ASSUME NEW t \in Targets, NEW last \in Targets, NEW prio \in Priorities
    PROVE  /\ Filtered(t, last, prio).qd \in Speeds
           /\ Filtered(t, last, prio).acc = t.acc
           /\ prio # "NONE" => Filtered(t, last, prio).q
                = Plus(Plus(last.q, Saturated(Nominal(t, last, prio))), t.acc)
           /\ Filtered(t, last, prio) = [q |-> Filtered(t, last, prio).q,
                                         qd |-> Filtered(t, last, prio).qd,
                                         acc |-> Filtered(t, last, prio).acc]
<1> DEFINE nominal == Nominal(t, last, prio)
           speed == Saturated(nominal)
<1>1. nominal \in Int \union {NaN}
    BY NominalType
<1>2. speed \in -MaxSpeed..MaxSpeed \union {NaN}
    BY <1>1, SaturatedBounded
<1>3. t.qd \in Speeds /\ t = [q |-> t.q, qd |-> t.qd, acc |-> t.acc]
    BY TargetInts
<1>4. CASE prio = "NONE"
    BY <1>3, <1>4 DEF Filtered
<1>5. CASE prio # "NONE"
  <2> DEFINE qd == IF speed # nominal THEN speed ELSE t.qd
             q == Plus(Plus(last.q, speed), t.acc)
  <2>1. Filtered(t, last, prio) = [t EXCEPT !.q = q, !.qd = qd]
    BY <1>5 DEF Filtered
  <2>2. qd \in Speeds
    BY <1>2, <1>3 DEF Speeds
  <2> HIDE DEF qd
  <2>3. q = Plus(Plus(last.q, Saturated(Nominal(t, last, prio))), t.acc)
    OBVIOUS
  <2> HIDE DEF q
  <2>4. Filtered(t, last, prio) = [q |-> q, qd |-> qd, acc |-> t.acc]
    BY <1>3, <2>1
  <2>5. QED
    BY <2>2, <2>3, <2>4
<1>6. QED
    BY <1>4, <1>5

\* What the filter leaves is a target, once its position is one the model bounds.
LEMMA FilteredType ==
    ASSUME NEW t \in Targets, NEW last \in Targets, NEW prio \in Priorities,
           Filtered(t, last, prio).q \in Positions \union {NaN}
    PROVE  Filtered(t, last, prio) \in Targets
    BY FilteredFields, TargetInts DEF Targets

\* From a number to a number, by a saturated speed and what the acceleration adds.
LEMMA FilteredBounded ==
    ASSUME NEW t \in Targets, NEW last \in Targets, NEW prio \in Priorities,
           prio # "NONE", last.q # NaN, t.acc # NaN
    PROVE  /\ Filtered(t, last, prio).q # NaN
           /\ Filtered(t, last, prio).q - last.q - t.acc \in -MaxSpeed..MaxSpeed
<1> DEFINE nominal == Nominal(t, last, prio)
           speed == Saturated(nominal)
<1>1. nominal \in Int
    BY NominalNumber
<1>2. speed \in -MaxSpeed..MaxSpeed
    BY <1>1, SaturatedBounded, CommandAssumption
<1>3. last.q \in Int /\ t.acc \in Int
    BY TargetInts
<1>4. Filtered(t, last, prio).q = Plus(Plus(last.q, speed), t.acc)
    BY FilteredFields
<1> HIDE DEF speed
<1>5. Plus(last.q, speed) = last.q + speed /\ last.q + speed \in Int
    BY <1>2, <1>3, CommandAssumption DEF Plus
<1>6. Plus(last.q + speed, t.acc) = last.q + speed + t.acc
    BY <1>3, <1>5, CommandAssumption DEF Plus
<1>7. Filtered(t, last, prio).q = last.q + speed + t.acc
    BY <1>4, <1>5, <1>6
<1>8. QED
    BY <1>2, <1>3, <1>7, CommandAssumption

-----------------------------------------------------------------------------
(* Type correctness *)

\* A joint at rest, and what doUpdate() leaves, are targets; what is sent is a command.
LEMMA TargetsClosed ==
    ASSUME JointTypeOK
    PROVE  /\ \A q \in Positions : AtRest(q) \in Targets
           /\ Wanted \subseteq Targets
           /\ \A t \in Targets : Command(t) \in Commands
           /\ \A t \in Targets, q \in Positions : [t EXCEPT !.q = q, !.qd = 0] \in Targets
<1>1. 0 \in Speeds
    BY CommandAssumption DEF Speeds
<1>2. \A q \in Positions : AtRest(q) \in Targets
    BY <1>1, CommandAssumption DEF AtRest, Targets
<1>3. Wanted \subseteq Targets
  <2>1. target.qd \in Speeds
    BY DEF JointTypeOK, Targets
  <2>2. Asked \union {NaN, target.qd} \subseteq Speeds
    BY <2>1 DEF Speeds
  <2>3. QED
    BY <2>2 DEF Wanted, Targets
<1>4. \A t \in Targets : Command(t) \in Commands
    BY DEF Targets, Commands, Command
<1>5. \A t \in Targets, q \in Positions : [t EXCEPT !.q = q, !.qd = 0] \in Targets
    BY <1>1 DEF Targets
<1>6. QED
    BY <1>2, <1>3, <1>4, <1>5

LEMMA TypeInit == Init => JointTypeOK
<1>1. AtRest(0) \in Targets /\ Command(AtRest(0)) \in Commands
  <2>1. 0 \in Speeds
    BY CommandAssumption DEF Speeds
  <2>2. QED
    BY <2>1, CommandAssumption DEF AtRest, Targets, Command, Commands
<1>2. QED
    BY <1>1 DEF Init, LifeInit, JointTypeOK, TypeOK, States

\* A step of a stop, wherever the target comes from.
LEMMA HoldType ==
    ASSUME JointTypeOK, NEW ts \in SUBSET Targets, Hold(ts)
    PROVE  target' \in Targets /\ touched' \in BOOLEAN /\ stopBroken' \in BOOLEAN
<1>1. PICK t \in ts, q \in Positions : target' = [t EXCEPT !.q = q, !.qd = 0]
    BY DEF Hold
<1>2. target' \in Targets
    BY <1>1, TargetsClosed
<1>3. QED
    BY <1>2 DEF Hold, JointTypeOK

LEMMA HoldOrLeaveType ==
    ASSUME JointTypeOK, NEW ts \in SUBSET Targets, HoldOrLeave(ts)
    PROVE  /\ target' \in Targets /\ sent' \in Commands /\ priority' \in Priorities
           /\ touched' \in BOOLEAN /\ stopBroken' \in BOOLEAN
    BY HoldType DEF HoldOrLeave, Touch, JointTypeOK

\* The steps of the life cycle keep the types of its variables.
LEMMA StoppingType ==
    ASSUME TypeOK, NEW o \in Outcomes, NEW a \in Aborts, NEW own \in BOOLEAN,
           Stopping(o, a, own), UNCHANGED <<period, thread, firstPass, escaped>>
    PROVE  TypeOK'
<1>1. CASE FinishStopping(o, a, own) /\ skippedJoin' = (skippedJoin \/ thread # "none")
           /\ UNCHANGED stopThread
    BY <1>1 DEF TypeOK, States, FinishStopping, MayShutdown, ShutdownAndDisable, Shutdown,
      AbortInside
<1>2. CASE /\ stopThread' = (stopThread \/ period)
           /\ pc' = IF thread = "none" THEN "exiting" ELSE "joining"
           /\ ownStop' = own
           /\ UNCHANGED <<state, topics, queueOn, crashed, skippedJoin>>
    BY <1>2 DEF TypeOK, States
<1>3. QED
    BY <1>1, <1>2 DEF Stopping

LEMMA StartingType ==
    ASSUME TypeOK, NEW o \in Outcomes, NEW a \in Aborts, FinishStarting(o, a),
           UNCHANGED <<period, ownStop, escaped, skippedJoin>>, UNCHANGED threadVars
    PROVE  TypeOK'
    BY DEF TypeOK, States, threadVars, FinishStarting, AbortInside, MayShutdown,
      ShutdownAndDisable, Shutdown

LEMMA OthersType == TypeOK /\ Others => TypeOK'
<1> SUFFICES ASSUME TypeOK, Others
             PROVE  TypeOK'
    OBVIOUS
<1> USE DEF TypeOK, States, threadVars
<1>1. CASE InitRefused
    BY <1>1 DEF InitRefused
<1>2. ASSUME NEW o \in Outcomes, InitRequest(o)
      PROVE  TypeOK'
  <2>1. CASE state' = "DESTROYED" /\ UNCHANGED <<topics, period>>
    BY <1>2, <2>1 DEF InitRequest
  <2>2. CASE state' = "INITIALIZED" /\ EnterInit(o)
    <3>1. topics' \in SUBSET Topics /\ period' \in BOOLEAN
      BY <2>2 DEF EnterInit
    <3>2. QED
      BY <1>2, <2>2, <3>1 DEF InitRequest
  <2>3. QED
    BY <1>2, <2>1, <2>2 DEF InitRequest
<1>3. ASSUME NEW a \in Aborts, AbortRequest(a)
      PROVE  TypeOK'
    BY <1>3 DEF AbortRequest, AbortInside, MayShutdown, ShutdownAndDisable, Shutdown
<1>4. ASSUME NEW o \in Outcomes, NEW a \in Aborts, Launched(o, a)
      PROVE  TypeOK'
    BY <1>4, StartingType DEF Launched
<1>5. ASSUME NEW o \in Outcomes, NEW a \in Aborts, WaitRequest(o, a)
      PROVE  TypeOK'
  <2>1. topics' \in SUBSET Topics /\ queueOn' \in BOOLEAN
    BY <1>5 DEF WaitRequest, AbortInside, MayShutdown, ShutdownAndDisable, Shutdown
  <2>2. state' \in States /\ crashed' \in {"no", "thread", "exception"}
    BY <1>5 DEF WaitRequest
  <2>3. QED
    BY <1>5, <2>1, <2>2 DEF WaitRequest
<1>6. CASE Destroy
    BY <1>6 DEF Destroy, Shutdown
<1>7. CASE Destroyed
    BY <1>7 DEF Destroyed, Shutdown
<1>8. CASE ThreadStep
    BY <1>8 DEF ThreadStep, ThreadBegins, ThreadPasses, ThreadEnds
<1>9. QED
    BY <1>1, <1>2, <1>3, <1>4, <1>5, <1>6, <1>7, <1>8 DEF Others, AbortsAfter, Aborts

\* An update, but for the target it leaves.
LEMMA UpdateType ==
    ASSUME JointTypeOK, UpdateRequest, target' \in Targets, touched' \in BOOLEAN,
           UNCHANGED <<priority, sent, stopBroken>>
    PROVE  JointTypeOK'
<1>1. TypeOK'
    BY DEF UpdateRequest, threadVars, JointTypeOK, TypeOK
<1>2. QED
    BY <1>1 DEF JointTypeOK

LEMMA TypeStep == JointTypeOK /\ [Next]_vars => JointTypeOK'
<1> SUFFICES ASSUME JointTypeOK, [Next]_vars
             PROVE  JointTypeOK'
    OBVIOUS
<1>0. /\ TypeOK
      /\ target \in Targets /\ Command(target) \in Commands
      /\ {target} \in SUBSET Targets /\ Wanted \in SUBSET Targets
    BY TargetsClosed DEF JointTypeOK
<1>1. CASE Others
    BY <1>1, OthersType DEF Others, JointTypeOK, commandVars
<1>2. ASSUME NEW o \in Outcomes, NEW a \in Aborts, StartFails(o, a)
      PROVE  JointTypeOK'
  <2>1. TypeOK'
    BY <1>0, <1>2, StartingType DEF StartFails, StartRefused
  <2>2. QED
    BY <1>2, <2>1 DEF StartFails, commandVars, JointTypeOK
<1>3. CASE Start
  <2>1. TypeOK'
    BY <1>0, <1>3 DEF Start, StartRequest, threadVars, TypeOK
  <2>2. QED
    BY <1>3, <2>1, TargetsClosed DEF Start, JointTypeOK
<1>4. ASSUME NEW o \in Outcomes, NEW a \in Aborts, StartSends(o, a)
      PROVE  JointTypeOK'
  <2>1. TypeOK'
    <3>1. CASE LaunchThread /\ UNCHANGED <<state, topics, queueOn>>
      BY <1>0, <1>4, <3>1 DEF StartSends, StartGoesOn, LaunchThread, threadVars, TypeOK
    <3>2. CASE FinishStarting(o, a) /\ UNCHANGED threadVars
      BY <1>0, <1>4, <3>2, StartingType DEF StartSends, StartGoesOn
    <3>3. QED
      BY <1>4, <3>1, <3>2 DEF StartSends, StartGoesOn
  <2>2. QED
    BY <1>0, <1>4, <2>1 DEF StartSends, Send, JointTypeOK
<1>5. ASSUME NEW o \in Outcomes, NEW a \in Aborts, Stop(o, a)
      PROVE  JointTypeOK'
  <2>1. TypeOK'
    BY <1>0, <1>5, StoppingType DEF Stop, StopRequest
  <2>2. QED
    BY <1>0, <1>5, <2>1, HoldOrLeaveType DEF Stop, JointTypeOK
<1>6. ASSUME NEW o \in Outcomes, NEW a \in Aborts, StopJoined(o, a)
      PROVE  JointTypeOK'
  <2>1. TypeOK'
    BY <1>0, <1>6 DEF StopJoined, Joined, FinishStopping, AbortInside, MayShutdown,
      ShutdownAndDisable, Shutdown, TypeOK, States
  <2>2. QED
    BY <1>0, <1>6, <2>1, HoldOrLeaveType DEF StopJoined, JointTypeOK
<1>7. ASSUME NEW o \in Outcomes, NEW a \in Aborts, StopSends(o, a)
      PROVE  JointTypeOK'
  <2>1. TypeOK'
    BY <1>0, <1>7 DEF StopSends, Exited, FinishStopping, AbortInside, MayShutdown,
      ShutdownAndDisable, Shutdown, threadVars, TypeOK, States
  <2>2. QED
    BY <1>0, <1>7, <2>1 DEF StopSends, Send, JointTypeOK
<1>8. ASSUME NEW t \in Wanted, Update(t)
      PROVE  JointTypeOK'
  <2>1. t \in Targets
    BY <1>0
  <2>2. target' \in Targets
    <3>1. CASE target' = Filtered(t, target, priority)
      BY <1>0, <1>8, <2>1, <3>1, FilteredType DEF Update, JointTypeOK
    <3>2. CASE target' = [t EXCEPT !.q = target.q, !.qd = 0]
      <4>1. 0 \in Speeds /\ target.q \in Positions \union {NaN}
        BY <1>0, CommandAssumption DEF Speeds, Targets
      <4>2. QED
        BY <2>1, <3>2, <4>1 DEF Targets
    <3>3. QED
      BY <1>8, <3>1, <3>2 DEF Update
  <2>3. QED
    BY <1>8, <2>2, UpdateType DEF Update, JointTypeOK
<1>9. ASSUME NEW t \in Wanted, UpdateRaced(t)
      PROVE  JointTypeOK'
  <2>1. [t EXCEPT !.q = NaN] \in Targets
    BY <1>0 DEF Targets
  <2>2. QED
    BY <1>9, <2>1, UpdateType DEF UpdateRaced
<1>10. CASE UpdateSends
  <2>1. TypeOK'
    BY <1>0, <1>10 DEF UpdateSends, UpdateEnds, threadVars, TypeOK
  <2>2. QED
    BY <1>0, <1>10, <2>1 DEF UpdateSends, Send, JointTypeOK
<1>11. ASSUME NEW o \in Outcomes, NEW a \in Aborts, UpdateSendsAndStops(o, a)
      PROVE  JointTypeOK'
  <2>1. TypeOK'
    BY <1>0, <1>11, StoppingType DEF UpdateSendsAndStops, UpdateFails
  <2>2. target' \in Targets /\ touched' \in BOOLEAN /\ stopBroken' \in BOOLEAN
    BY <1>0, <1>11, HoldType DEF UpdateSendsAndStops, JointTypeOK
  <2>3. QED
    BY <1>0, <1>11, <2>1, <2>2 DEF UpdateSendsAndStops, JointTypeOK
<1>12. CASE UpdateThrown
  <2>1. TypeOK'
    BY <1>0, <1>12 DEF UpdateThrown, UpdateThrows, lifeVars, TypeOK
  <2>2. QED
    BY <1>0, <1>12, <2>1 DEF UpdateThrown, Touch, JointTypeOK
<1>13. ASSUME NEW o \in Outcomes, NEW a \in Aborts, UpdateStops(o, a)
      PROVE  JointTypeOK'
  <2>1. TypeOK'
    BY <1>0, <1>13, StoppingType DEF UpdateStops, UpdateFails
  <2>2. QED
    BY <1>0, <1>13, <2>1, HoldOrLeaveType DEF UpdateStops, JointTypeOK
<1>14. ASSUME NEW f, NEW v, SetCommand(f, v), [target EXCEPT ![f] = v] \in Targets
      PROVE  JointTypeOK'
  <2>1. TypeOK'
    BY <1>0, <1>14 DEF SetCommand, lifeVars, TypeOK
  <2>2. QED
    BY <1>14, <2>1 DEF SetCommand, Touch, JointTypeOK
<1>15. /\ \A v \in Positions \union {NaN} : [target EXCEPT !["q"] = v] \in Targets
       /\ \A v \in Asked \union {NaN} : [target EXCEPT !["qd"] = v] \in Targets
       /\ \A v \in Accelerations : [target EXCEPT !["acc"] = v] \in Targets
    BY <1>0 DEF Targets, Speeds
<1>16. CASE UNCHANGED vars
    BY <1>16 DEF vars, lifeVars, commandVars, JointTypeOK, TypeOK
<1>17. QED
    BY <1>1, <1>2, <1>3, <1>4, <1>5, <1>6, <1>7, <1>8, <1>9, <1>10, <1>11, <1>12, <1>13,
      <1>14, <1>15, <1>16 DEF Next, AbortsAfter, Aborts

\* Every variable keeps its type: the filter and the stops send commands only.
THEOREM TypeCorrect == Spec => []JointTypeOK
<1>1. QED
    BY TypeInit, TypeStep, PTL DEF Spec

-----------------------------------------------------------------------------
(* The thread and the command of a controller that does not run *)

\* Where the control loop can be inside the controller: what the invariants below need
\* to be inductive.
InsideInv ==
    /\ pc \in {"starting", "launching"} => state # "RUNNING"
    /\ pc = "starting" => thread = "none" \/ skippedJoin
    /\ pc \in {"updating", "joining", "exiting"} => state = "RUNNING"
    /\ pc = "exiting" => thread = "none" /\ (target.qd = 0 \/ touched)
    /\ pc = "destroying" => state # "RUNNING" /\ (sent.qd = 0 \/ stopBroken)
    /\ crashed # "no" => pc = "idle"

ControllerInv ==
    /\ JointTypeOK
    /\ InsideInv
    /\ ThreadOnlyWhileRunning
    /\ NoTerminate
    /\ HaltedUnlessRunning

LEMMA ControllerInvInit == Init => ControllerInv
<1> SUFFICES ASSUME Init
             PROVE  ControllerInv
    OBVIOUS
<1>1. JointTypeOK
    BY TypeInit
<1>2. InsideInv /\ ThreadOnlyWhileRunning /\ NoTerminate
    BY DEF Init, LifeInit, InsideInv, ThreadOnlyWhileRunning, NoTerminate
<1>3. HaltedUnlessRunning
    BY DEF Init, LifeInit, HaltedUnlessRunning, AtRest, Command
<1>4. QED
    BY <1>1, <1>2, <1>3 DEF ControllerInv

\* A held target has no speed.
LEMMA HoldRests ==
    ASSUME JointTypeOK, NEW ts \in SUBSET Targets, Hold(ts)
    PROVE  target'.qd = 0
<1>1. PICK t \in ts, q \in Positions : target' = [t EXCEPT !.q = q, !.qd = 0]
    BY DEF Hold
<1>2. QED
    BY <1>1 DEF Targets

\* A step of a stop holds the joint before exitStopping() sends, and is known to be broken
\* when it does not get there.
LEMMA HoldOrLeaveHalts ==
    ASSUME JointTypeOK, NEW ts \in SUBSET Targets, HoldOrLeave(ts)
    PROVE  /\ pc' = "exiting" => target'.qd = 0
           /\ pc' = "idle" => stopBroken'
    BY HoldRests DEF HoldOrLeave

\* What the steps below have to show.
InsideStep == InsideInv' /\ ThreadOnlyWhileRunning' /\ NoTerminate' /\ HaltedUnlessRunning'

LEMMA OthersInv ==
    ASSUME ControllerInv, Others
    PROVE  InsideStep
<1> USE DEF ControllerInv, InsideInv, InsideStep, ThreadOnlyWhileRunning, NoTerminate,
      HaltedUnlessRunning, threadVars, commandVars
<1>0. UNCHANGED commandVars
    BY DEF Others
<1>1. CASE InitRefused
    BY <1>0, <1>1 DEF InitRefused, Ready
<1>2. ASSUME NEW o \in Outcomes, InitRequest(o)
      PROVE  InsideStep
    BY <1>0, <1>2 DEF InitRequest, Ready
<1>3. ASSUME NEW a \in Aborts, AbortRequest(a)
      PROVE  InsideStep
    BY <1>0, <1>3 DEF AbortRequest, Ready, Startable
<1>4. ASSUME NEW o \in Outcomes, NEW a \in Aborts, Launched(o, a)
      PROVE  InsideStep
    BY <1>0, <1>4 DEF Launched, FinishStarting
<1>5. ASSUME NEW o \in Outcomes, NEW a \in Aborts, WaitRequest(o, a)
      PROVE  InsideStep
    BY <1>0, <1>5 DEF WaitRequest, Ready, Startable
<1>6. CASE Destroy
    BY <1>0, <1>6 DEF Destroy
<1>7. CASE Destroyed
    BY <1>0, <1>7 DEF Destroyed
<1>8. CASE ThreadStep
    BY <1>0, <1>8 DEF ThreadStep, ThreadBegins, ThreadPasses, ThreadEnds
<1>9. QED
    BY <1>1, <1>2, <1>3, <1>4, <1>5, <1>6, <1>7, <1>8 DEF Others, AbortsAfter, Aborts

\* A stop, whoever asks for it.
LEMMA StoppingInv ==
    ASSUME ControllerInv, crashed = "no", state = "RUNNING",
           NEW o \in Outcomes, NEW a \in Aborts, NEW own \in BOOLEAN, Stopping(o, a, own),
           UNCHANGED <<period, thread, firstPass, escaped>>,
           pc' = "exiting" => target'.qd = 0 \/ touched',
           pc' = "idle" => stopBroken'
    PROVE  InsideStep
<1> USE DEF ControllerInv, InsideInv, InsideStep, ThreadOnlyWhileRunning, NoTerminate,
      HaltedUnlessRunning, JointTypeOK, TypeOK
<1>1. CASE FinishStopping(o, a, own) /\ skippedJoin' = (skippedJoin \/ thread # "none")
    BY <1>1 DEF FinishStopping
<1>2. CASE /\ pc' = IF thread = "none" THEN "exiting" ELSE "joining"
           /\ UNCHANGED <<state, topics, queueOn, crashed, skippedJoin>>
    BY <1>2
<1>3. QED
    BY <1>1, <1>2 DEF Stopping

LEMMA ControllerInvStep == ControllerInv /\ [Next]_vars => ControllerInv'
<1> SUFFICES ASSUME ControllerInv, [Next]_vars
             PROVE  InsideStep
    BY TypeStep DEF ControllerInv, InsideStep
<1>0. /\ JointTypeOK
      /\ {target} \in SUBSET Targets /\ Wanted \in SUBSET Targets
    BY TargetsClosed DEF ControllerInv, JointTypeOK
<1> USE DEF ControllerInv, InsideInv, InsideStep, ThreadOnlyWhileRunning, NoTerminate,
      HaltedUnlessRunning, threadVars
<1>1. CASE Others
    BY <1>1, OthersInv
<1>2. ASSUME NEW o \in Outcomes, NEW a \in Aborts, StartFails(o, a)
      PROVE  InsideStep
    BY <1>2 DEF StartFails, StartRefused, FinishStarting, Ready, commandVars
<1>3. CASE Start
    BY <1>3 DEF Start, StartRequest, Ready, Startable
<1>4. ASSUME NEW o \in Outcomes, NEW a \in Aborts, StartSends(o, a)
      PROVE  InsideStep
  <2>1. CASE LaunchThread /\ UNCHANGED <<state, topics, queueOn>>
    BY <1>4, <2>1 DEF StartSends, StartGoesOn, LaunchThread
  <2>2. CASE FinishStarting(o, a) /\ UNCHANGED threadVars
    BY <1>4, <2>2 DEF StartSends, StartGoesOn, FinishStarting
  <2>3. QED
    BY <1>4, <2>1, <2>2 DEF StartSends, StartGoesOn
<1>5. ASSUME NEW o \in Outcomes, NEW a \in Aborts, Stop(o, a)
      PROVE  InsideStep
  <2>1. (pc' = "exiting" => target'.qd = 0) /\ (pc' = "idle" => stopBroken')
    BY <1>0, <1>5, HoldOrLeaveHalts DEF Stop
  <2>2. QED
    BY <1>5, <2>1, StoppingInv DEF Stop, StopRequest, Ready
<1>6. ASSUME NEW o \in Outcomes, NEW a \in Aborts, StopJoined(o, a)
      PROVE  InsideStep
  <2>1. (pc' = "exiting" => target'.qd = 0) /\ (pc' = "idle" => stopBroken')
    BY <1>0, <1>6, HoldOrLeaveHalts DEF StopJoined
  <2>2. QED
    BY <1>6, <2>1 DEF StopJoined, Joined, FinishStopping
<1>7. ASSUME NEW o \in Outcomes, NEW a \in Aborts, StopSends(o, a)
      PROVE  InsideStep
  <2>1. sent'.qd = 0 \/ stopBroken'
    BY <1>7 DEF StopSends, Exited, Send, Command
  <2>2. QED
    BY <1>7, <2>1 DEF StopSends, Exited, FinishStopping
<1>8. CASE UpdateRequest
    BY <1>8 DEF UpdateRequest, Ready
<1>9. CASE UpdateSends
    BY <1>9 DEF UpdateSends, UpdateEnds
<1>10. ASSUME NEW o \in Outcomes, NEW a \in Aborts, UpdateSendsAndStops(o, a)
       PROVE  InsideStep
  <2>1. pc' = "exiting" => target'.qd = 0
    BY <1>0, <1>10, HoldRests DEF UpdateSendsAndStops
  <2>2. pc' = "idle" => stopBroken'
    BY <1>10 DEF UpdateSendsAndStops
  <2>3. QED
    BY <1>10, <2>1, <2>2, StoppingInv DEF UpdateSendsAndStops, UpdateFails
<1>11. CASE UpdateThrown
    BY <1>11 DEF UpdateThrown, UpdateThrows, lifeVars, Ready
<1>12. ASSUME NEW o \in Outcomes, NEW a \in Aborts, UpdateStops(o, a)
       PROVE  InsideStep
  <2>1. (pc' = "exiting" => target'.qd = 0) /\ (pc' = "idle" => stopBroken')
    BY <1>0, <1>12, HoldOrLeaveHalts DEF UpdateStops
  <2>2. QED
    BY <1>12, <2>1, StoppingInv DEF UpdateStops, UpdateFails, Ready
<1>13. ASSUME NEW f \in {"q", "qd", "acc"}, NEW v, SetCommand(f, v)
       PROVE  InsideStep
  <2>1. pc = "exiting" => target'.qd = target.qd \/ touched'
    BY <1>13 DEF SetCommand, Touch, Relied
  <2>2. touched => touched'
    BY <1>13 DEF SetCommand, Touch
  <2>3. QED
    BY <1>13, <2>1, <2>2 DEF SetCommand, lifeVars
<1>14. CASE UNCHANGED vars
    BY <1>14 DEF vars, lifeVars, commandVars
<1>15. QED
    BY <1>1, <1>2, <1>3, <1>4, <1>5, <1>6, <1>7, <1>8, <1>9, <1>10, <1>11, <1>12, <1>13,
      <1>14 DEF Next, AbortsAfter, Aborts, Update, UpdateRaced

LEMMA ControllerInvariant == Spec => []ControllerInv
    BY ControllerInvInit, ControllerInvStep, PTL DEF Spec

\* The thread of the kinematics does not outlive the stop of its controller, but for a
\* stop that failed before it joined it, and a process that an exception ends.
THEOREM ThreadJoined == Spec => []ThreadOnlyWhileRunning
<1>1. ControllerInv => ThreadOnlyWhileRunning
    BY DEF ControllerInv
<1>2. QED
    BY <1>1, ControllerInvariant, PTL

\* The process is not terminated by a second thread, but for such a stop.
THEOREM NeverTerminated == Spec => []NoTerminate
<1>1. ControllerInv => NoTerminate
    BY DEF ControllerInv
<1>2. QED
    BY <1>1, ControllerInvariant, PTL

\* A controller that does not run leaves no speed in the handles, but for a stop whose
\* hooks did not succeed, and a speed written while exitStopping() holds the joint.
THEOREM Halted == Spec => []HaltedUnlessRunning
<1>1. ControllerInv => HaltedUnlessRunning
    BY DEF ControllerInv
<1>2. QED
    BY <1>1, ControllerInvariant, PTL

-----------------------------------------------------------------------------
(* The safety half of CallsReturn: the calls that wait for the thread *)

\* A thread that is joined is there, and was asked to stop; a process that ended waits for
\* nothing.  A thread is there only with a period, which init() decides.
Asking ==
    /\ pc \in {"joining", "destroying"} => stopThread /\ thread # "none"
    /\ pc # "idle" => crashed = "no"
    /\ thread # "none" => period
    /\ state = "CONSTRUCTED" => thread = "none" /\ pc = "idle"

\* How many steps of its own a call has left at most ...
CallLeft == [idle |-> 0, exiting |-> 1, launching |-> 1, destroying |-> 1,
             joining |-> 2, starting |-> 2, updating |-> 3]

\* ... and the thread.
ThreadLeft == [none |-> 3, new |-> 2, loop |-> 1, ended |-> 0]

\* The call goes on, the thread comes closer to its end, or it makes the first pass that
\* a start waits for.
ReturnCloser ==
    \/ CallLeft[pc'] < CallLeft[pc]
    \/ pc' = pc /\ ThreadLeft[thread'] < ThreadLeft[thread]
    \/ pc' = pc /\ ~stopThread /\ ~firstPass /\ firstPass' /\ UNCHANGED thread

LEMMA AskingStep == JointTypeOK /\ Asking /\ [Next]_vars => Asking'
<1> SUFFICES ASSUME JointTypeOK, Asking, [Next]_vars PROVE Asking'
    OBVIOUS
<1> USE DEF Asking, Ready, Startable, threadVars
<1>1. CASE Others
  <2>1. CASE InitRefused
    BY <2>1 DEF InitRefused
  <2>2. ASSUME NEW o \in Outcomes, InitRequest(o) PROVE Asking'
    BY <2>2 DEF InitRequest
  <2>3. ASSUME NEW a \in Aborts, AbortRequest(a) PROVE Asking'
    BY <2>3 DEF AbortRequest
  <2>4. ASSUME NEW o \in Outcomes, NEW a \in Aborts, Launched(o, a) \/ WaitRequest(o, a)
        PROVE  Asking'
    BY <2>4 DEF Launched, FinishStarting, WaitRequest
  <2>5. CASE Destroy \/ Destroyed
    BY <2>5 DEF Destroy, Destroyed
  <2>6. CASE ThreadStep
    BY <2>6 DEF ThreadStep, ThreadBegins, ThreadPasses, ThreadEnds
  <2>7. QED
    BY <1>1, <2>1, <2>2, <2>3, <2>4, <2>5, <2>6 DEF Others, AbortsAfter, Aborts
<1>2. ASSUME NEW o \in Outcomes, NEW a \in Aborts, StartFails(o, a) \/ StartSends(o, a)
      PROVE  Asking'
    BY <1>2 DEF StartFails, StartRefused, StartSends, StartGoesOn, LaunchThread,
      FinishStarting
<1>3. CASE Start
    BY <1>3 DEF Start, StartRequest
<1>4. ASSUME NEW o \in Outcomes, NEW a \in Aborts, NEW own \in BOOLEAN,
             pc # "joining", state = "RUNNING", crashed = "no",
             Stopping(o, a, own), UNCHANGED <<period, thread, firstPass, escaped>>
      PROVE  Asking'
    BY <1>4 DEF Stopping, FinishStopping
<1>5. ASSUME NEW o \in Outcomes, NEW a \in Aborts,
             Stop(o, a) \/ UpdateStops(o, a) \/ UpdateSendsAndStops(o, a)
      PROVE  Asking'
    BY <1>4, <1>5 DEF Stop, StopRequest, UpdateStops, UpdateSendsAndStops, UpdateFails
<1>6. ASSUME NEW o \in Outcomes, NEW a \in Aborts, StopJoined(o, a) \/ StopSends(o, a)
      PROVE  Asking'
    BY <1>6 DEF StopJoined, Joined, StopSends, Exited, FinishStopping
<1>7. CASE UpdateRequest \/ UpdateSends \/ UpdateThrown
    BY <1>7 DEF UpdateRequest, UpdateSends, UpdateEnds, UpdateThrown, UpdateThrows, lifeVars
<1>8. ASSUME NEW f \in {"q", "qd", "acc"}, NEW v, SetCommand(f, v) PROVE Asking'
    BY <1>8 DEF SetCommand, lifeVars
<1>9. CASE UNCHANGED vars
    BY <1>9 DEF vars, lifeVars
<1>10. QED
    BY <1>1, <1>2, <1>3, <1>5, <1>6, <1>7, <1>8, <1>9 DEF Next, AbortsAfter, Aborts,
      Update, UpdateRaced

\* No step between a call and its return takes the return further away: while the control
\* loop is inside the controller only the thread and the call itself go on, at most three
\* steps of each, and a thread that is joined was told to end.  The setters of other
\* threads change nothing of the life cycle.  (starting, update, stopping,
\* startUpdateTransformationsThread, stopUpdateTransformationsThread.)
THEOREM ReturnsComeCloser ==
    Spec => /\ []Asking
            /\ [][pc # "idle" => ReturnCloser]_lifeVars
<1>1. Init => Asking
    BY DEF Init, LifeInit, Asking
<1>2. ASSUME JointTypeOK, Asking, Next, ~UNCHANGED lifeVars, pc # "idle"
      PROVE  ReturnCloser
  <2> USE <1>2 DEF Asking, ReturnCloser, CallLeft, ThreadLeft, Ready, JointTypeOK, TypeOK
  <2>1. CASE Others
    <3>1. CASE InitRefused
      BY <3>1 DEF InitRefused
    <3>2. ASSUME NEW o \in Outcomes, InitRequest(o) PROVE ReturnCloser
      BY <3>2 DEF InitRequest
    <3>3. ASSUME NEW a \in Aborts, AbortRequest(a) PROVE ReturnCloser
      BY <3>3 DEF AbortRequest
    <3>4. ASSUME NEW o \in Outcomes, NEW a \in Aborts, Launched(o, a) \/ WaitRequest(o, a)
          PROVE  ReturnCloser
      BY <3>4 DEF Launched, FinishStarting, WaitRequest
    <3>5. CASE Destroy \/ Destroyed
      BY <3>5 DEF Destroy, Destroyed
    <3>6. CASE (\E ok \in BOOLEAN : ThreadBegins(ok)) \/ ThreadEnds
      BY <3>6 DEF ThreadBegins, ThreadEnds
    <3>7. CASE ThreadPasses
      <4>1. ~firstPass
        BY <1>2, <3>7 DEF ThreadPasses, lifeVars
      <4>2. QED
        BY <3>7, <4>1 DEF ThreadPasses
    <3>8. QED
      BY <2>1, <3>1, <3>2, <3>3, <3>4, <3>5, <3>6, <3>7 DEF Others, ThreadStep,
        AbortsAfter, Aborts
  <2>2. ASSUME NEW o \in Outcomes, NEW a \in Aborts, StartSends(o, a)
        PROVE  ReturnCloser
    BY <2>2 DEF StartSends, StartGoesOn, LaunchThread, FinishStarting
  <2>3. ASSUME NEW o \in Outcomes, NEW a \in Aborts, StopJoined(o, a) \/ StopSends(o, a)
        PROVE  ReturnCloser
    BY <2>3 DEF StopJoined, Joined, StopSends, Exited, FinishStopping
  <2>4. ASSUME NEW o \in Outcomes, NEW a \in Aborts, UpdateSendsAndStops(o, a)
        PROVE  ReturnCloser
    BY <2>4 DEF UpdateSendsAndStops, UpdateFails, Stopping, FinishStopping
  <2>5. CASE UpdateSends
    BY <2>5 DEF UpdateSends, UpdateEnds
  <2>6. ASSUME NEW f \in {"q", "qd", "acc"}, NEW v, SetCommand(f, v) PROVE FALSE
    BY <1>2, <2>6 DEF SetCommand
  <2>7. ASSUME NEW o \in Outcomes, NEW a \in Aborts,
               StartFails(o, a) \/ Stop(o, a) \/ UpdateStops(o, a)
        PROVE  FALSE
    BY <1>2, <2>7 DEF StartFails, StartRefused, Stop, StopRequest, UpdateStops
  <2>8. ~Start /\ ~UpdateRequest /\ ~UpdateThrown
    BY <1>2 DEF Start, StartRequest, UpdateRequest, UpdateThrown, UpdateThrows
  <2>9. QED
    BY <1>2, <2>1, <2>2, <2>3, <2>4, <2>5, <2>6, <2>7, <2>8 DEF Next, AbortsAfter, Aborts,
      Update, UpdateRaced
<1>3. JointTypeOK /\ Asking /\ [Next]_vars => [pc # "idle" => ReturnCloser]_lifeVars
    BY <1>2 DEF vars, lifeVars
<1>4. QED
    BY <1>1, <1>3, AskingStep, TypeCorrect, PTL DEF Spec

-----------------------------------------------------------------------------
(* The bound of the filter *)

\* From p to q by no more than the admitted speed and what the acceleration added.
Moved(p, q, acc) == q # NaN /\ (q = p \/ q - p - acc \in -MaxSpeed..MaxSpeed)

\* The position of the target is the one last sent, or what the filter made of it, unless
\* the derived class wrote it.
FollowsInv ==
    /\ pc \notin {"starting", "updating", "exiting"} /\ ~touched => target.q = sent.q
    /\ /\ pc = "updating" /\ ~touched /\ priority # "NONE"
       /\ sent.q # NaN /\ target.acc # NaN
       => Moved(sent.q, target.q, target.acc)

\* A step that leaves the controller, and writes the target or not, keeps to the position
\* or counts as a touch.
LEMMA TouchFollows ==
    ASSUME JointTypeOK, FollowsInv, Touch, UNCHANGED <<sent, priority>>,
           pc' \notin {"starting", "updating", "exiting"},
           pc \notin {"starting", "updating", "exiting"}
    PROVE  FollowsInv'
<1>1. touched => touched'
    BY DEF Touch
<1>2. ~touched' => target'.q = target.q
    BY DEF Touch, Relied
<1>3. QED
    BY <1>1, <1>2 DEF FollowsInv

LEMMA FollowsStep == ControllerInv /\ FollowsInv /\ [Next]_vars => FollowsInv'
<1> SUFFICES ASSUME ControllerInv, FollowsInv, [Next]_vars
             PROVE  FollowsInv'
    OBVIOUS
<1>0. /\ JointTypeOK /\ target \in Targets /\ priority \in Priorities
      /\ Wanted \subseteq Targets
    BY TargetsClosed DEF ControllerInv, JointTypeOK
<1> USE DEF FollowsInv
<1>1. CASE Others
  <2>1. /\ UNCHANGED <<target, sent, touched, priority>>
        /\ pc' = pc \/ pc' \notin {"starting", "updating", "exiting"}
    BY <1>1 DEF Others, commandVars, InitRefused, InitRequest, AbortRequest, Launched,
      FinishStarting, WaitRequest, Destroy, Destroyed, ThreadStep, ThreadBegins,
      ThreadPasses, ThreadEnds
  <2>2. pc' = pc \/ pc \notin {"starting", "updating", "exiting"}
    BY <1>1 DEF Others, InitRefused, InitRequest, AbortRequest, Launched, WaitRequest,
      Destroy, Destroyed, ThreadStep, ThreadBegins, ThreadPasses, ThreadEnds
  <2>3. QED
    BY <2>1, <2>2
<1>2. ASSUME NEW o \in Outcomes, NEW a \in Aborts, StartFails(o, a)
      PROVE  FollowsInv'
    BY <1>2 DEF StartFails, StartRefused, FinishStarting, commandVars, Ready
<1>3. CASE Start
    BY <1>3 DEF Start, StartRequest
<1>4. ASSUME Send, pc' # "updating"
      PROVE  FollowsInv'
    BY <1>4 DEF Send, Command
<1>5. ASSUME NEW o \in Outcomes, NEW a \in Aborts, StartSends(o, a) \/ StopSends(o, a)
      PROVE  FollowsInv'
    BY <1>4, <1>5 DEF StartSends, StartGoesOn, LaunchThread, FinishStarting, StopSends,
      Exited, FinishStopping
<1>6. ASSUME NEW ts, HoldOrLeave(ts), pc \notin {"starting", "updating", "exiting"}
      PROVE  FollowsInv'
  <2>1. CASE pc' = "exiting"
    BY <2>1
  <2>2. CASE pc' \in {"joining", "idle"}
    BY <1>0, <1>6, <2>2, TouchFollows DEF HoldOrLeave
  <2>3. QED
    BY <1>6, <2>1, <2>2 DEF HoldOrLeave
<1>7. ASSUME NEW o \in Outcomes, NEW a \in Aborts,
             Stop(o, a) \/ StopJoined(o, a) \/ UpdateStops(o, a)
      PROVE  FollowsInv'
    BY <1>6, <1>7 DEF Stop, StopRequest, Ready, StopJoined, Joined, UpdateStops
<1>8. ASSUME NEW t \in Wanted, Update(t)
      PROVE  FollowsInv'
  <2>1. pc = "idle" /\ pc' = "updating" /\ UNCHANGED <<priority, sent, touched>>
    BY <1>8 DEF Update, UpdateRequest, Ready
  <2>2. SUFFICES ASSUME ~touched, priority # "NONE", sent.q # NaN, target'.acc # NaN
                 PROVE  Moved(sent.q, target'.q, target'.acc)
    BY <2>1
  <2>3. t \in Targets /\ target.q = sent.q
    BY <1>0, <2>1, <2>2
  <2>4. CASE target' = Filtered(t, target, priority)
    <3>1. target'.acc = t.acc
      BY <1>0, <2>3, <2>4, FilteredFields
    <3>2. QED
      BY <1>0, <2>2, <2>3, <2>4, <3>1, FilteredBounded DEF Moved
  <2>5. CASE target' = [t EXCEPT !.q = target.q, !.qd = 0]
    BY <2>2, <2>3, <2>5 DEF Moved, Targets
  <2>6. QED
    BY <1>8, <2>4, <2>5 DEF Update
<1>9. ASSUME NEW t \in Wanted, UpdateRaced(t)
      PROVE  FollowsInv'
    BY <1>9 DEF UpdateRaced, UpdateRequest
<1>10. CASE UpdateSends
    BY <1>4, <1>10 DEF UpdateSends, UpdateEnds
<1>11. ASSUME NEW o \in Outcomes, NEW a \in Aborts, UpdateSendsAndStops(o, a)
       PROVE  FollowsInv'
    BY <1>11 DEF UpdateSendsAndStops, Command
<1>12. CASE UpdateThrown
  <2>1. pc = "idle" /\ pc' = "idle"
    BY <1>12 DEF UpdateThrown, UpdateThrows, Ready, lifeVars
  <2>2. QED
    BY <1>0, <1>12, <2>1, TouchFollows DEF UpdateThrown
<1>13. ASSUME NEW f \in {"q", "qd", "acc"}, NEW v, SetCommand(f, v)
       PROVE  FollowsInv'
  <2>1. pc' = pc /\ Touch /\ UNCHANGED <<sent, priority>>
    BY <1>13 DEF SetCommand, lifeVars
  <2>2. CASE pc \notin {"starting", "updating", "exiting"}
    BY <1>0, <2>1, <2>2, TouchFollows
  <2>3. CASE pc = "updating"
    BY <2>1, <2>3 DEF Touch, Relied
  <2>4. CASE pc \in {"starting", "exiting"}
    BY <2>1, <2>4
  <2>5. QED
    BY <2>2, <2>3, <2>4
<1>14. CASE UNCHANGED vars
    BY <1>14 DEF vars, lifeVars, commandVars
<1>15. QED
    BY <1>1, <1>2, <1>3, <1>5, <1>7, <1>8, <1>9, <1>10, <1>11, <1>12, <1>13, <1>14
      DEF Next, AbortsAfter, Aborts

LEMMA CommandBoundedStep ==
    ASSUME ControllerInv, FollowsInv, [Next]_vars,
           state = "RUNNING", priority # "NONE", ~touched,
           sent.q # NaN, target.acc # NaN, pc # "exiting", sent'.q # sent.q
    PROVE  sent'.q # NaN /\ sent'.q - sent.q - target.acc \in -MaxSpeed..MaxSpeed
<1>1. pc # "starting"
    BY DEF ControllerInv, InsideInv
<1>2. pc = "updating" /\ sent' = Command(target)
    BY <1>1 DEF Next, Others, commandVars, StartFails, Start, StartSends, StartGoesOn, Stop,
      StopJoined, HoldOrLeave, StopSends, Exited, UpdateStops, UpdateSendsAndStops, Update,
      UpdateRaced, UpdateSends, UpdateEnds, Send, UpdateThrown, SetCommand, vars
<1>3. sent'.q = target.q
    BY <1>2 DEF Command
<1>4. QED
    BY <1>2, <1>3 DEF FollowsInv, Moved

\* From one update to the next the position sent is a number and moves by at most the
\* admitted speed and what the acceleration adds, which the filter does not limit.
THEOREM FilterBounds == Spec => CommandBounded
<1>1. Init => FollowsInv
    BY DEF Init, LifeInit, FollowsInv, Command, AtRest
<1>2. ControllerInv /\ FollowsInv /\ [Next]_vars =>
        [/\ state = "RUNNING" /\ state' = "RUNNING" /\ priority # "NONE"
         /\ ~touched
         /\ sent.q # NaN /\ target.acc # NaN
         /\ pc # "exiting" /\ sent'.q # sent.q
         => /\ sent'.q # NaN
            /\ sent'.q - sent.q - target.acc \in -MaxSpeed..MaxSpeed]_vars
    BY CommandBoundedStep
<1>3. QED
    BY <1>1, <1>2, FollowsStep, ControllerInvariant, PTL DEF Spec, CommandBounded
=============================================================================
