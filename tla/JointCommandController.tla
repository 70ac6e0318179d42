------------------------- MODULE JointCommandController -------------------------
(***************************************************************************)
(* JointCommandController (cnr_joint_command_controller_interface_impl.h,  *)
(* JCC) over the life cycle of the base classes: the target the derived    *)
(* class writes, the filter every update passes it through, and the        *)
(* command the handles of the hardware get.                                *)
(*                                                                         *)
(* One joint and a cycle of length 1: the filter works joint by joint, but *)
(* for the scaling of saturateSpeed() (external), which is a bound here.   *)
(* m_last_target is not a variable: every enterUpdate() overwrites it with *)
(* the target before anything reads it.                                    *)
(*                                                                         *)
(* The setters lock m_mtx, the calls of the control loop do not: a setter  *)
(* of another thread can write the target between any two of their lines.  *)
(* Where it makes a difference is between the line that decides the target *)
(* and the one that sends it, which are two steps here.  What is written   *)
(* inside enterStarting() or exitStopping() before the target is decided   *)
(* is overwritten there; what is written inside update() before the        *)
(* filter has read it is another target that doUpdate() could have left.   *)
(***************************************************************************)
EXTENDS ControllerLifeCycle, Integers

CONSTANTS
    Positions,     \* where the joint can be commanded to (bounds the model)
    Asked,         \* the speeds the derived class asks for (bounds the model)
    Accelerations, \* what the acceleration asked for adds in a cycle (bounds the model)
    MaxSpeed,      \* the speed saturateSpeed() admits
    NaN            \* stands for every value that is not a number

ASSUME CommandAssumption ==
    /\ Positions \subseteq Int
    /\ 0 \in Positions
    /\ MaxSpeed \in Nat \ {0}
    /\ Asked \subseteq Int
    /\ Accelerations \subseteq Int \union {NaN}
    /\ 0 \in Accelerations
    /\ NaN \notin Int

VARIABLES
    target,        \* m_target: position, speed, and what the acceleration adds
    priority,      \* m_priority
    sent,          \* the command in the handles of the hardware
    touched,       \* history: since the target was last sent or held, something else
                   \* than the filter wrote its position, or, where the control loop
                   \* is about to send it, what the sending relies on (Relied)
    stopBroken     \* history: the last stop did not reach the end of exitStopping(),
                   \* or a speed was written while it was there

commandVars == <<target, priority, sent, touched, stopBroken>>

vars == <<lifeVars, commandVars>>

Priorities == {"Q_PRIORITY", "QD_PRIORITY", "NONE"}
Speeds == Asked \union -MaxSpeed..MaxSpeed \union {NaN}
Targets == [q : Positions \union {NaN}, qd : Speeds, acc : Accelerations]
Commands == [q : Positions \union {NaN}, qd : Speeds]

JointTypeOK ==
    /\ TypeOK
    /\ target \in Targets
    /\ priority \in Priorities
    /\ sent \in Commands
    /\ touched \in BOOLEAN
    /\ stopBroken \in BOOLEAN

\* What doUpdate() can leave in the target.
Wanted == [q : Positions \union {NaN},
           qd : Asked \union {NaN, target.qd},
           acc : Accelerations]

\* Where the joint is, at rest: any position, each time it is measured.
AtRest(q) == [q |-> q, qd |-> 0, acc |-> 0]

\* The fields the handles take.  (The acceleration is only for the filter.)
Command(t) == [q |-> t.q, qd |-> t.qd]

\* The derived class sets the priority, QD_PRIORITY by default, once and for all.
Init ==
    /\ LifeInit
    /\ target = AtRest(0)
    /\ priority \in Priorities
    /\ sent = Command(AtRest(0))
    /\ touched = FALSE
    /\ stopBroken = FALSE

\* The filter starts from the position and has used the acceleration, exitStopping() has
\* set the speed to zero.
Relied == CASE pc = "exiting" -> {"qd"}
            [] pc = "updating" -> {"q", "acc"}
            [] OTHER -> {"q"}

\* The target is written by the derived class.
Touch ==
    touched' = (touched \/ \E f \in Relied : target'[f] # target[f])

\* m_handler.update(): the handles get the target.
Send ==
    /\ sent' = Command(target)
    /\ touched' = FALSE
    /\ UNCHANGED <<target, priority>>

-----------------------------------------------------------------------------
(* The filter of exitUpdate() *)

\* Sums and differences of numbers that may be NaN.
Plus(a, b) == IF NaN \in {a, b} THEN NaN ELSE a + b
Minus(a, b) == IF NaN \in {a, b} THEN NaN ELSE a - b

\* saturateSpeed(): external.
Saturated(v) ==
    CASE v = NaN -> NaN
      [] v # NaN /\ v > MaxSpeed -> MaxSpeed
      [] v # NaN /\ v < -MaxSpeed -> -MaxSpeed
      [] OTHER -> v

\* The speed the target asks for.  A position that is not a number is replaced by
\* the last one, a speed by zero.
Nominal(t, last, prio) ==
    CASE prio = "Q_PRIORITY" /\ t.q = NaN -> Minus(last.q, last.q)
      [] prio = "Q_PRIORITY" /\ t.q # NaN -> Minus(t.q, last.q)
      [] prio = "QD_PRIORITY" /\ t.qd = NaN -> 0
      [] OTHER -> t.qd

(* Mutant: the speed before the saturation is sent. *)
FilteredKeepsNominal(t, last, prio) ==
    IF prio = "NONE"
    THEN t
    ELSE [q |-> Plus(Plus(last.q, Saturated(Nominal(t, last, prio))), t.acc),
          qd |-> Nominal(t, last, prio),
          acc |-> t.acc]

\* The target after the filter: the position is integrated from the last one, with
\* what the acceleration adds to it, which is not limited, and the speed is replaced only
\* when it was saturated.
Filtered(t, last, prio) ==
    LET nominal == Nominal(t, last, prio)
        saturated == Saturated(nominal)
    IN  IF prio = "NONE"
        THEN t
        ELSE [t EXCEPT !.q = Plus(Plus(last.q, saturated), t.acc),
                       !.qd = IF saturated # nominal THEN saturated ELSE t.qd]

-----------------------------------------------------------------------------
(* starting() *)

\* enterStarting() fails before it gets to the target.
StartFails(o, a) ==
    /\ StartRefused(o, a)
    /\ UNCHANGED commandVars

\* It sets the target to the measured position ...
Start ==
    /\ StartRequest
    /\ target' \in {AtRest(q) : q \in Positions}
    /\ touched' = FALSE
    /\ UNCHANGED <<priority, sent, stopBroken>>

\* ... and sends it.
StartSends(o, a) ==
    /\ StartGoesOn(o, a)
    /\ Send
    /\ UNCHANGED stopBroken

-----------------------------------------------------------------------------
(* stopping() *)

\* exitStopping() holds the joint where it is measured, whichever of ts the target was.
Hold(ts) ==
    /\ \E t \in ts, q \in Positions : target' = [t EXCEPT !.q = q, !.qd = 0]
    /\ touched' = FALSE
    /\ UNCHANGED stopBroken

\* Where a step of a stop leaves the command: in exitStopping(), before the target is
\* sent; waiting for the thread; or at the end of a stop that broke off before.  The
\* target so far is the one of ts that doUpdate() or another thread left.
HoldOrLeave(ts) ==
    /\ \/ pc' = "exiting" /\ Hold(ts)
       \/ pc' = "joining" /\ target' \in ts /\ Touch /\ UNCHANGED stopBroken
       \/ pc' = "idle" /\ target' \in ts /\ Touch /\ stopBroken' = TRUE
    /\ UNCHANGED <<priority, sent>>

Stop(o, a) ==
    /\ StopRequest(o, a)
    /\ HoldOrLeave({target})

StopJoined(o, a) ==
    /\ Joined(o, a)
    /\ HoldOrLeave({target})

(* Mutant: the target is set, the handles are not. *)
StopKeepsCommand(o, a) ==
    /\ Exited(o, a)
    /\ stopBroken' = touched
    /\ touched' = FALSE
    /\ UNCHANGED <<target, priority, sent>>

\* The target is sent before exitStopping() of the base class can fail.
StopSends(o, a) ==
    /\ Exited(o, a)
    /\ Send
    /\ stopBroken' = touched

-----------------------------------------------------------------------------
(* update() *)

(* Mutant: enterUpdate() does not copy the target, the filter starts from zero. *)
UpdateNoCopy(t) ==
    /\ UpdateRequest
    /\ target' \in {Filtered(t, AtRest(0), priority), [t EXCEPT !.q = 0, !.qd = 0]}
    /\ target'.q \in Positions \union {NaN}
    /\ UNCHANGED <<priority, sent, touched, stopBroken>>

\* enterUpdate() keeps the target as the last one, doUpdate() leaves the target t, and
\* exitUpdate() filters it.  What is thrown there is caught: the last position, at rest.
Update(t) ==
    /\ UpdateRequest
    /\ target' \in {Filtered(t, target, priority), [t EXCEPT !.q = target.q, !.qd = 0]}
    /\ target'.q \in Positions \union {NaN}
    /\ UNCHANGED <<priority, sent, touched, stopBroken>>

\* Another thread puts what is not a number into the position after it was tested.
UpdateRaced(t) ==
    /\ UpdateRequest
    /\ priority = "Q_PRIORITY"
    /\ target' = [t EXCEPT !.q = NaN]
    /\ touched' = TRUE
    /\ UNCHANGED <<priority, sent, stopBroken>>

\* The rest of exitUpdate(): the target is sent ...
UpdateSends ==
    /\ UpdateEnds
    /\ Send
    /\ UNCHANGED stopBroken

\* ... and exitUpdate() of the base class fails: the controller stops itself.
UpdateSendsAndStops(o, a) ==
    /\ pc = "updating"
    /\ UpdateFails(o, a)
    /\ sent' = Command(target)
    /\ touched' = FALSE
    /\ \/ pc' = "exiting" /\ Hold({target})
       \/ pc' = "joining" /\ UNCHANGED <<target, stopBroken>>
       \/ pc' = "idle" /\ UNCHANGED target /\ stopBroken' = TRUE
    /\ UNCHANGED priority

\* doUpdate() throws: what it wrote stays in the target.
UpdateThrown ==
    /\ UpdateThrows
    /\ target' \in Wanted
    /\ Touch
    /\ UNCHANGED <<priority, sent, stopBroken>>

\* doUpdate() fails, and the controller stops itself.
UpdateStops(o, a) ==
    /\ pc = "idle"
    /\ UpdateFails(o, a)
    /\ HoldOrLeave(Wanted)

-----------------------------------------------------------------------------
(* The setters, and the steps that leave the command alone *)

\* setCommandPosition(), setCommandVelocity() or setCommandAcceleration(), from a
\* callback or another thread, between two calls or between decision and sending.
SetCommand(f, v) ==
    /\ crashed = "no" /\ ~escaped
    /\ \/ pc = "idle" /\ state = "RUNNING"
       \/ pc \in {"starting", "updating", "exiting"}
    /\ target' = [target EXCEPT ![f] = v]
    /\ Touch
    /\ UNCHANGED <<lifeVars, priority, sent, stopBroken>>

Others ==
    /\ \/ InitRefused
       \/ \E o \in Outcomes : InitRequest(o)
       \/ \E a \in Aborts : AbortRequest(a)
       \/ \E o \in Outcomes : \E a \in AbortsAfter(o) : Launched(o, a) \/ WaitRequest(o, a)
       \/ Destroy
       \/ Destroyed
       \/ ThreadStep
    /\ UNCHANGED commandVars

Next ==
    \/ Others
    \/ \E o \in Outcomes : \E a \in AbortsAfter(o) :
         \/ StartFails(o, a) \/ StartSends(o, a)
         \/ Stop(o, a) \/ StopJoined(o, a) \/ StopSends(o, a)
         \/ UpdateStops(o, a) \/ UpdateSendsAndStops(o, a)
    \/ Start
    \/ \E t \in Wanted : Update(t) \/ UpdateRaced(t)
    \/ UpdateSends
    \/ UpdateThrown
    \/ \E q \in Positions \union {NaN} : SetCommand("q", q)
    \/ \E qd \in Asked \union {NaN} : SetCommand("qd", qd)
    \/ \E acc \in Accelerations : SetCommand("acc", acc)

\* The control loop inside the controller goes on.
GoesOn ==
    \/ \E o \in Outcomes : \E a \in AbortsAfter(o) :
         \/ Launched(o, a) /\ UNCHANGED commandVars
         \/ StartSends(o, a) \/ StopJoined(o, a) \/ StopSends(o, a)
         \/ UpdateSendsAndStops(o, a)
    \/ UpdateSends
    \/ Destroyed /\ UNCHANGED commandVars

\* The thread runs, and so does the control loop.
Fairness ==
    /\ WF_vars(ThreadStep /\ UNCHANGED commandVars)
    /\ WF_vars(GoesOn)

Spec == Init /\ [][Next]_vars /\ Fairness

-----------------------------------------------------------------------------
(* Properties *)

\* The thread of the kinematics is there only while the controller runs or one of its
\* calls is inside the controller: doStopping() and the destructor join it.  Only a
\* doStopping() that throws leaves it behind, and an exception that ends the process.
ThreadOnlyWhileRunning ==
    thread # "none" =>
        state = "RUNNING" \/ pc # "idle" \/ skippedJoin \/ crashed = "exception"

\* startUpdateTransformationsThread() never assigns to a thread that is still joinable,
\* which would end the process, unless a stop left the thread behind.
NoTerminate == crashed = "thread" => skippedJoin

\* startRequest(), updateRequest(), stopRequest() and the destructor return: the
\* one-second limit on the first pass of the thread, and the flag set before join().
CallsReturn == (pc # "idle") ~> (pc = "idle")

\* Once it is stopped, whoever asked for it and whatever the target was, the handles
\* hold no speed, unless the hooks broke the stop before exitStopping(), or another
\* thread wrote a speed between the two lines of exitStopping() that hold and send.
HaltedUnlessRunning ==
    state # "RUNNING" /\ pc = "idle" /\ crashed = "no" => sent.qd = 0 \/ stopBroken

\* The filter of exitUpdate(): from one update to the next the position sent is a number
\* and moves by at most a step at the admitted speed, plus what the acceleration of the
\* target adds, which nothing limits; whatever doUpdate() asks for, as long as the
\* priority is not NONE, the acceleration is a number, and no one wrote the position
\* since it was last sent, or the acceleration after the filter.  (A stop holds the joint
\* where it is measured; it leaves RUNNING, but for what update() catches after it.)
CommandBounded ==
    [][ /\ state = "RUNNING" /\ state' = "RUNNING" /\ priority # "NONE"
        /\ ~touched
        /\ sent.q # NaN /\ target.acc # NaN
        /\ pc # "exiting" /\ sent'.q # sent.q
        => /\ sent'.q # NaN
           /\ sent'.q - sent.q - target.acc \in -MaxSpeed..MaxSpeed ]_vars

=============================================================================
