--------------------------------- MODULE TopicHw --------------------------------
(***************************************************************************)
(* TopicRobotHW (cnr_topic_robot_hw.cpp): the joints of a robot that       *)
(* reports its state on a topic and takes its commands from another one.   *)
(*                                                                         *)
(* Values are abstracted to where they come from.  A position is the zero  *)
(* of doInit() or what a controller makes of it, adding to it cycle by     *)
(* cycle ("init"), a measured one ("feedback"), or one that a controller   *)
(* reached from a measured one ("target").  A speed is "zero", "feedback"  *)
(* or "target".                                                            *)
(*                                                                         *)
(* The callback of the topic runs in the control loop, which empties the   *)
(* queue of the driver before read(); the subscriber keeps one message.    *)
(***************************************************************************)
EXTENDS HardwareSwitch

CONSTANT MaxMissing    \* m_max_missing_messages

ASSUME MissingAssumption == MaxMissing \in Nat

VARIABLES
    first,         \* m_first_topic_received
    received,      \* m_topic_received
    missing,       \* m_missing_messages (up to the bound Enough, which stands for
                   \* all that is larger: see Increased)
    warm,          \* m_warmup is not below its limit
    early,         \* at most 0.1 s have passed since doInit()
    error,         \* doRead() failed: the status of the hardware is ERROR
    message,       \* position of m_msg: what is in it before doWrite() fills it
    sent,          \* the last message published
    blind,         \* history: running controllers started before the first message
    counted,       \* history: m_missing_messages was reset once
    silent         \* history: reads since a message could be used (up to Enough)

readVars == <<first, received, missing, warm, early, error>>
vars == <<switchVars, readVars, message, sent, blind, counted, silent>>

\* One more than what makes doRead() fail: counters stop here.  The code's goes on, and
\* wraps after 2^32 cycles; it only gets past Enough in hardware that never looks at it,
\* or, uninitialised, in hardware that fails at its first read.
Enough == MaxMissing + 1
Increased(n) == IF n < Enough THEN n + 1 ELSE n

Origins == {"init", "feedback", "target"}
SpeedOrigins == {"zero", "feedback", "target"}
NoPosition == [j \in {} |-> "init"]

TypeOK ==
    /\ SwitchTypeOK
    /\ command \in [Joints -> [p : Origins, v : SpeedOrigins]]
    /\ phase \in {"callbacks", "read", "update", "write", "ended"}
    /\ first \in BOOLEAN
    /\ received \in BOOLEAN
    /\ missing \in 0..Enough
    /\ warm \in BOOLEAN
    /\ early \in BOOLEAN
    /\ error \in BOOLEAN
    /\ message \in {NoPosition, [j \in Joints |-> "init"]}
    /\ sent \in [with : SUBSET Flags,
                 p : [Joints -> Origins] \union {NoPosition},
                 v : [Joints -> SpeedOrigins]]
    /\ blind \subseteq Controllers
    /\ counted \in BOOLEAN
    /\ silent \in 0..Enough

\* doInit().  Nobody initialises m_missing_messages and m_warmup, and nobody changes
\* m_warmup later.  No message has been published: sent is a robot at rest.
Init ==
    /\ SwitchInit
    /\ phase = "callbacks"
    /\ command = [j \in Joints |-> [p |-> "init", v |-> "zero"]]
    /\ first = FALSE
    /\ received = FALSE
    /\ missing \in 0..Enough
    /\ warm \in BOOLEAN
    /\ early = TRUE
    /\ error = FALSE
    /\ message = [j \in Joints |-> "init"]
    /\ sent = [with |-> {}, p |-> NoPosition, v |-> [j \in Joints |-> "zero"]]
    /\ blind = {}
    /\ counted = FALSE
    /\ silent = 0

-----------------------------------------------------------------------------
(* The switch.  A controller for PosVel cannot be loaded: the interface is *)
(* not registered.  The check for conflicts is the one of the base class   *)
(* (external): one controller per joint.                                   *)

Offered == {"Position", "Velocity", "Effort", "VelEff", "PosVelEff"}

Admitted(list) ==
    /\ Claimed(list) \subseteq Offered
    /\ \A c, d \in list, j \in Joints : Claims[c][j] # {} /\ Claims[d][j] # {} => c = d

\* doPrepareSwitch(): first what stops, then what starts.
FlagsOf == [Position |-> {"p"}, Velocity |-> {"v"}, Effort |-> {"e"},
            VelEff |-> {"v", "e"}, PosVelEff |-> {"p", "v", "e"}, PosVel |-> {}]

Prepared(start, stop) ==
    (active \ UNION {FlagsOf[i] : i \in Claimed(stop)})
        \union UNION {FlagsOf[i] : i \in Claimed(start)}

PrepareSwitch(start, stop) ==
    /\ Admitted(After(start, stop))
    /\ Ask(start, stop, Prepared(start, stop))
    /\ UNCHANGED <<readVars, message, sent, blind, counted, silent>>

Store ==
    /\ StoreFlag
    /\ UNCHANGED <<readVars, message, sent, blind, counted, silent>>

-----------------------------------------------------------------------------
(* The feedback *)

(* Mutant: the commands are not initialised with the first message. *)
ReceivedOnly ==
    /\ received' = TRUE
    /\ first' = TRUE
    /\ UNCHANGED command

\* jointStateCallback() with a message that has every joint: the first one is what the
\* commands start from.
ReceiveValid ==
    /\ received' = TRUE
    /\ first' = TRUE
    /\ command' = IF first THEN command
                  ELSE [j \in Joints |-> [p |-> "feedback", v |-> "feedback"]]

\* ... and with one that is too short or has other names.
ReceiveMalformed ==
    /\ received' = FALSE
    /\ UNCHANGED <<first, command>>

Callbacks ==
    /\ phase = "callbacks"
    /\ phase' = "read"
    /\ \/ UNCHANGED <<received, first, command>> /\ silent' = Increased(silent)
       \/ ReceiveValid /\ silent' = 0
       \/ ReceiveMalformed /\ silent' = Increased(silent)
    /\ UNCHANGED <<running, clientVars, missing, warm, early, error, message, sent, blind,
                   counted>>

(* Mutant: one message is enough for ever. *)
ReadKeepsReceived ==
    /\ phase = "read"
    /\ phase' = "update"
    /\ missing' = IF ~received /\ ~early THEN Increased(missing) ELSE 0
    /\ counted' = (counted \/ received \/ early)
    /\ UNCHANGED received
    /\ error' = (warm /\ missing' > MaxMissing)
    /\ UNCHANGED <<running, clientVars, command, first, warm, early, message, sent,
                   blind, silent>>

(* Mutant: the counter goes on after a message. *)
ReadKeepsCounting ==
    /\ phase = "read"
    /\ phase' = "update"
    /\ missing' = IF ~received /\ ~early THEN Increased(missing)
                  ELSE IF early THEN 0 ELSE missing
    /\ counted' = (counted \/ received \/ early)
    /\ received' = FALSE
    /\ error' = (warm /\ missing' > MaxMissing)
    /\ UNCHANGED <<running, clientVars, command, first, warm, early, message, sent,
                   blind, silent>>

\* doRead(), of hardware that is RUNNING, as it is inside the control loop.
Read ==
    /\ phase = "read"
    /\ phase' = "update"
    /\ missing' = IF ~received /\ ~early THEN Increased(missing) ELSE 0
    /\ counted' = (counted \/ received \/ early)
    /\ received' = FALSE
    /\ error' = (warm /\ missing' > MaxMissing)
    /\ UNCHANGED <<running, clientVars, command, first, warm, early, message, sent,
                   blind, silent>>

\* Time passes.
Elapse ==
    /\ early
    /\ early' = FALSE
    /\ UNCHANGED <<switchVars, first, received, missing, warm, error, message, sent,
                   blind, counted, silent>>

-----------------------------------------------------------------------------
(* The rest of the control loop *)

\* What a controller asks for: the filter adds to the last target of the controller
\* itself, which goes back to where it started, whatever the commands are set to.
Target(moving) ==
    [j \in Joints |-> [p |-> IF Writes(blind, "p", j) THEN "init" ELSE "target",
                       v |-> IF j \in moving THEN "target" ELSE "zero"]]

\* Where a controller holds a joint.
Rest == [j \in Joints |-> [p |-> IF first THEN "feedback" ELSE "init", v |-> "zero"]]

Update(quits, moving) ==
    /\ phase = "update"
    /\ phase' = "write"
    /\ Control(quits, Target(moving), Rest)
    /\ blind' = (blind \ (quits \union Stopped))
                 \union IF first THEN {} ELSE Started
    /\ UNCHANGED <<readVars, message, sent, counted, silent>>

(* Mutant: without a velocity controller there is nothing to tell about speeds. *)
PublishSpeedsOnlyIfActive ==
    /\ sent' = [with |-> active,
                p |-> IF "p" \in active THEN [j \in Joints |-> command[j].p] ELSE message,
                v |-> IF "v" \in active THEN [j \in Joints |-> command[j].v] ELSE sent.v]
    /\ message' = NoPosition

\* doWrite() publishes m_msg and goes on with an empty one: positions that are not
\* active stay as they are in it.
Publish ==
    /\ sent' = [with |-> active,
                p |-> IF "p" \in active THEN [j \in Joints |-> command[j].p] ELSE message,
                v |-> [j \in Joints |-> IF "v" \in active THEN command[j].v ELSE "zero"]]
    /\ message' = NoPosition

\* doWrite(), and the end of the loop when the status is ERROR.
Write ==
    /\ phase = "write"
    /\ phase' = IF error THEN "ended" ELSE "callbacks"
    /\ IF active # {} /\ first THEN Publish ELSE UNCHANGED <<sent, message>>
    /\ UNCHANGED <<running, clientVars, command, readVars, blind, counted, silent>>

LoopStep ==
    \/ Callbacks
    \/ Read
    \/ \E quits \in SUBSET running, moving \in SUBSET Joints : Update(quits, moving)
    \/ Write

Next ==
    \/ \E start, stop \in SUBSET Controllers : PrepareSwitch(start, stop)
    \/ Store
    \/ LoopStep
    \/ Elapse

\* The control loop is a thread of its own, and time goes on.
Fairness == WF_vars(LoopStep) /\ WF_vars(Elapse)

Spec == Init /\ [][Next]_vars /\ Fairness

-----------------------------------------------------------------------------
(* Properties *)

\* The first message is what the commands start from: positions that are published and
\* go back to the zeros of doInit() are those of a running controller that was started
\* before the first message.  Its own target still holds them, and update() writes it back
\* into the commands in the same cycle.
ZerosOnlyOfBlind ==
    [][ phase = "write" /\ phase' # "write" /\ first /\ "p" \in active =>
          \A j \in Joints : sent'.p[j] = "init" => Writes(blind, "p", j) ]_vars

\* doRead() fails only after more than MaxMissing cycles without a usable message, once
\* the counter has been reset.
NoFalseAlarm == error /\ counted => silent > MaxMissing

\* A controller that stops itself keeps its flags, so that the speed zero it leaves is
\* published: while anything is active, the speed of the last message is that of a
\* running controller, or the one the robot had in its first message.  When a stop leaves
\* nothing active doWrite() publishes nothing more, and the robot keeps the last speed.
QuietStop ==
    phase = "callbacks" /\ client = "idle" /\ active # {} =>
        \A j \in Joints : sent.v[j] = "target" => Writes(running, "v", j)

\* When messages are looked at, a robot that falls silent ends the control loop.
SilenceEndsTheLoop == warm => []<>(silent = 0) \/ <>(phase = "ended")

=============================================================================
