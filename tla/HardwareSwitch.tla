----------------------------- MODULE HardwareSwitch -----------------------------
(***************************************************************************)
(* What the hardware interfaces of the repository have in common: the      *)
(* flags that say which commands are written, the commands the running     *)
(* controllers put into the handles, and the switch of controllers.        *)
(*                                                                         *)
(* The thread of a client asks the controller manager (external) for a     *)
(* switch.  doCheckForConflict() and doPrepareSwitch() of the hardware run *)
(* in that thread, while the control loop goes on with read(), update()    *)
(* and write(); the update() after them stops and starts the controllers.  *)
(* The controllers are JointCommandControllers: what they write when they  *)
(* start, update and stop is in the module of that name.                   *)
(*                                                                         *)
(* Efforts are left out of the commands: they are written and published    *)
(* like speeds.  Their flag is kept.                                       *)
(***************************************************************************)
EXTENDS Integers

CONSTANTS
    Joints,
    Controllers,
    Claims         \* Claims[c][j]: the interfaces by which controller c claims joint j

VARIABLES
    running,       \* the controllers that run
    client,        \* "idle", the flag doPrepareSwitch() stores next, or "switch"
    starting,      \* the start list of the client
    stopping,      \* the stop list of the client
    prepared,      \* the flags doPrepareSwitch() computed
    active,        \* m_p_jh_active, m_v_jh_active, m_e_jh_active
    command,       \* m_cmd_pos and m_cmd_vel
    phase          \* the next call of the control loop

clientVars == <<client, starting, stopping, prepared, active>>
switchVars == <<running, clientVars, command, phase>>

Flags == {"p", "v", "e"}

\* The commands of the handle of each interface.
Fields == [Position |-> {"p"}, Velocity |-> {"v"}, Effort |-> {"e"},
           VelEff |-> {"v", "e"}, PosVelEff |-> {"p", "v", "e"}, PosVel |-> {"p", "v"}]

Interfaces == DOMAIN Fields

ASSUME ClaimsAssumption == Claims \in [Controllers -> [Joints -> SUBSET Interfaces]]

\* The commands that controller c writes for joint j.
FieldsAt(c, j) == UNION {Fields[i] : i \in Claims[c][j]}

\* The interfaces claimed by a list of controllers.
Claimed(list) == UNION {Claims[c][j] : c \in list, j \in Joints}

\* Some controller of the list writes command f of joint j.
Writes(list, f, j) == \E c \in list : f \in FieldsAt(c, j)

SwitchTypeOK ==
    /\ running \subseteq Controllers
    /\ client \in {"idle", "switch"} \union Flags
    /\ starting \subseteq Controllers
    /\ stopping \subseteq Controllers
    /\ prepared \subseteq Flags
    /\ active \subseteq Flags

\* After doInit() nothing is active and nothing runs.
SwitchInit ==
    /\ running = {}
    /\ client = "idle"
    /\ starting = {}
    /\ stopping = {}
    /\ prepared = {}
    /\ active = {}

-----------------------------------------------------------------------------
(* The client *)

\* The controllers that run when the switch has taken place.
After(start, stop) == (running \ stop) \union start

\* The controller manager accepts lists that change something, and has the hardware
\* prepare the switch: flags is what its doPrepareSwitch() computes.
Ask(start, stop, flags) ==
    /\ client = "idle"
    /\ phase # "ended"
    /\ stop \subseteq running
    /\ start \subseteq Controllers \ (running \ stop)
    /\ start \union stop # {}
    /\ client' = "p"
    /\ starting' = start
    /\ stopping' = stop
    /\ prepared' = flags
    /\ UNCHANGED <<running, active, command, phase>>

\* doPrepareSwitch() ends with three assignments, which the control loop may see one by
\* one.
FollowedBy == [p |-> "v", v |-> "e", e |-> "switch"]

StoreFlag ==
    /\ client \in Flags
    /\ active' = (active \ {client}) \union (prepared \intersect {client})
    /\ client' = FollowedBy[client]
    /\ UNCHANGED <<running, starting, stopping, prepared, command, phase>>

-----------------------------------------------------------------------------
(* The controllers *)

(* Mutant: a controller that stops holds its position and keeps its speed. *)
CommandsPositionOnly(driving, holding, new, rest) ==
    [j \in Joints |->
        [p |-> CASE Writes(holding, "p", j) -> rest[j].p
                 [] ~Writes(holding, "p", j) /\ Writes(driving, "p", j) -> new[j].p
                 [] OTHER -> command[j].p,
         v |-> IF Writes(driving, "v", j) THEN new[j].v ELSE command[j].v]]

\* The commands after an update: controllers that start or stop hold the joint, the
\* others write what they want.
Commands(driving, holding, new, rest) ==
    [j \in Joints |->
        [p |-> CASE Writes(holding, "p", j) -> rest[j].p
                 [] ~Writes(holding, "p", j) /\ Writes(driving, "p", j) -> new[j].p
                 [] OTHER -> command[j].p,
         v |-> CASE Writes(holding, "v", j) -> rest[j].v
                 [] ~Writes(holding, "v", j) /\ Writes(driving, "v", j) -> new[j].v
                 [] OTHER -> command[j].v]]

\* The controllers that the update() of the controller manager stops and starts.
Stopped == IF client = "switch" THEN stopping ELSE {}
Started == IF client = "switch" THEN starting ELSE {}

\* update() of the controller manager: the running controllers are updated, those of
\* quits stop themselves, and the switch that is waiting takes place.
Control(quits, new, rest) ==
    /\ quits \subseteq running
    /\ command' = Commands(running \ quits, quits \union Stopped \union Started, new, rest)
    /\ running' = (running \ (quits \union Stopped)) \union Started
    /\ IF client = "switch"
       THEN client' = "idle" /\ starting' = {} /\ stopping' = {} /\ prepared' = {}
       ELSE UNCHANGED <<client, starting, stopping, prepared>>
    /\ UNCHANGED active

=============================================================================
