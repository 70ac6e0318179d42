--------------------------------- MODULE FakeHw ---------------------------------
(***************************************************************************)
(* FakeRobotHW (cnr_fake_robot_hw.cpp): joints that are where they are     *)
(* commanded to be.  One flag per kind of command is shared by all joints. *)
(* read() does nothing; the length of a cycle is 1.                        *)
(***************************************************************************)
EXTENDS HardwareSwitch

CONSTANTS
    Positions,     \* where a joint can be (bounds the model)
    Speeds         \* the speeds the controllers ask for (bounds the model)

ASSUME RangesAssumption ==
    /\ Positions \subseteq Int
    /\ Speeds \subseteq Int
    /\ 0 \in Positions \intersect Speeds

VARIABLES
    pos,           \* m_pos
    vel            \* m_vel

vars == <<switchVars, pos, vel>>

TypeOK ==
    /\ SwitchTypeOK
    /\ command \in [Joints -> [p : Positions, v : Speeds]]
    /\ phase \in {"update", "write"}
    /\ pos \in [Joints -> Positions]
    /\ vel \in [Joints -> Speeds]

\* doInit(): initial_position, or the position of the last shutdown, or zero.  The
\* commands start from zero in any case: m_cmd_pos is given m_pos and then m_eff.
Init ==
    /\ SwitchInit
    /\ phase = "update"
    /\ pos \in [Joints -> Positions]
    /\ vel = [j \in Joints |-> 0]
    /\ command = [j \in Joints |-> [p |-> 0, v |-> 0]]

-----------------------------------------------------------------------------
(* The switch *)

(* Mutant: two controllers may share a joint if they use different interfaces. *)
ConflictPerInterface(list) ==
    \E c, d \in list, j \in Joints : c # d /\ Claims[c][j] \intersect Claims[d][j] # {}

\* doCheckForConflict(): two controllers of the list use the same joint.
Conflict(list) ==
    \E c, d \in list, j \in Joints : c # d /\ Claims[c][j] # {} /\ Claims[d][j] # {}

\* The flags doPrepareSwitch() sets or clears for an interface.
FlagsOf ==
    [Position |-> {"p"}, Velocity |-> {"v"}, Effort |-> {"e"},
     VelEff |-> {"v", "e"}, PosVelEff |-> {"p", "v", "e"}, PosVel |-> {"p", "v"}]

\* doPrepareSwitch(): first what stops, then what starts.
Prepared(start, stop) ==
    (active \ UNION {FlagsOf[i] : i \in Claimed(stop)})
        \union UNION {FlagsOf[i] : i \in Claimed(start)}

PrepareSwitch(start, stop) ==
    /\ ~Conflict(After(start, stop))
    /\ Ask(start, stop, Prepared(start, stop))
    /\ UNCHANGED <<pos, vel>>

Store ==
    /\ StoreFlag
    /\ UNCHANGED <<pos, vel>>

-----------------------------------------------------------------------------
(* The control loop *)

\* The controllers ask for speeds that keep the joints within Positions.
Wanted == {new \in [Joints -> [p : Positions, v : Speeds]] :
               \A j \in Joints : pos[j] + new[j].v \in Positions}

Update(quits, new) ==
    /\ phase = "update"
    /\ phase' = "write"
    /\ new \in Wanted
    /\ Control(quits, new, [j \in Joints |-> [p |-> pos[j], v |-> 0]])
    /\ UNCHANGED <<pos, vel>>

(* Mutant: speeds are integrated on top of the commanded positions. *)
WriteIntegratesAlways ==
    /\ phase = "write"
    /\ phase' = "update"
    /\ pos' = [j \in Joints |->
                  (IF "p" \in active THEN command[j].p ELSE pos[j])
                      + (IF "v" \in active THEN command[j].v ELSE 0)]
    /\ vel' = [j \in Joints |-> IF "v" \in active THEN command[j].v ELSE 0]
    /\ UNCHANGED <<running, clientVars, command>>

(* Mutant: the speed of the last velocity controller stays. *)
WriteKeepsSpeed ==
    /\ phase = "write"
    /\ phase' = "update"
    /\ pos' = [j \in Joints |->
                  CASE "p" \in active -> command[j].p
                    [] "p" \notin active /\ "v" \in active -> pos[j] + command[j].v
                    [] OTHER -> pos[j]]
    /\ vel' = IF "v" \in active THEN [j \in Joints |-> command[j].v] ELSE vel
    /\ UNCHANGED <<running, clientVars, command>>

\* doWrite(): positions win over speeds, which are integrated.
Write ==
    /\ phase = "write"
    /\ phase' = "update"
    /\ pos' = [j \in Joints |->
                  CASE "p" \in active -> command[j].p
                    [] "p" \notin active /\ "v" \in active -> pos[j] + command[j].v
                    [] OTHER -> pos[j]]
    /\ vel' = [j \in Joints |-> IF "v" \in active THEN command[j].v ELSE 0]
    /\ UNCHANGED <<running, clientVars, command>>

Next ==
    \/ \E start, stop \in SUBSET Controllers : PrepareSwitch(start, stop)
    \/ Store
    \/ \E quits \in SUBSET running, new \in Wanted : Update(quits, new)
    \/ Write

Spec == Init /\ [][Next]_vars

-----------------------------------------------------------------------------
(* Properties *)

\* Every joint is used by one of the controllers at most.
Exclusive(list) ==
    \A j \in Joints, c, d \in list : Claims[c][j] # {} /\ Claims[d][j] # {} => c = d

\* A joint is used by one controller only, before and after a switch, although
\* controllers may stop themselves between the check and the switch.
ExclusiveJoints ==
    /\ Exclusive(running)
    /\ client # "idle" => Exclusive(After(starting, stopping))

\* After a write, a joint that shows a speed is driven by a controller: the speed of a
\* controller that stopped, by itself or by a switch, is gone within the same cycle.
NoPhantomSpeed ==
    phase = "update" => \A j \in Joints : vel[j] # 0 => Writes(running, "v", j)

\* Without a controller that runs and without a switch under way nothing moves,
\* whatever flags the last controllers left behind.
StillWhenNothingRuns ==
    [][running = {} /\ client = "idle" => pos' = pos]_vars

\* The README of the package: "This Robot HW set the joint states equal to the joint
\* command."  After a write, the position of a joint with a position controller is the
\* commanded one.
FollowsCommand ==
    phase = "update" /\ client = "idle" =>
        \A j \in Joints : Writes(running, "p", j) => pos[j] = command[j].p

=============================================================================
