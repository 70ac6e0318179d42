------------------------------ MODULE FakeHwProofs ------------------------------
(***************************************************************************)
(* Proofs about FakeHw, for any joints, controllers, claims, positions and *)
(* speeds.                                                                 *)
(*                                                                         *)
(* The types are not inductive by themselves: that a joint stays within    *)
(* Positions depends on whose speed is integrated.  Inv says, of every     *)
(* state, who may have written the commands and what a write will do.      *)
(***************************************************************************)
EXTENDS FakeHw, TLAPS

\* A speed in the commands is that of a controller that runs.
SpeedsDriven == \A j \in Joints : command[j].v # 0 => Writes(running, "v", j)

\* A write keeps the joints within Positions.
RoomToMove == phase = "write" => \A j \in Joints : pos[j] + command[j].v \in Positions

\* Once positions are written and nothing is being started, the joints are where the
\* commands are, up to the next update.
PositionsWritten ==
    /\ phase = "update" /\ "p" \in active /\ (client = "idle" \/ starting = {}) =>
         \A j \in Joints : pos[j] = command[j].p
    /\ phase = "write" /\ "p" \in active /\ client = "idle" /\ running = {} =>
         \A j \in Joints : pos[j] = command[j].p

\* A switch that starts nothing sets no flag.
NothingNew == client = "p" /\ starting = {} /\ "p" \in prepared => "p" \in active

Inv == TypeOK /\ SpeedsDriven /\ RoomToMove /\ NoPhantomSpeed /\ PositionsWritten /\ NothingNew

-----------------------------------------------------------------------------
\* A speed after an update is zero, or the new one of a controller that goes on.
LEMMA SpeedAfterUpdate ==
    ASSUME TypeOK, SpeedsDriven, NEW quits \in SUBSET running, NEW new \in Wanted,
           Update(quits, new), NEW j \in Joints
    PROVE  \/ command'[j].v = 0
           \/ command'[j].v = new[j].v /\ Writes(running', "v", j)
<1> DEFINE rest == [i \in Joints |-> [p |-> pos[i], v |-> 0]]
           holding == quits \union Stopped \union Started
           driving == running \ quits
<1>1. /\ command' = Commands(driving, holding, new, rest)
      /\ running' = (running \ (quits \union Stopped)) \union Started
  BY DEF Update, Control
<1>2. /\ Writes(holding, "v", j) => command'[j].v = 0
      /\ ~Writes(holding, "v", j) /\ Writes(driving, "v", j) => command'[j].v = new[j].v
      /\ ~Writes(holding, "v", j) /\ ~Writes(driving, "v", j) => command'[j].v = command[j].v
  BY <1>1 DEF Commands
<1>3. ~Writes(holding, "v", j) /\ Writes(driving, "v", j) => Writes(running', "v", j)
  BY <1>1 DEF Writes
<1>4. ~Writes(holding, "v", j) /\ ~Writes(driving, "v", j) => command[j].v = 0
  BY DEF SpeedsDriven, Writes
<1> QED
  BY <1>2, <1>3, <1>4

\* A position after an update without a controller left is where the joint is, or what
\* was commanded before.
LEMMA PositionAfterUpdate ==
    ASSUME NEW quits \in SUBSET running, NEW new \in Wanted, Update(quits, new),
           running' = {}, NEW j \in Joints
    PROVE  command'[j].p \in {pos[j], command[j].p}
<1> DEFINE rest == [i \in Joints |-> [p |-> pos[i], v |-> 0]]
           holding == quits \union Stopped \union Started
           driving == running \ quits
<1>1. /\ command' = Commands(driving, holding, new, rest)
      /\ running' = (running \ (quits \union Stopped)) \union Started
  BY DEF Update, Control
<1>2. Writes(driving, "p", j) => Writes(holding, "p", j)
  BY <1>1 DEF Writes
<1>3. /\ Writes(holding, "p", j) => command'[j].p = pos[j]
      /\ ~Writes(holding, "p", j) /\ ~Writes(driving, "p", j) => command'[j].p = command[j].p
  BY <1>1 DEF Commands
<1> QED
  BY <1>2, <1>3

\* The commands have their types after an update.
LEMMA CommandType ==
    ASSUME TypeOK, NEW quits \in SUBSET running, NEW new \in Wanted, Update(quits, new)
    PROVE  command' \in [Joints -> [p : Positions, v : Speeds]]
<1> DEFINE rest == [i \in Joints |-> [p |-> pos[i], v |-> 0]]
           holding == quits \union Stopped \union Started
           driving == running \ quits
<1>1. command' = Commands(driving, holding, new, rest)
  BY DEF Update, Control
<1>2. /\ new \in [Joints -> [p : Positions, v : Speeds]]
      /\ rest \in [Joints -> [p : Positions, v : Speeds]]
      /\ command \in [Joints -> [p : Positions, v : Speeds]]
  BY RangesAssumption DEF Wanted, TypeOK
<1>3. ASSUME NEW j \in Joints
      PROVE  command'[j] \in [p : Positions, v : Speeds]
  <2>1. command'[j] =
          [p |-> CASE Writes(holding, "p", j) -> rest[j].p
                   [] ~Writes(holding, "p", j) /\ Writes(driving, "p", j) -> new[j].p
                   [] OTHER -> command[j].p,
           v |-> CASE Writes(holding, "v", j) -> rest[j].v
                   [] ~Writes(holding, "v", j) /\ Writes(driving, "v", j) -> new[j].v
                   [] OTHER -> command[j].v]
    BY <1>1 DEF Commands
  <2>2. /\ rest[j] \in [p : Positions, v : Speeds]
        /\ new[j] \in [p : Positions, v : Speeds]
        /\ command[j] \in [p : Positions, v : Speeds]
    BY <1>2
  <2> HIDE DEF rest, holding, driving
  <2> QED
    BY <2>1, <2>2
<1>4. command' = [j \in Joints |-> command'[j]]
  BY <1>1 DEF Commands
<1> QED
  BY <1>3, <1>4

-----------------------------------------------------------------------------
\* Init establishes the invariant.
LEMMA InitInv == Init => Inv
<1> SUFFICES ASSUME Init PROVE Inv
  OBVIOUS
<1>1. TypeOK
  BY RangesAssumption DEF Init, SwitchInit, TypeOK, SwitchTypeOK, Flags
<1>2. SpeedsDriven /\ RoomToMove /\ NoPhantomSpeed /\ PositionsWritten /\ NothingNew
  BY DEF Init, SwitchInit, SpeedsDriven, RoomToMove, NoPhantomSpeed, PositionsWritten, NothingNew
<1> QED
  BY <1>1, <1>2 DEF Inv

\* doPrepareSwitch() keeps it: nothing that is written changes yet.
LEMMA PrepareSwitchInv ==
    ASSUME Inv, NEW start \in SUBSET Controllers, NEW stop \in SUBSET Controllers,
           PrepareSwitch(start, stop)
    PROVE  Inv'
<1> USE DEF Inv, PrepareSwitch, Ask
<1>1. Prepared(start, stop) \subseteq Flags
  <2>1. \A i \in Claimed(start) : FlagsOf[i] \subseteq Flags
    BY ClaimsAssumption DEF Claimed, FlagsOf, Interfaces, Fields, Flags
  <2>2. active \subseteq Flags
    BY DEF TypeOK, SwitchTypeOK
  <2> QED
    BY <2>1, <2>2 DEF Prepared
<1>2. TypeOK'
  BY <1>1 DEF TypeOK, SwitchTypeOK, Flags
<1>3. SpeedsDriven' /\ RoomToMove' /\ NoPhantomSpeed'
  BY DEF SpeedsDriven, RoomToMove, NoPhantomSpeed, Writes
<1>4. NothingNew'
  <2>1. start = {} => Claimed(start) = {}
    BY DEF Claimed
  <2> QED
    BY <2>1 DEF NothingNew, Prepared
<1>5. PositionsWritten'
  BY DEF PositionsWritten
<1> QED
  BY <1>2, <1>3, <1>4, <1>5

\* The assignments at its end keep it.
LEMMA StoreInv == Inv /\ Store => Inv'
<1> SUFFICES ASSUME Inv, Store PROVE Inv'
  OBVIOUS
<1> USE DEF Inv, Store, StoreFlag
<1>1. TypeOK'
  BY DEF TypeOK, SwitchTypeOK, Flags, FollowedBy
<1>2. SpeedsDriven' /\ RoomToMove' /\ NoPhantomSpeed'
  BY DEF SpeedsDriven, RoomToMove, NoPhantomSpeed, Writes
<1>3. client' # "p" /\ client' # "idle" /\ client # "idle"
  BY DEF Flags, FollowedBy
<1>4. "p" \in active' /\ starting' = {} => "p" \in active
  BY DEF NothingNew, Flags
<1>5. PositionsWritten' /\ NothingNew'
  BY <1>3, <1>4 DEF PositionsWritten, NothingNew
<1> QED
  BY <1>1, <1>2, <1>5

\* An update keeps it: the commands after it come from controllers that go on, or hold
\* the joints.
LEMMA UpdateInv ==
    ASSUME Inv, NEW quits \in SUBSET running, NEW new \in Wanted, Update(quits, new)
    PROVE  Inv'
<1>1. TypeOK'
  <2>1. SwitchTypeOK'
    BY DEF Inv, TypeOK, SwitchTypeOK, Update, Control, Stopped, Started, Flags, clientVars
  <2>2. command' \in [Joints -> [p : Positions, v : Speeds]]
    BY CommandType DEF Inv
  <2> QED
    BY <2>1, <2>2 DEF Inv, TypeOK, Update
<1>2. SpeedsDriven'
  <2> SUFFICES ASSUME NEW j \in Joints, command'[j].v # 0
               PROVE  Writes(running', "v", j)
    BY DEF SpeedsDriven, Writes
  <2> QED
    BY SpeedAfterUpdate DEF Inv
<1>3. RoomToMove'
  <2> SUFFICES ASSUME NEW j \in Joints PROVE pos[j] + command'[j].v \in Positions
    BY DEF RoomToMove, Update
  <2>1. pos[j] \in Positions /\ pos[j] \in Int /\ pos[j] + new[j].v \in Positions
    BY RangesAssumption DEF Inv, TypeOK, Wanted
  <2>2. command'[j].v = 0 \/ command'[j].v = new[j].v
    BY SpeedAfterUpdate DEF Inv
  <2> QED
    BY <2>1, <2>2
<1>4. NoPhantomSpeed' /\ NothingNew'
  BY DEF NoPhantomSpeed, NothingNew, Update, Control, Inv, clientVars
<1>5. PositionsWritten'
  <2> SUFFICES ASSUME "p" \in active', client' = "idle", running' = {}, NEW j \in Joints
               PROVE  pos'[j] = command'[j].p
    BY DEF PositionsWritten, Update
  <2>1. /\ phase = "update" /\ pos' = pos /\ active' = active
        /\ client = "idle" \/ (client = "switch" /\ Started = starting)
        /\ Started \subseteq running'
    BY DEF Update, Control, clientVars, Started
  <2>2. client = "idle" \/ starting = {}
    BY <2>1
  <2>3. pos[j] = command[j].p
    BY <2>1, <2>2 DEF Inv, PositionsWritten
  <2> QED
    BY <2>1, <2>3, PositionAfterUpdate
<1> QED
  BY <1>1, <1>2, <1>3, <1>4, <1>5 DEF Inv

\* A write keeps it.
LEMMA WriteInv == Inv /\ Write => Inv'
<1> SUFFICES ASSUME Inv, Write PROVE Inv'
  OBVIOUS
<1>1. ASSUME NEW j \in Joints
      PROVE  /\ pos'[j] \in Positions /\ vel'[j] \in Speeds
             /\ "p" \in active => pos'[j] = command[j].p
             /\ vel'[j] # 0 => command[j].v # 0
  <2>1. /\ pos[j] \in Positions
        /\ command[j].p \in Positions
        /\ command[j].v \in Speeds
        /\ pos[j] + command[j].v \in Positions
    BY DEF Inv, TypeOK, RoomToMove, Write
  <2> QED
    BY <2>1, RangesAssumption DEF Write
<1>2. TypeOK'
  <2>1. /\ pos' = [j \in Joints |-> pos'[j]]
        /\ vel' = [j \in Joints |-> vel'[j]]
    BY DEF Write
  <2>2. pos' \in [Joints -> Positions] /\ vel' \in [Joints -> Speeds]
    BY <1>1, <2>1
  <2> QED
    BY <2>2 DEF Inv, TypeOK, SwitchTypeOK, Write, clientVars
<1>3. SpeedsDriven' /\ RoomToMove' /\ NothingNew'
  BY DEF Inv, SpeedsDriven, RoomToMove, NothingNew, Writes, Write, clientVars
<1>4. NoPhantomSpeed'
  BY <1>1 DEF Inv, NoPhantomSpeed, SpeedsDriven, Writes, Write, clientVars
<1>5. PositionsWritten'
  BY <1>1 DEF PositionsWritten, Write, clientVars
<1> QED
  BY <1>2, <1>3, <1>4, <1>5 DEF Inv

\* Every step keeps the invariant.
LEMMA NextInv == Inv /\ [Next]_vars => Inv'
<1> SUFFICES ASSUME Inv, [Next]_vars PROVE Inv'
  OBVIOUS
<1>1. CASE \E start, stop \in SUBSET Controllers : PrepareSwitch(start, stop)
  BY <1>1, PrepareSwitchInv
<1>2. CASE Store
  BY <1>2, StoreInv
<1>3. CASE \E quits \in SUBSET running, new \in Wanted : Update(quits, new)
  BY <1>3, UpdateInv
<1>4. CASE Write
  BY <1>4, WriteInv
<1>5. CASE UNCHANGED vars
  BY <1>5 DEF vars, switchVars, clientVars, Inv, TypeOK, SwitchTypeOK, SpeedsDriven, RoomToMove,
              NoPhantomSpeed, PositionsWritten, NothingNew, Writes
<1> QED
  BY <1>1, <1>2, <1>3, <1>4, <1>5 DEF Next

THEOREM Invariance == Spec => []Inv
<1> QED
  BY InitInv, NextInv, PTL DEF Spec

-----------------------------------------------------------------------------
\* Every variable has its type: the joints stay where they can be.  (doWrite.)
THEOREM TypeCorrect == Spec => []TypeOK
<1>1. Inv => TypeOK
  BY DEF Inv
<1> QED
  BY <1>1, Invariance, PTL

\* A joint that shows a speed is driven by a controller that runs.  (doWrite,
\* doPrepareSwitch, exitStopping of the controllers.)
THEOREM SpeedsAreDriven == Spec => []NoPhantomSpeed
<1>1. Inv => NoPhantomSpeed
  BY DEF Inv
<1> QED
  BY <1>1, Invariance, PTL

\* A joint is used by one controller only.  (doCheckForConflict.)
THEOREM Exclusivity == Spec => []ExclusiveJoints
<1>1. Init => ExclusiveJoints
  BY DEF Init, SwitchInit, ExclusiveJoints, Exclusive
<1>2. ASSUME ExclusiveJoints, [Next]_vars PROVE ExclusiveJoints'
  <2>1. CASE \E start, stop \in SUBSET Controllers : PrepareSwitch(start, stop)
    BY <1>2, <2>1 DEF PrepareSwitch, Ask, ExclusiveJoints, Exclusive, Conflict, After
  <2>2. CASE Store
    BY <1>2, <2>2 DEF Store, StoreFlag, ExclusiveJoints, Exclusive, After, Flags
  <2>3. CASE \E quits \in SUBSET running, new \in Wanted : Update(quits, new)
    <3>1. PICK quits \in SUBSET running, new \in Wanted : Update(quits, new)
      BY <2>3
    <3>2. CASE client = "switch"
      <4>1. running' \subseteq After(starting, stopping) /\ client' = "idle"
        BY <3>1, <3>2 DEF Update, Control, Stopped, Started, After
      <4> QED
        BY <1>2, <3>2, <4>1 DEF ExclusiveJoints, Exclusive
    <3>3. CASE client # "switch"
      <4>1. /\ running' \subseteq running
            /\ UNCHANGED <<client, starting, stopping>>
        BY <3>1, <3>3 DEF Update, Control, Stopped, Started
      <4> QED
        BY <1>2, <4>1 DEF ExclusiveJoints, Exclusive, After
    <3> QED
      BY <3>2, <3>3
  <2>4. CASE Write
    BY <1>2, <2>4 DEF Write, clientVars, ExclusiveJoints, Exclusive, After
  <2>5. CASE UNCHANGED vars
    BY <1>2, <2>5 DEF vars, switchVars, clientVars, ExclusiveJoints, Exclusive, After
  <2> QED
    BY <1>2, <2>1, <2>2, <2>3, <2>4, <2>5 DEF Next
<1> QED
  BY <1>1, <1>2, PTL DEF Spec

\* Without a controller that runs nothing moves.  (doWrite, exitStopping.)
THEOREM Stillness == Spec => StillWhenNothingRuns
<1>1. ASSUME Inv, [Next]_vars, running = {}, client = "idle" PROVE pos' = pos
  <2>1. CASE Write
    <3>1. \A j \in Joints : command[j].v = 0 /\ pos[j] \in Int
      BY <1>1, RangesAssumption DEF Inv, SpeedsDriven, Writes, TypeOK
    <3>2. "p" \in active => \A j \in Joints : pos[j] = command[j].p
      BY <1>1, <2>1 DEF Inv, PositionsWritten, Write
    <3>3. \A j \in Joints : pos'[j] = pos[j]
      BY <2>1, <3>1, <3>2 DEF Write
    <3>4. pos' = [j \in Joints |-> pos'[j]] /\ pos = [j \in Joints |-> pos[j]]
      BY <1>1, <2>1 DEF Write, Inv, TypeOK
    <3> QED
      BY <3>3, <3>4
  <2>2. CASE ~Write
    BY <1>1, <2>2 DEF Next, PrepareSwitch, Store, Update, vars
  <2> QED
    BY <2>1, <2>2
<1>2. Inv /\ [Next]_vars => [running = {} /\ client = "idle" => pos' = pos]_vars
  BY <1>1
<1> QED
  BY <1>2, Invariance, PTL DEF Spec, StillWhenNothingRuns

-----------------------------------------------------------------------------
(* When the README of the package is right *)

\* A controller that commands positions.
CommandsPositions(c) == \E j \in Joints : "p" \in FieldsAt(c, j)

\* Any two controllers that command positions have a joint in common, and hence never
\* run together: there are none for different joints.
PositionControllersConflict ==
    \A c, d \in Controllers :
        CommandsPositions(c) /\ CommandsPositions(d) /\ c # d =>
            \E j \in Joints : Claims[c][j] # {} /\ Claims[d][j] # {}

\* The flag of the positions is set for those who command them, or about to be.
PositionsHeard ==
    /\ client = "idle" => \A c \in running : CommandsPositions(c) => "p" \in active
    /\ client = "p" =>
         \A c \in After(starting, stopping) : CommandsPositions(c) => "p" \in prepared
    /\ client \in {"v", "e", "switch"} =>
         \A c \in After(starting, stopping) : CommandsPositions(c) => "p" \in active

\* What a switch prepares: a controller that stops takes the flag away from nobody, as
\* no other one that commands positions runs.
LEMMA FlagKept ==
    ASSUME PositionControllersConflict, TypeOK, ExclusiveJoints,
           \A c \in running : CommandsPositions(c) => "p" \in active,
           NEW start \in SUBSET Controllers, NEW stop \in SUBSET running,
           NEW c \in After(start, stop), CommandsPositions(c)
    PROVE  "p" \in Prepared(start, stop)
<1>1. \A d \in Controllers :
          /\ \A j \in Joints : Claims[d][j] \subseteq Interfaces
          /\ \A i \in Interfaces : FlagsOf[i] = Fields[i]
  BY ClaimsAssumption DEF FlagsOf, Fields, Interfaces
<1>2. running \subseteq Controllers /\ c \in Controllers
  BY DEF TypeOK, SwitchTypeOK, After
<1>3. CASE c \in start
  <2>1. PICK j \in Joints : "p" \in FieldsAt(c, j)
    BY DEF CommandsPositions
  <2>2. PICK i \in Claims[c][j] : "p" \in Fields[i]
    BY <2>1 DEF FieldsAt
  <2>3. i \in Claimed(start) /\ "p" \in FlagsOf[i]
    BY <1>1, <1>2, <1>3, <2>2 DEF Claimed
  <2> QED
    BY <2>3 DEF Prepared
<1>4. CASE c \in running \ stop
  <2>1. ASSUME NEW i \in Claimed(stop), "p" \in FlagsOf[i]
        PROVE  FALSE
    <3>1. PICK d \in stop, j \in Joints : i \in Claims[d][j]
      BY <2>1 DEF Claimed
    <3>2. d \in Controllers /\ "p" \in Fields[i]
      BY <1>1, <1>2, <2>1, <3>1
    <3>3. CommandsPositions(d) /\ c # d
      BY <1>4, <3>1, <3>2 DEF CommandsPositions, FieldsAt
    <3> QED
      BY <1>2, <1>4, <3>1, <3>2, <3>3
      DEF PositionControllersConflict, ExclusiveJoints, Exclusive
  <2> QED
    BY <1>4, <2>1 DEF Prepared
<1> QED
  BY <1>3, <1>4 DEF After

\* "This Robot HW set the joint states equal to the joint command" is so on every robot
\* on which no two controllers command the positions of different joints.  The run
\* fake_hw_follows shows that the condition is needed.  (doPrepareSwitch, doWrite.)
THEOREM FollowsWithoutSharedFlag ==
    ASSUME PositionControllersConflict
    PROVE  Spec => []FollowsCommand
<1> DEFINE Heard == PositionsHeard /\ FollowsCommand
<1>1. Init => Heard
  BY DEF Init, SwitchInit, PositionsHeard, FollowsCommand, Writes
<1>2. ASSUME Inv, ExclusiveJoints, Heard, [Next]_vars PROVE Heard'
  <2>1. CASE \E start, stop \in SUBSET Controllers : PrepareSwitch(start, stop)
    <3>1. PICK start, stop \in SUBSET Controllers : PrepareSwitch(start, stop)
      BY <2>1
    <3>2. /\ client = "idle" /\ client' = "p" /\ stop \subseteq running
          /\ starting' = start /\ stopping' = stop /\ running' = running
          /\ prepared' = Prepared(start, stop)
      BY <3>1 DEF PrepareSwitch, Ask
    <3>3. \A c \in After(start, stop) :
              CommandsPositions(c) => "p" \in Prepared(start, stop)
      BY <1>2, <3>2, FlagKept DEF PositionsHeard, Inv
    <3> QED
      BY <3>2, <3>3 DEF PositionsHeard, FollowsCommand, After
  <2>2. CASE Store
    BY <1>2, <2>2 DEF Store, StoreFlag, FollowedBy, Flags, PositionsHeard, FollowsCommand, After
  <2>3. CASE \E quits \in SUBSET running, new \in Wanted : Update(quits, new)
    <3>1. PICK quits \in SUBSET running, new \in Wanted : Update(quits, new)
      BY <2>3
    <3>2. phase' = "write" /\ active' = active
      BY <3>1 DEF Update, Control
    <3>3. CASE client = "switch"
      <4>1. running' \subseteq After(starting, stopping) /\ client' = "idle"
        BY <3>1, <3>3 DEF Update, Control, Stopped, Started, After
      <4> QED
        BY <1>2, <3>2, <3>3, <4>1 DEF PositionsHeard, FollowsCommand
    <3>4. CASE client # "switch"
      <4>1. /\ running' \subseteq running
            /\ UNCHANGED <<client, starting, stopping, prepared>>
        BY <3>1, <3>4 DEF Update, Control, Stopped, Started
      <4> QED
        BY <1>2, <3>2, <4>1 DEF PositionsHeard, FollowsCommand, After
    <3> QED
      BY <3>3, <3>4
  <2>4. CASE Write
    <3>1. PositionsHeard'
      BY <1>2, <2>4 DEF Write, clientVars, PositionsHeard, After
    <3>2. ASSUME client = "idle", NEW j \in Joints, Writes(running, "p", j)
          PROVE  pos'[j] = command[j].p
      <4>1. "p" \in active
        BY <1>2, <3>2 DEF PositionsHeard, CommandsPositions, Writes
      <4> QED
        BY <2>4, <4>1 DEF Write
    <3> QED
      BY <2>4, <3>1, <3>2 DEF FollowsCommand, Writes, Write, clientVars
  <2>5. CASE UNCHANGED vars
    BY <1>2, <2>5 DEF vars, switchVars, clientVars, PositionsHeard, FollowsCommand, After, Writes
  <2> QED
    BY <1>2, <2>1, <2>2, <2>3, <2>4, <2>5 DEF Next
<1> QED
  BY <1>1, <1>2, Invariance, Exclusivity, PTL DEF Spec

=============================================================================
