------------------------------ MODULE TopicHwProofs ------------------------------
(***************************************************************************)
(* Proofs about TopicHw, for any joints, controllers, claims and limit of  *)
(* missing messages.                                                       *)
(*                                                                         *)
(* Inv adds to the types where the commands come from (Commanded), what    *)
(* has been published (Published), and how the counter of doRead() relates *)
(* to the silence of the robot in each phase of the loop (Counting).       *)
(***************************************************************************)
EXTENDS TopicHw, TLAPS

\* A target speed in the commands is that of a controller that runs, and after the
\* first message a position of doInit() that of one that was started before.
Commanded ==
    /\ blind \subseteq running
    /\ \A j \in Joints :
        /\ command[j].v = "target" => Writes(running, "v", j)
        /\ first /\ command[j].p = "init" => Writes(blind, "p", j)

\* Nothing is published before the first message.
Published ==
    /\ ~first => \A j \in Joints : sent.v[j] = "zero"
    /\ ~first => sent.with = {}
    /\ QuietStop

\* Once the counter has been reset it is at most the number of silent reads, and ahead
\* of a read that will count it is less.
Counting ==
    /\ counted /\ phase # "read" => missing <= silent
    /\ counted /\ phase = "read" /\ ~received => Increased(missing) <= silent
    /\ phase \in {"callbacks", "read"} => ~error
    /\ NoFalseAlarm

Inv == TypeOK /\ Commanded /\ Published /\ Counting

-----------------------------------------------------------------------------
\* Counters stay within their bound, and are increased in step.
LEMMA Increase ==
    ASSUME NEW n \in 0..Enough
    PROVE  /\ Increased(n) \in 0..Enough
           /\ n <= Increased(n)
           /\ \A k \in 0..Enough : k <= n => Increased(k) <= Increased(n)
BY MissingAssumption DEF Increased, Enough

\* A command after an update is one to hold, the new one of a controller that goes on,
\* or the one before.
LEMMA CommandAfterUpdate ==
    ASSUME NEW quits \in SUBSET running, NEW moving \in SUBSET Joints, Update(quits, moving),
           Commanded, NEW j \in Joints
    PROVE  /\ command'[j].p \in {Rest[j].p, Target(moving)[j].p, command[j].p}
           /\ first /\ command'[j].p = "init" => Writes(blind', "p", j)
           /\ \/ command'[j].v \in {"zero", command[j].v} /\ command'[j].v # "target"
              \/ command'[j].v = Target(moving)[j].v /\ Writes(running', "v", j)
<1> DEFINE holding == quits \union Stopped \union Started
           driving == running \ quits
<1>1. /\ command' = Commands(driving, holding, Target(moving), Rest)
      /\ running' = (running \ (quits \union Stopped)) \union Started
      /\ first => blind' = blind \ (quits \union Stopped)
  BY DEF Update, Control
<1>2. command'[j].p \in {Rest[j].p, Target(moving)[j].p, command[j].p}
  BY <1>1 DEF Commands
<1>3. /\ Writes(holding, "v", j) => command'[j].v = "zero"
      /\ ~Writes(holding, "v", j) /\ Writes(driving, "v", j) =>
             command'[j].v = Target(moving)[j].v
      /\ ~Writes(holding, "v", j) /\ ~Writes(driving, "v", j) => command'[j].v = command[j].v
  BY <1>1 DEF Commands, Rest
<1>4. ~Writes(holding, "v", j) /\ Writes(driving, "v", j) => Writes(running', "v", j)
  BY <1>1 DEF Writes
<1>5. ~Writes(holding, "v", j) /\ ~Writes(driving, "v", j) => command[j].v # "target"
  BY DEF Commanded, Writes
<1>6. ASSUME first, command'[j].p = "init"
      PROVE  Writes(blind', "p", j)
  <2>1. /\ Writes(holding, "p", j) => command'[j].p = "feedback"
        /\ ~Writes(holding, "p", j) /\ Writes(driving, "p", j) =>
               command'[j].p = Target(moving)[j].p
        /\ ~Writes(holding, "p", j) /\ ~Writes(driving, "p", j) =>
               command'[j].p = command[j].p
    BY <1>1, <1>6 DEF Commands, Rest
  <2>2. ~Writes(holding, "p", j)
    BY <1>6, <2>1
  <2>3. Writes(blind, "p", j)
    BY <1>6, <2>1, <2>2 DEF Target, Commanded
  <2> QED
    BY <1>1, <1>6, <2>2, <2>3 DEF Writes
<1> QED
  BY <1>2, <1>3, <1>4, <1>5, <1>6

-----------------------------------------------------------------------------
\* Init establishes the invariant.
LEMMA InitInv == Init => Inv
<1> SUFFICES ASSUME Init PROVE Inv
  OBVIOUS
<1>1. TypeOK
  <2>1. command \in [Joints -> [p : Origins, v : SpeedOrigins]]
    BY DEF Init, Origins, SpeedOrigins
  <2>2. [j \in Joints |-> "zero"] \in [Joints -> SpeedOrigins]
    BY DEF SpeedOrigins
  <2>3. sent \in [with : SUBSET Flags, p : [Joints -> Origins] \union {NoPosition},
                  v : [Joints -> SpeedOrigins]]
    BY <2>2 DEF Init
  <2>4. 0 \in 0..Enough
    BY MissingAssumption DEF Enough
  <2> QED
    BY <2>1, <2>3, <2>4 DEF Init, SwitchInit, TypeOK, SwitchTypeOK, Flags
<1>2. Commanded /\ Published /\ Counting
  BY DEF Init, SwitchInit, Commanded, Published, QuietStop, Counting,
         NoFalseAlarm
<1> QED
  BY <1>1, <1>2 DEF Inv

\* doPrepareSwitch() keeps it.
LEMMA PrepareSwitchInv ==
    ASSUME Inv, NEW start \in SUBSET Controllers, NEW stop \in SUBSET Controllers,
           PrepareSwitch(start, stop)
    PROVE  Inv'
<1> USE DEF Inv, PrepareSwitch, Ask, readVars
<1>1. Prepared(start, stop) \subseteq Flags
  <2>1. \A i \in Claimed(start) : FlagsOf[i] \subseteq Flags
    BY ClaimsAssumption DEF Claimed, FlagsOf, Interfaces, Fields, Flags
  <2>2. active \subseteq Flags
    BY DEF TypeOK, SwitchTypeOK
  <2> QED
    BY <2>1, <2>2 DEF Prepared
<1>2. TypeOK'
  BY <1>1 DEF TypeOK, SwitchTypeOK, Flags
<1>3. Commanded' /\ Published' /\ Counting'
  BY DEF Commanded, Published, QuietStop, Counting, NoFalseAlarm, Writes
<1> QED
  BY <1>2, <1>3

\* The assignments at its end keep it.
LEMMA StoreInv == Inv /\ Store => Inv'
<1> SUFFICES ASSUME Inv, Store PROVE Inv'
  OBVIOUS
<1> USE DEF Inv, Store, StoreFlag, readVars
<1>1. TypeOK'
  BY DEF TypeOK, SwitchTypeOK, Flags, FollowedBy
<1>2. client' # "idle"
  BY DEF Flags, FollowedBy
<1>3. Commanded' /\ Published' /\ Counting'
  BY <1>2 DEF Commanded, Published, QuietStop, Counting, NoFalseAlarm, Writes
<1> QED
  BY <1>1, <1>3

\* The callbacks keep it: whatever came, the silence grows unless a message is usable.
LEMMA CallbacksInv == Inv /\ Callbacks => Inv'
<1> SUFFICES ASSUME Inv, Callbacks PROVE Inv'
  OBVIOUS
<1>1. /\ phase = "callbacks" /\ phase' = "read"
      /\ UNCHANGED <<running, clientVars, missing, warm, early, error, message, sent, blind,
                     counted>>
  BY DEF Callbacks
<1>2. \/ UNCHANGED <<first, command>> /\ received' \in BOOLEAN /\ silent' = Increased(silent)
      \/ ReceiveValid /\ silent' = 0
  BY DEF Callbacks, ReceiveMalformed, Inv, TypeOK
<1>3. missing \in 0..Enough /\ silent \in 0..Enough
  BY DEF Inv, TypeOK
<1>4. TypeOK'
  <2>1. SwitchTypeOK'
    BY <1>1 DEF Inv, TypeOK, SwitchTypeOK, clientVars
  <2>2. silent' \in 0..Enough
    BY <1>2, <1>3, Increase, MissingAssumption DEF Enough
  <2>3. /\ command' \in [Joints -> [p : Origins, v : SpeedOrigins]]
        /\ first' \in BOOLEAN /\ received' \in BOOLEAN
    <3>1. CASE UNCHANGED <<first, command>> /\ received' \in BOOLEAN
      BY <3>1 DEF Inv, TypeOK
    <3>2. CASE ReceiveValid
      <4>1. [j \in Joints |-> [p |-> "feedback", v |-> "feedback"]]
              \in [Joints -> [p : Origins, v : SpeedOrigins]]
        BY DEF Origins, SpeedOrigins
      <4>2. command' = command
            \/ command' = [j \in Joints |-> [p |-> "feedback", v |-> "feedback"]]
        BY <3>2 DEF ReceiveValid
      <4> QED
        BY <3>2, <4>1, <4>2 DEF ReceiveValid, Inv, TypeOK
    <3> QED
      BY <1>2, <3>1, <3>2
  <2> QED
    BY <1>1, <2>1, <2>2, <2>3 DEF Inv, TypeOK
<1>5. Commanded'
  BY <1>1, <1>2 DEF Commanded, ReceiveValid, Inv, Writes
<1>6. Published'
  BY <1>1, <1>2 DEF Published, QuietStop, ReceiveValid, Inv
<1>7. Counting'
  <2>1. ~received' => Increased(missing) <= silent' \/ ~counted
    BY <1>1, <1>2, <1>3, Increase DEF ReceiveValid, Inv, Counting
  <2> QED
    BY <1>1, <2>1 DEF Inv, Counting, NoFalseAlarm
<1> QED
  BY <1>4, <1>5, <1>6, <1>7 DEF Inv

\* doRead() keeps it.
LEMMA ReadInv == Inv /\ Read => Inv'
<1> SUFFICES ASSUME Inv, Read PROVE Inv'
  OBVIOUS
<1>1. missing \in 0..Enough /\ silent \in 0..Enough /\ MaxMissing \in Nat /\ 0 \in 0..Enough
  BY MissingAssumption DEF Inv, TypeOK, Enough
<1>2. missing' \in 0..Enough
  BY <1>1, Increase DEF Read
<1>3. TypeOK'
  BY <1>2 DEF Inv, TypeOK, SwitchTypeOK, Read, clientVars
<1>4. Commanded' /\ Published'
  BY DEF Inv, Commanded, Published, QuietStop, Writes, Read, clientVars
<1>5. counted' => missing' <= silent
  <2>1. CASE ~received /\ ~early
    BY <1>1, <2>1 DEF Inv, Counting, Read
  <2>2. CASE received \/ early
    <3>1. missing' = 0
      BY <2>2 DEF Read
    <3> QED
      BY <1>1, <3>1
  <2> QED
    BY <2>1, <2>2
<1>6. /\ phase' = "update" /\ silent' = silent
      /\ error' => missing' > MaxMissing
  BY DEF Read
<1>7. NoFalseAlarm'
  BY <1>1, <1>2, <1>5, <1>6 DEF NoFalseAlarm, Enough
<1>8. Counting'
  BY <1>5, <1>6, <1>7 DEF Counting
<1> QED
  BY <1>3, <1>4, <1>8 DEF Inv

\* Time that passes keeps it.
LEMMA ElapseInv == Inv /\ Elapse => Inv'
<1> SUFFICES ASSUME Inv, Elapse PROVE Inv'
  OBVIOUS
<1>1. /\ early' = FALSE
      /\ UNCHANGED <<running, client, starting, stopping, prepared, active, command, phase>>
      /\ UNCHANGED <<first, received, missing, warm, error, message, sent, blind, counted,
                     silent>>
  BY DEF Elapse, switchVars, clientVars
<1>2. TypeOK'
  BY <1>1 DEF Inv, TypeOK, SwitchTypeOK
<1>3. Commanded' /\ Published'
  BY <1>1 DEF Inv, Commanded, Published, QuietStop, Writes
<1>4. Counting'
  BY <1>1 DEF Inv, Counting, NoFalseAlarm, Increased, Enough
<1> QED
  BY <1>2, <1>3, <1>4 DEF Inv

\* An update keeps it.
LEMMA UpdateInv ==
    ASSUME Inv, NEW quits \in SUBSET running, NEW moving \in SUBSET Joints,
           Update(quits, moving)
    PROVE  Inv'
<1>1. /\ phase = "update" /\ phase' = "write"
      /\ UNCHANGED <<first, received, missing, warm, early, error, message, sent, counted,
                     silent>>
  BY DEF Update, readVars
<1>2. \A j \in Joints :
        /\ Rest[j].p \in Origins /\ Target(moving)[j].p \in Origins
        /\ Target(moving)[j].v \in SpeedOrigins
  BY DEF Rest, Target, Origins, SpeedOrigins
<1>3. TypeOK'
  <2>1. SwitchTypeOK' /\ blind' \subseteq Controllers
    BY DEF Inv, TypeOK, SwitchTypeOK, Update, Control, Stopped, Started, Flags
  <2>2. \A j \in Joints : command'[j].p \in Origins /\ command'[j].v \in SpeedOrigins
    <3> TAKE j \in Joints
    <3>1. command[j].p \in Origins /\ command[j].v \in SpeedOrigins
      BY DEF Inv, TypeOK
    <3> QED
      BY <1>2, <3>1, CommandAfterUpdate DEF Inv, SpeedOrigins
  <2>3. command' \in [Joints -> [p : Origins, v : SpeedOrigins]]
    <3>1. command' = Commands(running \ quits, quits \union Stopped \union Started,
                              Target(moving), Rest)
      BY DEF Update, Control
    <3>2. /\ command' = [j \in Joints |-> command'[j]]
          /\ \A j \in Joints : command'[j] = [p |-> command'[j].p, v |-> command'[j].v]
      BY <3>1 DEF Commands
    <3>3. \A j \in Joints : command'[j] \in [p : Origins, v : SpeedOrigins]
      BY <2>2, <3>2
    <3> QED
      BY <3>2, <3>3
  <2> QED
    BY <1>1, <2>1, <2>3 DEF Inv, TypeOK
<1>4. Commanded'
  <2>1. blind' \subseteq running'
    BY DEF Update, Control, Inv, Commanded
  <2> SUFFICES ASSUME NEW j \in Joints
               PROVE  /\ command'[j].v = "target" => Writes(running', "v", j)
                      /\ first' /\ command'[j].p = "init" => Writes(blind', "p", j)
    BY <2>1 DEF Commanded, Writes
  <2> QED
    BY <1>1, CommandAfterUpdate DEF Inv
<1>5. Published' /\ Counting'
  BY <1>1 DEF Inv, Published, QuietStop, Counting, NoFalseAlarm
<1> QED
  BY <1>3, <1>4, <1>5 DEF Inv

\* A write keeps it: what is published are the commands.
LEMMA WriteInv == Inv /\ Write => Inv'
<1> SUFFICES ASSUME Inv, Write PROVE Inv'
  OBVIOUS
<1>1. /\ phase = "write" /\ phase' \in {"callbacks", "ended"} /\ (error => phase' = "ended")
      /\ UNCHANGED <<running, client, starting, stopping, prepared, active, command, first,
                     received, missing, warm, early, error, blind, counted, silent>>
  BY DEF Write, clientVars, readVars
<1>2. CASE active # {} /\ first
  <2>1. /\ sent'.with = active
        /\ "p" \in active => sent'.p = [j \in Joints |-> command[j].p]
        /\ "p" \notin active => sent'.p = message
        /\ sent'.v = [j \in Joints |-> IF "v" \in active THEN command[j].v ELSE "zero"]
        /\ sent' = [with |-> sent'.with, p |-> sent'.p, v |-> sent'.v]
        /\ message' = NoPosition
    BY <1>2 DEF Write, Publish
  <2>2. TypeOK'
    <3>1. /\ sent'.p \in [Joints -> Origins] \union {NoPosition}
          /\ sent'.v \in [Joints -> SpeedOrigins]
          /\ sent'.with \in SUBSET Flags
      BY <2>1 DEF Inv, TypeOK, SwitchTypeOK, Origins, SpeedOrigins
    <3>2. sent' \in [with : SUBSET Flags, p : [Joints -> Origins] \union {NoPosition},
                     v : [Joints -> SpeedOrigins]]
      BY <2>1, <3>1
    <3> QED
      BY <1>1, <2>1, <3>2 DEF Inv, TypeOK, SwitchTypeOK
  <2>3. Published'
    BY <1>1, <1>2, <2>1 DEF Inv, Commanded, Published, QuietStop, Writes
  <2> QED
    BY <1>1, <2>2, <2>3 DEF Inv, Commanded, Counting, NoFalseAlarm, Writes
<1>3. CASE ~(active # {} /\ first)
  <2>1. UNCHANGED <<sent, message>>
    BY <1>3 DEF Write
  <2>2. TypeOK'
    BY <1>1, <2>1 DEF Inv, TypeOK, SwitchTypeOK
  <2>3. Published'
    BY <1>1, <1>3, <2>1 DEF Inv, Published, QuietStop
  <2> QED
    BY <1>1, <2>2, <2>3 DEF Inv, Commanded, Counting, NoFalseAlarm, Writes
<1> QED
  BY <1>2, <1>3

\* Every step keeps the invariant.
LEMMA NextInv == Inv /\ [Next]_vars => Inv'
<1> SUFFICES ASSUME Inv, [Next]_vars PROVE Inv'
  OBVIOUS
<1>1. CASE \E start, stop \in SUBSET Controllers : PrepareSwitch(start, stop)
  BY <1>1, PrepareSwitchInv
<1>2. CASE Store
  BY <1>2, StoreInv
<1>3. CASE Callbacks
  BY <1>3, CallbacksInv
<1>4. CASE Read
  BY <1>4, ReadInv
<1>5. CASE \E quits \in SUBSET running, moving \in SUBSET Joints : Update(quits, moving)
  BY <1>5, UpdateInv
<1>6. CASE Write
  BY <1>6, WriteInv
<1>7. CASE Elapse
  BY <1>7, ElapseInv
<1>8. CASE UNCHANGED vars
  BY <1>8 DEF vars, switchVars, clientVars, readVars, Inv, TypeOK, SwitchTypeOK, Commanded,
              Published, QuietStop, Counting, NoFalseAlarm, Writes
<1> QED
  BY <1>1, <1>2, <1>3, <1>4, <1>5, <1>6, <1>7, <1>8 DEF Next, LoopStep

THEOREM Invariance == Spec => []Inv
<1> QED
  BY InitInv, NextInv, PTL DEF Spec

-----------------------------------------------------------------------------
\* Every variable has its type.
THEOREM TypeCorrect == Spec => []TypeOK
<1>1. Inv => TypeOK
  BY DEF Inv
<1> QED
  BY <1>1, Invariance, PTL

\* What is published of the zeros of doInit() is what a controller that was started before
\* the first message makes of them.  (doWrite, jointStateCallback.)
THEOREM OnlyBlindControllersPublishZeros == Spec => ZerosOnlyOfBlind
<1>1. Inv /\ [Next]_vars =>
        [ phase = "write" /\ phase' # "write" /\ first /\ "p" \in active =>
            \A j \in Joints : sent'.p[j] = "init" => Writes(blind, "p", j) ]_vars
  <2> SUFFICES ASSUME Inv, [Next]_vars, phase = "write", phase' # "write", first,
                      "p" \in active, NEW j \in Joints, sent'.p[j] = "init"
               PROVE  Writes(blind, "p", j)
    OBVIOUS
  <2>1. Write
    BY DEF Next, LoopStep, PrepareSwitch, Ask, Store, StoreFlag, Callbacks, Read, Update, Elapse,
           vars, switchVars
  <2>2. sent'.p[j] = command[j].p
    BY <2>1 DEF Write, Publish
  <2> QED
    BY <2>2 DEF Inv, Commanded
<1> QED
  BY <1>1, Invariance, PTL DEF Spec, ZerosOnlyOfBlind

\* doRead() fails only after more than the configured number of silent reads.  (doRead.)
THEOREM AlarmsAreTrue == Spec => []NoFalseAlarm
<1>1. Inv => NoFalseAlarm
  BY DEF Inv, Counting
<1> QED
  BY <1>1, Invariance, PTL

\* While anything is published, the speeds are those of running controllers.
\* (doWrite, exitStopping of the controllers.)
THEOREM StopsArePublished == Spec => []QuietStop
<1>1. Inv => QuietStop
  BY DEF Inv, Published
<1> QED
  BY <1>1, Invariance, PTL

-----------------------------------------------------------------------------
(* The safety half of SilenceEndsTheLoop: a variant of the control loop.   *)

\* A usable message is seen by the next read, and by no other; what doRead() found is
\* the status until the end of the cycle.
HeardOnce ==
    /\ phase # "read" => ~received
    /\ phase = "read" /\ silent # 0 => ~received
    /\ phase \in {"update", "write"} => error = (warm /\ missing > MaxMissing)

\* The steps of a cycle that are left until the next read, or, after an error, until the
\* loop ends.
StepsLeft == [update |-> 3, write |-> 2, callbacks |-> 1, read |-> 0, ended |-> 0]

\* How far a loop that has no usable message is from its end.
Distance ==
    StepsLeft[phase] + (IF error THEN 0 ELSE 4 * (Enough + 1 - missing))

\* A step of the loop brings it closer, and no other step takes it further away.
ComesCloser ==
    IF phase' = phase THEN Distance' = Distance
    ELSE phase' = "ended" \/ Distance' < Distance

LEMMA HeardOnceInit == Init => HeardOnce
BY DEF Init, HeardOnce

LEMMA HeardOnceStep == Inv /\ HeardOnce /\ [Next]_vars => HeardOnce'
<1> SUFFICES ASSUME Inv, HeardOnce, [Next]_vars PROVE HeardOnce'
  OBVIOUS
<1> USE DEF HeardOnce
<1>1. CASE \E start, stop \in SUBSET Controllers : PrepareSwitch(start, stop)
  BY <1>1 DEF PrepareSwitch, Ask, readVars
<1>2. CASE Store
  BY <1>2 DEF Store, StoreFlag, readVars
<1>3. CASE Callbacks
  BY <1>3 DEF Callbacks, ReceiveValid, ReceiveMalformed
<1>4. CASE Read
  BY <1>4 DEF Read
<1>5. CASE \E quits \in SUBSET running, moving \in SUBSET Joints : Update(quits, moving)
  BY <1>5 DEF Update, readVars
<1>6. CASE Write
  BY <1>6 DEF Write, readVars
<1>7. CASE Elapse
  BY <1>7 DEF Elapse, switchVars, Inv, Counting
<1>8. CASE UNCHANGED vars
  BY <1>8 DEF vars, switchVars, readVars
<1> QED
  BY <1>1, <1>2, <1>3, <1>4, <1>5, <1>6, <1>7, <1>8 DEF Next, LoopStep

\* One silent step of a robot whose messages are looked at.
LEMMA SilentStep ==
    ASSUME Inv, HeardOnce, Next, warm, ~early, silent' # 0
    PROVE  ComesCloser
<1>1. missing \in 0..Enough /\ MaxMissing \in Nat /\ Enough = MaxMissing + 1
  BY MissingAssumption DEF Inv, TypeOK, Enough
<1> USE DEF ComesCloser, Distance, StepsLeft
<1>2. CASE \E start, stop \in SUBSET Controllers : PrepareSwitch(start, stop)
  BY <1>2 DEF PrepareSwitch, Ask, readVars, Enough
<1>3. CASE Store
  BY <1>3 DEF Store, StoreFlag, readVars, Enough
<1>4. CASE Callbacks
  <2>1. ~error
    BY <1>4 DEF Callbacks, Inv, Counting
  <2> QED
    BY <1>1, <1>4, <2>1 DEF Callbacks, Enough
<1>5. CASE Read
  <2>1. ~received /\ ~error /\ phase = "read" /\ phase' = "update"
    BY <1>5 DEF Read, HeardOnce, Inv, Counting
  <2>2. missing' = Increased(missing) /\ error' = (missing' > MaxMissing)
    BY <1>5, <2>1 DEF Read
  <2>3. CASE missing < MaxMissing
    BY <1>1, <2>1, <2>2, <2>3 DEF Increased, Enough
  <2>4. CASE missing >= MaxMissing
    <3>1. missing' = Enough
      BY <1>1, <2>2, <2>4 DEF Increased
    <3>2. missing' > MaxMissing
      BY <1>1, <3>1
    <3>3. error'
      BY <2>2, <3>2, Zenon
    <3>4. Distance' = 3
      BY <2>1, <3>3
    <3>5. Distance \in Int /\ Distance >= 4
      BY <1>1, <2>1
    <3> HIDE DEF Distance
    <3> QED
      BY <2>1, <3>4, <3>5
  <2> QED
    BY <1>1, <2>3, <2>4
<1>6. CASE \E quits \in SUBSET running, moving \in SUBSET Joints : Update(quits, moving)
  <2>1. phase = "update" /\ phase' = "write" /\ UNCHANGED <<missing, error>>
    BY <1>6 DEF Update, readVars
  <2> QED
    BY <1>1, <2>1 DEF Enough
<1>7. CASE Write
  <2>1. /\ phase = "write" /\ UNCHANGED <<missing, error>>
        /\ phase' = IF error THEN "ended" ELSE "callbacks"
    BY <1>7 DEF Write, readVars
  <2> QED
    BY <1>1, <2>1 DEF Enough
<1>8. CASE Elapse
  BY <1>8 DEF Elapse
<1> QED
  BY <1>2, <1>3, <1>4, <1>5, <1>6, <1>7, <1>8 DEF Next, LoopStep

\* When messages are looked at, every step of the loop of a robot that is silent brings
\* it closer to its end, and nothing else takes it away: 4 * (MaxMissing + 2) + 3 steps
\* without a usable message are enough.  (doRead, jointStateCallback, run.)
THEOREM SilenceCounts ==
    Spec => /\ [](Distance \in 0..(4 * (MaxMissing + 2) + 3))
            /\ [][warm /\ ~early /\ silent' # 0 => ComesCloser]_vars
<1>1. Inv => Distance \in 0..(4 * (MaxMissing + 2) + 3)
  <2> SUFFICES ASSUME Inv PROVE Distance \in 0..(4 * (MaxMissing + 2) + 3)
    OBVIOUS
  <2>1. missing \in 0..Enough /\ MaxMissing \in Nat /\ Enough = MaxMissing + 1
    BY MissingAssumption DEF Inv, TypeOK, Enough
  <2>2. StepsLeft[phase] \in 0..3
    BY DEF StepsLeft, Inv, TypeOK
  <2> QED
    BY <2>1, <2>2 DEF Distance
<1>2. Inv /\ HeardOnce /\ [Next]_vars =>
        [warm /\ ~early /\ silent' # 0 => ComesCloser]_vars
  BY SilentStep
<1> QED
  BY <1>1, <1>2, Invariance, HeardOnceInit, HeardOnceStep, PTL DEF Spec

=============================================================================
