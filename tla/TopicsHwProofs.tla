------------------------------ MODULE TopicsHwProofs ------------------------------
(***************************************************************************)
(* Proofs about TopicsHw, for any joints, controllers, claims, sets of     *)
(* configurations and limits.                                              *)
(*                                                                         *)
(* Inv adds to the types where the speeds come from (Commanded, Heard),    *)
(* how far doPrepareSwitch() has come with its flags (Staged), and that    *)
(* only hardware whose doInit() succeeded is ever asked for a switch       *)
(* (Initialised).                                                          *)
(***************************************************************************)
EXTENDS TopicsHw, TLAPS

\* A resource has its own array of values.
Arrays == state = [k \in made |-> state[k]]

\* A speed in the commands is that of a running controller.
Commanded ==
    /\ DOMAIN command = Joints
    /\ \A j \in Joints :
         /\ command[j].v \in {"zero", "target"}
         /\ command[j].v = "target" => Writes(running, "v", j)

\* The flags stored so far are those of the start list, whose controllers are loaded.
Staged ==
    /\ client # "idle" =>
         /\ prepared = Prepared(starting, stopping)
         /\ \A c \in starting : Loadable(c)
    /\ client \in {"v", "e", "switch"} => ("p" \in active <=> "p" \in prepared)
    /\ client \in {"e", "switch"} => ("v" \in active <=> "v" \in prepared)
    /\ client = "switch" => ("e" \in active <=> "e" \in prepared)

\* Without joints, or topics to publish them on, nothing is published.
Published ==
    /\ "joint" \notin made \/ config.published["joint"] = 0 =>
         \A j \in Joints : published[j] = "zero"
    /\ StaleOnlyWithoutFlags

\* Hardware whose doInit() failed never runs a loop nor a switch.
Initialised ==
    /\ phase # "ended" \/ client # "idle" => Succeeds(config)
    /\ NoOutOfRange

Inv == TypeOK /\ Arrays /\ Commanded /\ Staged /\ Published /\ Initialised
           /\ StartedAreHeard

-----------------------------------------------------------------------------
\* Counters stay within their bounds.
LEMMA Bounds ==
    /\ 0 \in 0..(Width - 1)
    /\ \A n \in Int : Increased(n) \in 0..(Width - 1)
BY TopicsAssumption DEF Increased

\* What a list of controllers claims, when they can be loaded, has its flags prepared.
LEMMA LoadedFlags ==
    ASSUME NEW start \in SUBSET Controllers, NEW stop, \A c \in start : Loadable(c)
    PROVE  /\ Prepared(start, stop) \subseteq Flags
           /\ \A c \in start, j \in Joints : FieldsAt(c, j) \subseteq Prepared(start, stop)
<1>1. \A c \in start, j \in Joints : Claims[c][j] \subseteq Claimed(start)
  BY DEF Claimed
<1>2. \A i \in Offered : FlagsOf[i] = Fields[i]
  BY DEF FlagsOf, Fields, Offered
<1>3. \A c \in start, j \in Joints : Claims[c][j] \subseteq Offered
  BY DEF Loadable
<1>4. \A c \in start, j \in Joints : FieldsAt(c, j) \subseteq Prepared(start, stop)
  BY <1>1, <1>2, <1>3 DEF FieldsAt, Prepared
<1>5. \A i \in Claimed(start) : i \in Offered
  BY <1>3 DEF Claimed
<1>6. \A i \in Offered : Fields[i] \subseteq Flags
  BY DEF Offered, Fields, Flags
<1> QED
  BY <1>2, <1>4, <1>5, <1>6 DEF Prepared

\* A command after an update is zero, the one before, or the new one of a controller
\* that goes on.
LEMMA SpeedAfterUpdate ==
    ASSUME NEW quits \in SUBSET running, NEW moving \in SUBSET Joints, Update(quits, moving),
           Commanded, NEW j \in Joints
    PROVE  /\ command'[j].v \in {"zero", "target"}
           /\ command'[j].v = "target" => Writes(running', "v", j)
<1> DEFINE holding == quits \union Stopped \union Started
           driving == running \ quits
<1>1. /\ command' = Commands(driving, holding, Asked(moving), Rest)
      /\ running' = (running \ (quits \union Stopped)) \union Started
  BY DEF Update, Control
<1>2. Asked(moving)[j].v \in {"zero", "target"} /\ Rest[j].v = "zero"
  BY DEF Rest, Asked
<1>3. /\ Writes(holding, "v", j) => command'[j].v = "zero"
      /\ ~Writes(holding, "v", j) /\ Writes(driving, "v", j) =>
             command'[j].v = Asked(moving)[j].v
      /\ ~Writes(holding, "v", j) /\ ~Writes(driving, "v", j) => command'[j].v = command[j].v
  BY <1>1, <1>2 DEF Commands
<1>4. ~Writes(holding, "v", j) /\ Writes(driving, "v", j) => Writes(running', "v", j)
  BY <1>1 DEF Writes
<1>5. ~Writes(holding, "v", j) /\ ~Writes(driving, "v", j) => command[j].v # "target"
  BY DEF Commanded, Writes
<1>6. command[j].v \in {"zero", "target"}
  BY DEF Commanded
<1> QED
  BY <1>2, <1>3, <1>4, <1>5, <1>6

-----------------------------------------------------------------------------
\* Init establishes the invariant.
LEMMA InitInv == Init => Inv
<1> SUFFICES ASSUME Init PROVE Inv
  OBVIOUS
<1>1. made \subseteq config.resources
  BY DEF Init, Made
<1>2. TypeOK
  <2>1. /\ DOMAIN state = made
        /\ \A k \in made : DOMAIN state[k] = Places(config, k)
    BY DEF Init
  <2>2. published \in [Joints -> {"zero", "target"}]
    BY DEF Init
  <2>3. phase \in {"callbacks", "read", "update", "write", "ended", "crashed"}
    BY DEF Init
  <2> QED
    BY <1>1, <2>1, <2>2, <2>3, Bounds DEF Init, SwitchInit, TypeOK, SwitchTypeOK, Flags
<1>3. Arrays /\ Commanded
  BY DEF Init, Arrays, Commanded
<1>4. Staged /\ Published /\ Initialised
  BY DEF Init, SwitchInit, Staged, Published, StaleOnlyWithoutFlags, Initialised, NoOutOfRange
<1>5. StartedAreHeard
  BY DEF Init, StartedAreHeard
<1> QED
  BY <1>2, <1>3, <1>4, <1>5 DEF Inv

\* doPrepareSwitch() keeps it.
LEMMA PrepareSwitchInv ==
    ASSUME Inv, NEW start \in SUBSET Controllers, NEW stop \in SUBSET Controllers,
           PrepareSwitch(start, stop)
    PROVE  Inv'
<1>1. /\ client = "idle" /\ client' = "p" /\ phase # "ended"
      /\ starting' = start /\ stopping' = stop /\ prepared' = Prepared(start, stop)
      /\ UNCHANGED <<running, active, command, phase>>
      /\ UNCHANGED <<config, made, state, received, taken, warmup, missing, error, published,
                     thrown, begun>>
      /\ \A c \in start : Loadable(c)
  BY DEF PrepareSwitch, Ask, readVars
<1>2. TypeOK'
  <2>1. prepared' \subseteq Flags
    BY <1>1, LoadedFlags
  <2>2. client' \in {"idle", "switch"} \union Flags
    BY <1>1 DEF Flags
  <2> QED
    BY <1>1, <2>1, <2>2 DEF Inv, TypeOK, SwitchTypeOK, Places, AllTopics, Topics
<1>3. Staged'
  <2>1. Prepared(start, stop) = Prepared(start, stop)' /\ \A c \in start : Loadable(c)'
    BY <1>1 DEF Prepared, Claimed, Loadable
  <2> QED
    BY <1>1, <2>1 DEF Staged
<1>4. Arrays' /\ Commanded' /\ StartedAreHeard'
  BY <1>1 DEF Inv, Arrays, Commanded, StartedAreHeard, Writes
<1>5. Published' /\ Initialised'
  BY <1>1 DEF Inv, Published, StaleOnlyWithoutFlags, Initialised, NoOutOfRange, Succeeds
<1> QED
  BY <1>2, <1>3, <1>4, <1>5 DEF Inv

\* A switch reads past no end, if the parameters are what the assertions want.
LEMMA NothingThrown ==
    ASSUME Inv, client # "idle", SwitchThrows
    PROVE  ~Asserted(config)
<1>1. config \in Configs /\ "twist" \in config.resources /\ Succeeds(config)
  BY DEF Inv, TypeOK, Initialised, SwitchThrows
<1>2. /\ Len(config.names["twist"]) \in Nat
      /\ Len(config.subscribed["twist"]) \in Nat
      /\ config.published["twist"] \in Nat
  BY <1>1, TopicsAssumption
<1>3. /\ ~(Len(config.subscribed["twist"]) > Len(config.names["twist"]))
      /\ ~(Len(config.subscribed["twist"]) > config.published["twist"])
  BY <1>1 DEF Succeeds, ConstructorThrows, InitThrows
<1> QED
  BY <1>1, <1>2, <1>3 DEF SwitchThrows, Asserted

\* The assignments at its end keep it, and so does the exception before the last.
LEMMA StoreInv == Inv /\ Store => Inv'
<1> SUFFICES ASSUME Inv, Store PROVE Inv'
  OBVIOUS
<1>1. /\ client \in Flags
      /\ active' = (active \ {client}) \union (prepared \intersect {client})
      /\ UNCHANGED <<running, command, phase>>
      /\ UNCHANGED <<config, made, state, received, taken, warmup, missing, error, published,
                     begun>>
      /\ \/ /\ client' = FollowedBy[client]
            /\ UNCHANGED <<starting, stopping, prepared, thrown>>
         \/ /\ SwitchThrows
            /\ client' = "idle" /\ starting' = {} /\ stopping' = {} /\ prepared' = {}
            /\ thrown' = TRUE
  BY DEF Store, StoreFlag, readVars, Flags
<1>2. Arrays' /\ Commanded'
  BY <1>1 DEF Inv, Arrays, Commanded, Writes
<1>3. CASE /\ client' = FollowedBy[client]
           /\ UNCHANGED <<starting, stopping, prepared, thrown>>
  <2>1. client' \in {"v", "e", "switch"}
    BY <1>1, <1>3 DEF Flags, FollowedBy
  <2>2. TypeOK'
    BY <1>1, <1>3, <2>1 DEF Inv, TypeOK, SwitchTypeOK, Places, AllTopics, Topics, Flags
  <2>3. Staged'
    <3>1. Prepared(starting, stopping) = Prepared(starting, stopping)'
          /\ (\A c \in starting : Loadable(c)) => \A c \in starting' : Loadable(c)'
      BY <1>1, <1>3 DEF Prepared, Claimed, Loadable
    <3>2. prepared' = Prepared(starting, stopping)' /\ \A c \in starting' : Loadable(c)'
      BY <1>1, <1>3, <3>1 DEF Inv, Staged, Flags
    <3>3. CASE client = "p"
      BY <1>1, <1>3, <3>2, <3>3 DEF Inv, Staged, FollowedBy
    <3>4. CASE client = "v"
      BY <1>1, <1>3, <3>2, <3>4 DEF Inv, Staged, FollowedBy
    <3>5. CASE client = "e"
      BY <1>1, <1>3, <3>2, <3>5 DEF Inv, Staged, FollowedBy
    <3> QED
      BY <1>1, <3>3, <3>4, <3>5 DEF Flags
  <2>4. Published' /\ StartedAreHeard'
    BY <1>1, <2>1 DEF Inv, Published, StaleOnlyWithoutFlags, StartedAreHeard
  <2>5. Initialised'
    BY <1>1, <1>3 DEF Inv, Initialised, NoOutOfRange, Succeeds, Flags
  <2> QED
    BY <1>2, <2>2, <2>3, <2>4, <2>5 DEF Inv
<1>4. CASE /\ SwitchThrows
           /\ client' = "idle" /\ starting' = {} /\ stopping' = {} /\ prepared' = {}
           /\ thrown' = TRUE
  <2>1. TypeOK'
    BY <1>1, <1>4 DEF Inv, TypeOK, SwitchTypeOK, Places, AllTopics, Topics, Flags
  <2>2. Staged' /\ StartedAreHeard' /\ Published'
    BY <1>1, <1>4 DEF Inv, Staged, StartedAreHeard, Published, StaleOnlyWithoutFlags
  <2>3. Initialised'
    <3>1. ~Asserted(config)
      BY <1>1, <1>4, NothingThrown DEF Flags
    <3> QED
      BY <1>1, <1>4, <3>1 DEF Inv, Initialised, NoOutOfRange, Succeeds
  <2> QED
    BY <1>2, <2>1, <2>2, <2>3 DEF Inv
<1> QED
  BY <1>1, <1>3, <1>4

-----------------------------------------------------------------------------
\* A message changes the values of its resource, not their number.
LEMMA Fed ==
    ASSUME Inv, NEW k \in made, NEW t \in Topics(k), Usable(k, t)
    PROVE  /\ state' = [n \in made |-> state'[n]]
           /\ \A n \in made : DOMAIN state'[n] = DOMAIN state[n]
<1>1. state = [n \in made |-> state[n]]
  BY DEF Inv, Arrays
<1>2. /\ DOMAIN ToPlaces(k, t) = DOMAIN state[k]
      /\ DOMAIN ToPlace(k, t) = DOMAIN state[k]
      /\ k = "twist" => \A frame : DOMAIN ToFrame(t, frame) = DOMAIN state[k]
  BY DEF ToPlaces, ToPlace, ToFrame
<1>3. \E values : state' = [state EXCEPT ![k] = values] /\ DOMAIN values = DOMAIN state[k]
  <2>1. CASE k \in {"joint", "analog"}
    BY <1>2, <2>1, Zenon DEF Usable
  <2>2. CASE k \in {"wrench", "pose"}
    BY <1>2, <2>2, Zenon DEF Usable
  <2>3. CASE k = "twist"
    BY <1>2, <2>3, Zenon DEF Usable
  <2> QED
    BY <2>1, <2>2, <2>3 DEF Usable
<1> QED
  BY <1>1, <1>3

\* A callback keeps the invariant.
LEMMA CallbackInv ==
    ASSUME Inv, NEW k \in made, NEW t \in AllTopics, Callback(k, t)
    PROVE  Inv'
<1>1. /\ phase = "callbacks" /\ t \in Topics(k) /\ taken' = taken \union {t}
      /\ UNCHANGED <<running, client, starting, stopping, prepared, active, command, phase>>
      /\ UNCHANGED <<config, made, warmup, missing, error, published, thrown, begun>>
      /\ Usable(k, t) \/ Malformed(k, t)
  BY DEF Callback, switchVars, clientVars
<1>2. received' \subseteq AllTopics /\ taken' \subseteq AllTopics
  BY <1>1 DEF Usable, Malformed, Inv, TypeOK
<1>3. /\ Arrays'
      /\ DOMAIN state' = made
      /\ \A n \in made : DOMAIN state'[n] = Places(config, n)
  <2>1. CASE UNCHANGED state
    BY <1>1, <2>1 DEF Inv, TypeOK, Arrays
  <2>2. CASE Usable(k, t)
    <3>1. /\ state' = [n \in made |-> state'[n]]
          /\ \A n \in made : DOMAIN state'[n] = DOMAIN state[n]
      BY <1>1, <2>2, Fed
    <3> QED
      BY <1>1, <3>1 DEF Inv, TypeOK, Arrays
  <2> QED
    BY <1>1, <2>1, <2>2 DEF Malformed
<1>4. TypeOK'
  BY <1>1, <1>2, <1>3 DEF Inv, TypeOK, SwitchTypeOK, Places, AllTopics, Topics
<1>5. Commanded' /\ StartedAreHeard'
  BY <1>1 DEF Inv, Commanded, StartedAreHeard, Writes
<1>6. Staged'
  BY <1>1 DEF Inv, Staged, Prepared, Claimed, Loadable
<1>7. Published' /\ Initialised'
  BY <1>1 DEF Inv, Published, StaleOnlyWithoutFlags, Initialised, NoOutOfRange, Succeeds, Writes
<1> QED
  BY <1>3, <1>4, <1>5, <1>6, <1>7 DEF Inv

\* The end of the process keeps it.
LEMMA UnlabelledInv == ASSUME Inv, NEW t \in AllTopics, Unlabelled(t) PROVE Inv'
<1>1. /\ phase = "callbacks" /\ phase' = "crashed"
      /\ UNCHANGED <<running, client, starting, stopping, prepared, active, command>>
      /\ UNCHANGED <<config, made, state, received, taken, warmup, missing, error, published,
                     thrown, begun>>
  BY DEF Unlabelled, clientVars, readVars
<1>2. TypeOK'
  BY <1>1 DEF Inv, TypeOK, SwitchTypeOK, Places, AllTopics, Topics
<1>3. Arrays' /\ Commanded' /\ StartedAreHeard'
  BY <1>1 DEF Inv, Arrays, Commanded, StartedAreHeard, Writes
<1>4. Staged' /\ Published' /\ Initialised'
  BY <1>1 DEF Inv, Staged, Prepared, Claimed, Loadable, Published, StaleOnlyWithoutFlags,
              Initialised, NoOutOfRange, Succeeds
<1> QED
  BY <1>2, <1>3, <1>4 DEF Inv

\* The end of the queue and doRead() keep it.
LEMMA ReadInv == Inv /\ (QueueEmpty \/ Read) => Inv'
<1> SUFFICES ASSUME Inv, QueueEmpty \/ Read PROVE Inv'
  OBVIOUS
<1>1. /\ phase \in {"callbacks", "read"} /\ phase' \in {"read", "update"}
      /\ UNCHANGED <<running, client, starting, stopping, prepared, active, command>>
      /\ UNCHANGED <<config, made, state, published, thrown, begun>>
  BY DEF QueueEmpty, Read, clientVars, readVars
<1>2. /\ received' \subseteq AllTopics /\ taken' \subseteq AllTopics
      /\ warmup' \in 0..(Width - 1) /\ missing' \in 0..(Width - 1) /\ error' \in BOOLEAN
  <2>1. CASE QueueEmpty
    BY <2>1 DEF QueueEmpty, readVars, Inv, TypeOK
  <2>2. CASE Read
    <3>1. warmup \in Int /\ missing \in Int
      BY DEF Inv, TypeOK
    <3> QED
      BY <2>2, <3>1, Bounds DEF Read, Inv, TypeOK
  <2> QED
    BY <2>1, <2>2
<1>3. TypeOK'
  BY <1>1, <1>2 DEF Inv, TypeOK, SwitchTypeOK, Places, AllTopics, Topics
<1>4. Arrays' /\ Commanded' /\ StartedAreHeard'
  BY <1>1 DEF Inv, Arrays, Commanded, StartedAreHeard, Writes
<1>5. Staged'
  BY <1>1 DEF Inv, Staged, Prepared, Claimed, Loadable
<1>6. Published' /\ Initialised'
  BY <1>1 DEF Inv, Published, StaleOnlyWithoutFlags, Initialised, NoOutOfRange, Succeeds
<1> QED
  BY <1>3, <1>4, <1>5, <1>6 DEF Inv

\* An update keeps it: with a switch, the flags are those of what starts.
LEMMA UpdateInv ==
    ASSUME Inv, NEW quits \in SUBSET running, NEW moving \in SUBSET Joints,
           Update(quits, moving)
    PROVE  Inv'
<1>1. /\ phase = "update" /\ phase' = "write"
      /\ UNCHANGED <<config, made, state, received, taken, warmup, missing, error, published,
                     thrown, active>>
      /\ running' = (running \ (quits \union Stopped)) \union Started
      /\ DOMAIN command' = Joints
  BY DEF Update, Control, readVars, Commands
<1>2. \/ /\ client # "switch" /\ Started = {} /\ begun' = begun
         /\ UNCHANGED <<client, starting, stopping, prepared>>
      \/ /\ client = "switch" /\ Started = starting /\ begun' = starting
         /\ client' = "idle" /\ starting' = {} /\ stopping' = {} /\ prepared' = {}
  BY DEF Update, Control, Started
<1>3. TypeOK'
  <2>1. /\ starting \subseteq Controllers /\ stopping \subseteq Controllers
        /\ running \subseteq Controllers /\ prepared \subseteq Flags
        /\ client \in {"idle", "switch"} \union Flags
    BY DEF Inv, TypeOK, SwitchTypeOK
  <2>2. /\ starting' \subseteq Controllers /\ stopping' \subseteq Controllers
        /\ running' \subseteq Controllers /\ prepared' \subseteq Flags
        /\ client' \in {"idle", "switch"} \union Flags
    BY <1>1, <1>2, <2>1
  <2>3. begun' \subseteq Controllers
    BY <1>2, <2>1 DEF Inv, TypeOK
  <2> QED
    BY <1>1, <2>2, <2>3 DEF Inv, TypeOK, SwitchTypeOK, Places, AllTopics, Topics
<1>4. Commanded'
  <2>1. \A j \in Joints : /\ command'[j].v \in {"zero", "target"}
                          /\ command'[j].v = "target" => Writes(running', "v", j)
    BY SpeedAfterUpdate DEF Inv
  <2> QED
    BY <1>1, <2>1 DEF Commanded, Writes
<1>5. Staged'
  BY <1>1, <1>2 DEF Inv, Staged, Prepared, Claimed, Loadable
<1>6. StartedAreHeard'
  <2>1. CASE client # "switch"
    <3>1. begun' = begun /\ client' = client /\ running' \subseteq running
      BY <1>1, <1>2, <2>1
    <3> QED
      BY <1>1, <3>1 DEF Inv, StartedAreHeard
  <2>2. CASE client = "switch"
    <3>1. prepared \subseteq Flags /\ starting \in SUBSET Controllers
      BY DEF Inv, TypeOK, SwitchTypeOK
    <3>2. prepared = Prepared(starting, stopping) /\ \A c \in starting : Loadable(c)
      BY <2>2 DEF Inv, Staged
    <3>3. prepared \subseteq active
      BY <2>2, <3>1 DEF Inv, Staged, Flags
    <3>4. \A c \in starting, j \in Joints : FieldsAt(c, j) \subseteq active
      BY <3>1, <3>2, <3>3, LoadedFlags
    <3> QED
      BY <1>1, <1>2, <2>2, <3>4 DEF StartedAreHeard
  <2> QED
    BY <2>1, <2>2
<1>7. Arrays'
  BY <1>1 DEF Inv, Arrays
<1>8. Published' /\ Initialised'
  BY <1>1 DEF Inv, Published, StaleOnlyWithoutFlags, Initialised, NoOutOfRange, Succeeds
<1> QED
  BY <1>3, <1>4, <1>5, <1>6, <1>7, <1>8 DEF Inv

\* A write keeps it: what is published are the commands, and nothing without joints.
LEMMA WriteInv == Inv /\ Write => Inv'
<1> SUFFICES ASSUME Inv, Write PROVE Inv'
  OBVIOUS
<1>1. /\ phase = "write" /\ phase' \in {"callbacks", "ended"}
      /\ UNCHANGED <<running, client, starting, stopping, prepared, active, command>>
      /\ UNCHANGED <<config, made, state, received, taken, warmup, missing, error, thrown,
                     begun>>
  BY DEF Write, clientVars, readVars
<1>2. \/ /\ "joint" \in made /\ config.published["joint"] > 0 /\ active # {}
         /\ published' = [j \in Joints |-> IF "v" \in active THEN command[j].v ELSE "zero"]
      \/ /\ ~("joint" \in made /\ config.published["joint"] > 0) \/ active = {}
         /\ published' = published
  BY DEF Write, WriteJoints
<1>3. \A j \in Joints : command[j].v \in {"zero", "target"}
  BY DEF Inv, Commanded
<1>4. published' \in [Joints -> {"zero", "target"}]
  BY <1>2, <1>3 DEF Inv, TypeOK
<1>5. TypeOK'
  BY <1>1, <1>4 DEF Inv, TypeOK, SwitchTypeOK, Places, AllTopics, Topics
<1>6. "joint" \in made => config.published["joint"] \in Nat
  BY TopicsAssumption DEF Inv, TypeOK
<1>7. Published'
  <2>1. CASE /\ "joint" \in made /\ config.published["joint"] > 0 /\ active # {}
             /\ published' = [j \in Joints |-> IF "v" \in active THEN command[j].v ELSE "zero"]
    <3>1. \A j \in Joints : published'[j] = "target" => Writes(running, "v", j)
      BY <2>1 DEF Inv, Commanded
    <3> QED
      BY <1>1, <1>6, <2>1, <3>1 DEF Published, StaleOnlyWithoutFlags, Writes
  <2>2. CASE /\ ~("joint" \in made /\ config.published["joint"] > 0) \/ active = {}
             /\ published' = published
    <3>1. active # {} => \A j \in Joints : published[j] = "zero"
      BY <1>6, <2>2 DEF Inv, Published
    <3> QED
      BY <1>1, <2>2, <3>1 DEF Inv, Published, StaleOnlyWithoutFlags
  <2> QED
    BY <1>2, <2>1, <2>2
<1>8. Arrays' /\ Commanded' /\ StartedAreHeard'
  BY <1>1 DEF Inv, Arrays, Commanded, StartedAreHeard, Writes
<1>9. Staged' /\ Initialised'
  BY <1>1 DEF Inv, Staged, Prepared, Claimed, Loadable, Initialised, NoOutOfRange, Succeeds
<1> QED
  BY <1>5, <1>7, <1>8, <1>9 DEF Inv

\* Every step keeps the invariant.
LEMMA NextInv == Inv /\ [Next]_vars => Inv'
<1> SUFFICES ASSUME Inv, [Next]_vars PROVE Inv'
  OBVIOUS
<1>1. CASE \E start, stop \in SUBSET Controllers : PrepareSwitch(start, stop)
  BY <1>1, PrepareSwitchInv
<1>2. CASE Store
  BY <1>2, StoreInv
<1>3. CASE \E k \in made, t \in AllTopics : Callback(k, t)
  BY <1>3, CallbackInv
<1>4. CASE QueueEmpty \/ Read
  BY <1>4, ReadInv
<1>5. CASE \E quits \in SUBSET running, moving \in SUBSET Joints : Update(quits, moving)
  BY <1>5, UpdateInv
<1>6. CASE Write
  BY <1>6, WriteInv
<1>7. CASE \E t \in AllTopics : Unlabelled(t)
  BY <1>7, UnlabelledInv
<1>8. CASE UNCHANGED vars
  <2>1. /\ UNCHANGED <<running, client, starting, stopping, prepared, active, command, phase>>
        /\ UNCHANGED <<config, made, state, received, taken, warmup, missing, error, published,
                       thrown, begun>>
    BY <1>8 DEF vars, switchVars, clientVars, readVars
  <2>2. TypeOK'
    BY <2>1 DEF Inv, TypeOK, SwitchTypeOK, Places, AllTopics, Topics
  <2>3. Arrays' /\ Commanded' /\ StartedAreHeard'
    BY <2>1 DEF Inv, Arrays, Commanded, StartedAreHeard, Writes
  <2>4. Staged' /\ Published' /\ Initialised'
    BY <2>1 DEF Inv, Staged, Prepared, Claimed, Loadable, Published, StaleOnlyWithoutFlags, Initialised,
                NoOutOfRange, Succeeds, Writes
  <2> QED
    BY <2>2, <2>3, <2>4 DEF Inv
<1> QED
  BY <1>1, <1>2, <1>3, <1>4, <1>5, <1>6, <1>7, <1>8 DEF Next, LoopStep

THEOREM Invariance == Spec => []Inv
<1> QED
  BY InitInv, NextInv, PTL DEF Spec

-----------------------------------------------------------------------------
\* Every variable has its type.
THEOREM TypeCorrect == Spec => []TypeOK
<1>1. Inv => TypeOK
  BY DEF Inv
<1> QED
  BY <1>1, Invariance, PTL

\* With parameters that are as the assertions want them, no switch of hardware whose
\* doInit() succeeded reads past the end of a vector.  (claimed_resources.cpp, twists.)
THEOREM SwitchesInRange == Spec => []NoOutOfRange
<1>1. Inv => NoOutOfRange
  BY DEF Inv, Initialised
<1> QED
  BY <1>1, Invariance, PTL

\* What a controller that was started commands is published.  (doPrepareSwitch.)
THEOREM StartsAreHeard == Spec => []StartedAreHeard
<1>1. Inv => StartedAreHeard
  BY DEF Inv
<1> QED
  BY <1>1, Invariance, PTL

\* A speed that no running controller commands any more is the last that was published only
\* when no flag is left.  (write, exitStopping.)
THEOREM StopsArePublished == Spec => []StaleOnlyWithoutFlags
<1>1. Inv => StaleOnlyWithoutFlags
  BY DEF Inv, Published
<1> QED
  BY <1>1, Invariance, PTL

-----------------------------------------------------------------------------
(* The safety half of SilenceEndsTheLoop: a variant of the control loop.   *)

\* The counters are past their limits.
Due(miss, warm) == miss > MaxMissing /\ warm >= WarmLimit

\* What doRead() found ends the cycle, and the loop.
Alarmed ==
    /\ error => phase \in {"update", "write", "ended", "crashed"}
    /\ ~error => ~Due(missing, warmup)

\* The reads until a counter is at its limit, if it is before it; and those until it is
\* there again, when it wraps around on the way.
Ahead(n, limit) == IF n < limit THEN limit - n ELSE 0
Around(n, limit) == Width - n + limit

Larger(m, n) == IF m < n THEN n ELSE m

\* The reads until both counters are past their limits, if no message puts the count back:
\* one of them may wrap around while the other one is on its way, and then has to get to
\* its limit again.  The other one does not wrap around meanwhile.
ReadsFrom(miss, warm) ==
    LET limit == MaxMissing + 1
        n == Larger(Ahead(miss, limit), Ahead(warm, WarmLimit))
    IN  CASE warm + n >= Width -> Larger(Ahead(miss, limit), Around(warm, WarmLimit))
          [] warm + n < Width /\ miss + n >= Width ->
                 Larger(Ahead(warm, WarmLimit), Around(miss, limit))
          [] OTHER -> n

ReadsLeft == ReadsFrom(missing, warmup)

\* The steps of a cycle that are left until the next read, or, after an error, until the
\* loop ends.
StepsLeft == [update |-> 3, write |-> 2, callbacks |-> 1, read |-> 0, ended |-> 0,
              crashed |-> 0]

Distance == StepsLeft[phase] + (IF error THEN 0 ELSE 4 * ReadsLeft)

\* A step of the loop brings it closer to its end, and no other takes it further away.
ComesCloser ==
    IF phase' = phase THEN Distance' = Distance
    ELSE phase' \in {"ended", "crashed"} \/ Distance' < Distance

LEMMA Ranges ==
    /\ Width \in Nat /\ Width > 0
    /\ MaxMissing \in 0..(Width - 1)
    /\ WarmLimit \in 0..(Width - 1)
    /\ TypeOK => missing \in 0..(Width - 1) /\ warmup \in 0..(Width - 1)
    /\ \A n \in 0..(Width - 1) : Increased(n) = IF n + 1 = Width THEN 0 ELSE n + 1
<1>1. MaxMissing * WarmFactor \in Int
  BY TopicsAssumption
<1>2. WarmLimit \in 0..(Width - 1)
  BY <1>1, TopicsAssumption DEF WarmLimit
<1>3. \A n \in 0..(Width - 1) : Increased(n) = IF n + 1 = Width THEN 0 ELSE n + 1
  BY TopicsAssumption DEF Increased
<1> QED
  BY <1>2, <1>3, TopicsAssumption DEF TypeOK

\* Ahead of the end there is always a read left.
LEMMA Left ==
    ASSUME NEW miss \in 0..(Width - 1), NEW warm \in 0..(Width - 1), ~Due(miss, warm)
    PROVE  ReadsFrom(miss, warm) \in Nat \ {0}
BY Ranges DEF ReadsFrom, Due, Ahead, Around, Larger

\* A read after which an error is not due leaves fewer.
LEMMA FewerReads ==
    ASSUME WarmUpEnds, NEW miss \in 0..(Width - 1), NEW warm \in 0..(Width - 1),
           ~Due(miss, warm), ~Due(Increased(miss), Increased(warm))
    PROVE  ReadsFrom(Increased(miss), Increased(warm)) < ReadsFrom(miss, warm)
<1> DEFINE m == Increased(miss)
           w == Increased(warm)
<1>1. /\ m = IF miss + 1 = Width THEN 0 ELSE miss + 1
      /\ w = IF warm + 1 = Width THEN 0 ELSE warm + 1
  BY Ranges
<1> HIDE DEF m, w
<1>2. ~Due(m, w) => ReadsFrom(m, w) < ReadsFrom(miss, warm)
  <2> USE <1>1, Ranges DEF WarmUpEnds, ReadsFrom, Due, Ahead, Around, Larger
  <2>1. CASE miss <= MaxMissing /\ warm < WarmLimit
    BY <2>1, SMTT(60)
  <2>2. CASE miss <= MaxMissing /\ warm >= WarmLimit
    <3>1. CASE warm + 1 = Width
      BY <2>2, <3>1, SMTT(60)
    <3>2. CASE warm + 1 # Width
      BY <2>2, <3>2, SMTT(60)
    <3> QED
      BY <3>1, <3>2
  <2>3. CASE miss > MaxMissing /\ warm < WarmLimit
    <3>1. CASE miss + 1 = Width
      BY <2>3, <3>1, SMTT(60)
    <3>2. CASE miss + 1 # Width
      BY <2>3, <3>2, SMTT(60)
    <3> QED
      BY <3>1, <3>2
  <2> QED
    BY <2>1, <2>2, <2>3
<1> QED
  BY <1>2 DEF m, w

LEMMA AlarmedInit == Init => Alarmed
BY TopicsAssumption DEF Init, Alarmed, Due

LEMMA AlarmedStep == Inv /\ Alarmed /\ [Next]_vars => Alarmed'
<1> SUFFICES ASSUME Inv, Alarmed, [Next]_vars PROVE Alarmed'
  OBVIOUS
<1> USE DEF Alarmed
<1>a. UNCHANGED <<missing, warmup>> => Due(missing, warmup)' = Due(missing, warmup)
  BY DEF Due, WarmLimit
<1>1. CASE \E start, stop \in SUBSET Controllers : PrepareSwitch(start, stop)
  BY <1>a, <1>1 DEF PrepareSwitch, Ask, readVars
<1>2. CASE Store
  BY <1>a, <1>2 DEF Store, StoreFlag, readVars
<1>3. CASE \E k \in made, t \in AllTopics : Callback(k, t)
  BY <1>a, <1>3 DEF Callback, switchVars
<1>4. CASE QueueEmpty
  BY <1>a, <1>4 DEF QueueEmpty, readVars
<1>5. CASE Read
  <2>1. phase' = "update" /\ error' = Due(missing', warmup')
    BY <1>5 DEF Read, Due
  <2>2. Due(missing, warmup)' = Due(missing', warmup')
    BY DEF Due, WarmLimit
  <2> QED
    BY <2>1, <2>2
<1>6. CASE \E quits \in SUBSET running, moving \in SUBSET Joints : Update(quits, moving)
  BY <1>a, <1>6 DEF Update, readVars
<1>7. CASE Write
  BY <1>a, <1>7 DEF Write, readVars
<1>8. CASE \E t \in AllTopics : Unlabelled(t)
  BY <1>a, <1>8 DEF Unlabelled, readVars
<1>9. CASE UNCHANGED vars
  BY <1>a, <1>9 DEF vars, switchVars, readVars
<1> QED
  BY <1>1, <1>2, <1>3, <1>4, <1>5, <1>6, <1>7, <1>8, <1>9 DEF Next, LoopStep

\* A read that misses a topic.
LEMMA SilentRead ==
    ASSUME WarmUpEnds, Inv, Alarmed, Read, received # AllTopics
    PROVE  ComesCloser
<1>1. /\ phase = "read" /\ phase' = "update" /\ ~error
      /\ warmup' = Increased(warmup) /\ missing' = Increased(missing)
      /\ Inv' /\ Alarmed'
  <2>1. Inv' /\ Alarmed'
    BY ReadInv, AlarmedStep DEF Next, LoopStep
  <2> QED
    BY <2>1 DEF Read, Alarmed
<1>2. /\ missing \in 0..(Width - 1) /\ missing' \in 0..(Width - 1)
      /\ warmup \in 0..(Width - 1) /\ warmup' \in 0..(Width - 1)
  BY <1>1 DEF Inv, TypeOK
<1>3. /\ ReadsLeft' = ReadsFrom(missing', warmup')
      /\ ~Due(missing, warmup)
      /\ ~error' => ~Due(missing', warmup')
  BY <1>1 DEF ReadsLeft, ReadsFrom, Ahead, Around, Larger, Alarmed, Due, WarmLimit
<1>4. ReadsLeft \in Nat \ {0}
  BY <1>2, <1>3, Left DEF ReadsLeft
<1>5. Distance = 4 * ReadsLeft
  BY <1>1, <1>4 DEF Distance, StepsLeft
<1>6. CASE error'
  <2>1. Distance' = 3
    BY <1>1, <1>6 DEF Distance, StepsLeft
  <2> QED
    BY <1>1, <1>4, <1>5, <2>1 DEF ComesCloser
<1>7. CASE ~error'
  <2>1. ReadsLeft' \in Nat \ {0}
    BY <1>2, <1>3, <1>7, Left
  <2>2. Distance' = 3 + 4 * ReadsLeft'
    BY <1>1, <1>7 DEF Distance, StepsLeft
  <2>3. ReadsLeft' < ReadsLeft
    BY <1>1, <1>2, <1>3, <1>7, FewerReads DEF ReadsLeft
  <2>4. \A m, n \in Nat : m < n => 3 + 4 * m < 4 * n
    OBVIOUS
  <2>5. Distance' < Distance
    BY <1>4, <1>5, <2>1, <2>2, <2>3, <2>4
  <2> QED
    BY <1>1, <2>5 DEF ComesCloser
<1> QED
  BY <1>6, <1>7

\* The other steps.
LEMMA SilentStep ==
    ASSUME WarmUpEnds, Inv, Alarmed, Next, NEW t \in AllTopics, t \notin received
    PROVE  ComesCloser
<1> DEFINE Quiet == UNCHANGED <<missing, warmup, error>>
<1>1. Quiet => UNCHANGED ReadsLeft
  BY DEF ReadsLeft, ReadsFrom, Ahead, Around, Larger, WarmLimit
<1>2. Quiet /\ phase' = phase => ComesCloser
  BY <1>1 DEF ComesCloser, Distance
<1>3. ~error => ReadsLeft \in Nat
  BY Left, Ranges DEF ReadsLeft, Alarmed, Inv
<1>4. CASE \E start, stop \in SUBSET Controllers : PrepareSwitch(start, stop)
  BY <1>2, <1>4 DEF PrepareSwitch, Ask, readVars
<1>5. CASE Store
  BY <1>2, <1>5 DEF Store, StoreFlag, readVars
<1>6. CASE \E k \in made, u \in AllTopics : Callback(k, u)
  BY <1>2, <1>6 DEF Callback, switchVars
<1>7. CASE QueueEmpty
  <2>1. phase = "callbacks" /\ phase' = "read" /\ Quiet
    BY <1>7 DEF QueueEmpty, readVars
  <2> QED
    BY <1>1, <1>3, <2>1 DEF ComesCloser, Distance, StepsLeft
<1>8. CASE Read
  BY <1>8, SilentRead
<1>9. CASE \E quits \in SUBSET running, moving \in SUBSET Joints : Update(quits, moving)
  <2>1. phase = "update" /\ phase' = "write" /\ Quiet
    BY <1>9 DEF Update, readVars
  <2> QED
    BY <1>1, <1>3, <2>1 DEF ComesCloser, Distance, StepsLeft
<1>10. CASE Write
  <2>1. /\ phase = "write" /\ Quiet
        /\ phase' = IF error THEN "ended" ELSE "callbacks"
    BY <1>10 DEF Write, readVars
  <2> QED
    BY <1>1, <1>3, <2>1 DEF ComesCloser, Distance, StepsLeft
<1>11. CASE \E u \in AllTopics : Unlabelled(u)
  BY <1>11 DEF Unlabelled, ComesCloser
<1> QED
  BY <1>4, <1>5, <1>6, <1>7, <1>8, <1>9, <1>10, <1>11 DEF Next, LoopStep

\* As long as no usable message comes on a topic, every step of the loop brings it closer
\* to its end, whatever comes on the others, though m_warmup, its limit and
\* m_missing_messages wrap around: if the two limits are together below the width.
\* (doRead, callback, run.)
THEOREM SilenceCounts ==
    ASSUME WarmUpEnds
    PROVE  Spec => /\ [](Distance \in Nat)
                   /\ [][AllTopics \subseteq received \/ ComesCloser]_vars
<1>1. Inv /\ Alarmed => Distance \in Nat
  <2> SUFFICES ASSUME Inv, Alarmed PROVE Distance \in Nat
    OBVIOUS
  <2>1. StepsLeft[phase] \in 0..3
    BY DEF StepsLeft, Inv, TypeOK
  <2>2. ~error => ReadsLeft \in Nat
    BY Left, Ranges DEF ReadsLeft, Alarmed, Inv
  <2> QED
    BY <2>1, <2>2 DEF Distance
<1>2. Inv /\ Alarmed /\ [Next]_vars => [AllTopics \subseteq received \/ ComesCloser]_vars
  BY SilentStep
<1> QED
  BY <1>1, <1>2, Invariance, AlarmedInit, AlarmedStep, PTL DEF Spec

=============================================================================
