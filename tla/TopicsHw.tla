--------------------------------- MODULE TopicsHw --------------------------------
(***************************************************************************)
(* TopicsRobotHW (cnr_topics_robot_hw.cpp) and its claimed resources       *)
(* (claimed_resources.cpp, claimed_resources_impl.h): joints, analog       *)
(* channels, a force sensor, a pose and twists, each with topics of its    *)
(* own, in one piece of hardware.                                          *)
(*                                                                         *)
(* A value is abstracted to where it comes from: Unset, the zero of the    *)
(* constructor, or the topic and the name of the message that brought it.  *)
(* Of the commands only the speeds of the joints are told apart: the       *)
(* positions and the efforts are written and published like them, and the  *)
(* other resources publish their outputs in every cycle.  A topic that is  *)
(* subscribed for many names has its callback called for each of them; the *)
(* last call counts.                                                       *)
(*                                                                         *)
(* The driver gives the node handle of the hardware its own queue and      *)
(* empties it before doRead(): the callbacks run in the control loop, and  *)
(* a subscriber keeps one message.  doPrepareSwitch() and                  *)
(* doCheckForConflict() run in the thread of the client.                   *)
(***************************************************************************)
EXTENDS HardwareSwitch, Sequences, SequencesExt

CONSTANTS
    Configs,       \* the parameters the hardware may find on the parameter server
    Needs,         \* Needs[c]: the resource controller c claims
    MaxMissing,    \* maximum_missing_cycles
    WarmFactor,    \* 1000000 in the code
    Width,         \* 2^32: m_warmup and m_missing_messages are unsigned ints
    Unset          \* the value of the constructor

Kinds == {"joint", "analog", "wrench", "pose", "twist"}

(***************************************************************************)
(* A configuration says which resources there are, which of them miss a    *)
(* parameter, and for each resource its names (of the joints, the          *)
(* channels, the sensor, the frames), its subscribed topics, of which the  *)
(* i-th is that of the i-th name, and the number of its published topics.  *)
(***************************************************************************)
ASSUME TopicsAssumption ==
    /\ \A g \in Configs :
         /\ g.resources \subseteq Kinds
         /\ g.lacking \subseteq g.resources
         /\ \A k \in g.resources :
              /\ k \in {"wrench", "pose"} => Len(g.names[k]) = 1
              /\ Len(g.names[k]) \in Nat
              /\ Len(g.subscribed[k]) \in Nat
              /\ g.published[k] \in Nat
    /\ Needs \in [Controllers -> Kinds]
    /\ Width \in Nat \ {0}
    /\ MaxMissing \in 0..(Width - 1)
    /\ WarmFactor \in Nat

VARIABLES
    config,        \* the configuration of this hardware
    made,          \* the claimed resources that exist: the pointers that are not null
    state,         \* m_state, or m_pos and the like, of each resource
    received,      \* m_topics_subscribed: the topics a usable message came from
    warmup,        \* m_warmup
    missing,       \* m_missing_messages
    error,         \* doRead() failed: the status of the hardware is ERROR
    published,     \* the speeds of the last message of the joint resource
    thrown,        \* prepareSwitch() threw std::out_of_range
    taken,         \* the topics whose message was taken in this cycle
    begun          \* history: the start list of the last switch

readVars == <<state, received, taken, warmup, missing, error>>
vars == <<switchVars, config, made, readVars, published, thrown, begun>>

Topics(k) == Range(config.subscribed[k])
AllTopics == UNION {Topics(k) : k \in config.resources}

\* The places of a resource: a twist has one for each subscribed topic, the others for
\* each name.
Places(g, k) == IF k = "twist" THEN DOMAIN g.subscribed[k] ELSE DOMAIN g.names[k]

TypeOK ==
    /\ SwitchTypeOK
    /\ config \in Configs
    /\ made \subseteq config.resources
    /\ DOMAIN state = made
    /\ \A k \in made : DOMAIN state[k] = Places(config, k)
    /\ received \subseteq AllTopics
    /\ warmup \in 0..(Width - 1)
    /\ missing \in 0..(Width - 1)
    /\ error \in BOOLEAN
    /\ published \in [Joints -> {"zero", "target"}]
    /\ thrown \in BOOLEAN
    /\ taken \subseteq AllTopics
    /\ begun \subseteq Controllers
    /\ phase \in {"callbacks", "read", "update", "write", "ended", "crashed"}

-----------------------------------------------------------------------------
(* doInit() *)

\* The order of the INIT_RESOURCE lines.
Order == <<"joint", "analog", "wrench", "pose", "twist">>

\* A parameter without which doInit() returns before any resource is made.
Refused(g) == g.lacking # {} \/ g.resources = {}

\* What the constructor reads past the end of: the names of the topics, and for a twist
\* the frames of the published topics.
ConstructorThrows(g, k) ==
    \/ Len(g.subscribed[k]) > Len(g.names[k])
    \/ k = "twist" /\ g.published[k] > Len(g.names[k])

(* Mutant: the handles of the twists are registered without looking at the outputs. *)
InitNeverThrows(g, k) == FALSE

\* What init() reads past the end of: a twist has a handle for each subscribed topic,
\* in vectors that are as long as the published topics.
InitThrows(g, k) == k = "twist" /\ Len(g.subscribed[k]) > g.published[k]

\* The resources made, in order, until one of them throws: that of a constructor that
\* throws stays null, that of an init() that throws does not.
Made(g) ==
    {k \in g.resources :
        /\ ~ConstructorThrows(g, k)
        /\ \A i, n \in 1..Len(Order) :
             i < n /\ Order[n] = k /\ Order[i] \in g.resources
             => ~ConstructorThrows(g, Order[i]) /\ ~InitThrows(g, Order[i])}

\* doInit() returns true.
Succeeds(g) ==
    /\ ~Refused(g)
    /\ \A k \in g.resources : ~ConstructorThrows(g, k) /\ ~InitThrows(g, k)

\* The driver runs the control loop only if doInit() succeeds.
Init ==
    /\ SwitchInit
    /\ config \in Configs
    /\ made = IF Refused(config) THEN {} ELSE Made(config)
    /\ phase = IF Succeeds(config) THEN "callbacks" ELSE "ended"
    /\ state = [k \in made |-> [i \in Places(config, k) |-> Unset]]
    /\ command = [j \in Joints |-> [p |-> "init", v |-> "zero"]]
    /\ received = {}
    /\ warmup = 0
    /\ missing = 0
    /\ error = FALSE
    /\ published = [j \in Joints |-> "zero"]
    /\ thrown = FALSE
    /\ taken = {}
    /\ begun = {}

-----------------------------------------------------------------------------
(* The switch *)

Offered == {"Position", "Velocity", "Effort", "VelEff", "PosVelEff"}

\* checkForConflict() of a claimed resource: two controllers claim the same name.
Conflicting(k, list) ==
    \E c, d \in list :
        /\ c # d
        /\ Needs[c] = k
        /\ Needs[d] = k
        /\ k = "joint" => \E j \in Joints : Claims[c][j] # {} /\ Claims[d][j] # {}

\* doCheckForConflict() reports the resources in conflict, and returns false.
CheckForConflict(list) == FALSE

\* A controller can be loaded when the hardware has registered its interfaces, with handles
\* for its joints.
Loadable(c) ==
    /\ Needs[c] \in made
    /\ \A j \in Joints :
         /\ Claims[c][j] \subseteq Offered
         /\ Claims[c][j] # {} => j \in Range(config.names["joint"])

FlagsOf == [Fields EXCEPT !.PosVel = {}]

(* Mutant: what stops loses its flags after what starts has got them. *)
PreparedInWrongOrder(start, stop) ==
    UNION {FlagsOf[i] : i \in Claimed(start)} \ UNION {FlagsOf[i] : i \in Claimed(stop)}

\* prepareSwitch() of the joints: the flags of the start list, and no other.
Prepared(start, stop) == UNION {FlagsOf[i] : i \in Claimed(start)}

PrepareSwitch(start, stop) ==
    /\ phase # "crashed"
    /\ \A c \in start : Loadable(c)
    /\ ~CheckForConflict(After(start, stop))
    /\ Ask(start, stop, Prepared(start, stop))
    /\ UNCHANGED <<config, made, readVars, published, thrown, begun>>

\* prepareSwitch() of the twists, the last one, reads a flag for each frame: there are
\* as many as subscribed topics, and as many as published ones.
SwitchThrows ==
    /\ "twist" \in made
    /\ \/ Len(config.names["twist"]) > Len(config.subscribed["twist"])
       \/ Len(config.names["twist"]) > config.published["twist"]

\* The other resources store flags nobody reads.
Store ==
    /\ phase # "crashed"
    /\ IF client = "e" /\ SwitchThrows
       THEN /\ active' = (active \ {"e"}) \union (prepared \intersect {"e"})
            /\ client' = "idle"
            /\ starting' = {} /\ stopping' = {} /\ prepared' = {}
            /\ thrown' = TRUE
            /\ UNCHANGED <<running, command, phase>>
       ELSE StoreFlag /\ UNCHANGED thrown
    /\ UNCHANGED <<config, made, readVars, published, begun>>

-----------------------------------------------------------------------------
(* The callbacks *)

(* Mutant: a name gets the place it has in its topic. *)
TablesPerTopic(k) ==
    FoldLeft(LAMBDA tables, i :
                [tables EXCEPT ![config.subscribed[k][i]] =
                    [idxes |-> Append(@.idxes, Len(@.idxes) + 1),
                     names |-> Append(@.names, config.names[k][i])]],
             [t \in Topics(k) |-> [idxes |-> <<>>, names |-> <<>>]],
             [i \in DOMAIN config.subscribed[k] |-> i])

\* The tables that the constructor fills: for each topic the places of its names in the
\* resource (m_idxes_ax_map), and the names (m_resource_names_map).
Tables(k) ==
    FoldLeft(LAMBDA tables, i :
                [tables EXCEPT ![config.subscribed[k][i]] =
                    [idxes |-> Append(@.idxes, i),
                     names |-> Append(@.names, config.names[k][i])]],
             [t \in Topics(k) |-> [idxes |-> <<>>, names |-> <<>>]],
             [i \in DOMAIN config.subscribed[k] |-> i])

\* A message of joints or channels, of which the values have been brought into the order
\* of the names in the table (permutationName, external): the n-th value goes to the n-th
\* place of the other table.
ToPlaces(k, t) ==
    LET table == Tables(k)[t]
        entries(i) == {n \in DOMAIN table.idxes : table.idxes[n] = i}
    IN  [i \in DOMAIN state[k] |->
            IF entries(i) # {} THEN <<t, table.names[CHOOSE n \in entries(i) : TRUE]>>
            ELSE state[k][i]]

\* A sensor and a pose have one place.
ToPlace(k, t) == [i \in DOMAIN state[k] |-> <<t, config.names[k][1]>>]

\* A twist goes wherever its frame is, whatever topic it came on: the i-th place has the
\* i-th frame.
ToFrame(t, frame) ==
    [i \in DOMAIN state["twist"] |->
        IF config.names["twist"][i] = frame THEN <<t, frame>> ELSE state["twist"][i]]

\* callback() of joints and channels with a message that is too short, or, of channels,
\* has not as many values as there are channels, or has other names.  The other resources
\* look at nothing.
Malformed(k, t) ==
    /\ k \in {"joint", "analog"}
    /\ received' = received \ {t}
    /\ UNCHANGED state

\* callback() of resource k with a message that can be used: of twists, each one, even
\* of a frame that is not there.
Usable(k, t) ==
    /\ received' = received \union {t}
    /\ \/ /\ k \in {"joint", "analog"}
          /\ state' = [state EXCEPT ![k] = ToPlaces(k, t)]
       \/ /\ k \in {"wrench", "pose"}
          /\ state' = [state EXCEPT ![k] = ToPlace(k, t)]
       \/ /\ k = "twist"
          /\ \E frame \in Range(config.names[k]) \union {Unset} :
                state' = [state EXCEPT ![k] = ToFrame(t, frame)]

Callback(k, t) ==
    /\ phase = "callbacks"
    /\ t \in Topics(k) \ taken
    /\ taken' = taken \union {t}
    /\ Usable(k, t) \/ Malformed(k, t)
    /\ UNCHANGED <<switchVars, config, made, warmup, missing, error, published, thrown, begun>>

\* The callback of the channels reads a label for each value, which nobody has counted.
\* What is past the end is a name or none (Usable, Malformed), or the process is gone.
Unlabelled(t) ==
    /\ phase = "callbacks"
    /\ "analog" \in made
    /\ t \in Topics("analog") \ taken
    /\ phase' = "crashed"
    /\ UNCHANGED <<running, clientVars, command, config, made, readVars, published, thrown,
                   begun>>

\* The queue is empty.
QueueEmpty ==
    /\ phase = "callbacks"
    /\ phase' = "read"
    /\ UNCHANGED <<running, clientVars, command, config, made, readVars, published, thrown,
                   begun>>

-----------------------------------------------------------------------------
(* The control loop *)

\* The limit of the warm-up, an unsigned product.
WarmLimit == (MaxMissing * WarmFactor) % Width

\* A count of an unsigned int.
Increased(n) == (n + 1) % Width

(* Mutant: a topic that was received once counts for ever. *)
ReadKeepsReceived ==
    /\ phase = "read"
    /\ phase' = "update"
    /\ warmup' = Increased(warmup)
    /\ missing' = IF received = AllTopics THEN 0 ELSE Increased(missing)
    /\ taken' = {}
    /\ error' = (warmup' >= WarmLimit /\ missing' > MaxMissing)
    /\ UNCHANGED <<running, clientVars, command, config, made, state, received, published,
                   thrown, begun>>

\* doRead(), of hardware that is RUNNING, as it is inside the control loop.
Read ==
    /\ phase = "read"
    /\ phase' = "update"
    /\ warmup' = Increased(warmup)
    /\ missing' = IF received = AllTopics THEN 0 ELSE Increased(missing)
    /\ received' = {}
    /\ taken' = {}
    /\ error' = (warmup' >= WarmLimit /\ missing' > MaxMissing)
    /\ UNCHANGED <<running, clientVars, command, config, made, state, published, thrown, begun>>

\* The controllers ask for speeds and hold with none; positions are not told apart.
Asked(moving) ==
    [j \in Joints |-> [p |-> "init", v |-> IF j \in moving THEN "target" ELSE "zero"]]
Rest == Asked({})

Update(quits, moving) ==
    /\ phase = "update"
    /\ phase' = "write"
    /\ Control(quits, Asked(moving), Rest)
    /\ begun' = IF client = "switch" THEN starting ELSE begun
    /\ UNCHANGED <<config, made, readVars, published, thrown>>

\* write() of the joints: one message with all of them, zeros where no interface of the
\* kind is active; none when nothing is.
WriteJoints ==
    published' =
        IF "joint" \in made /\ config.published["joint"] > 0 /\ active # {}
        THEN [j \in Joints |-> IF "v" \in active THEN command[j].v ELSE "zero"]
        ELSE published

\* doWrite(), and the end of the loop when the status is ERROR.
Write ==
    /\ phase = "write"
    /\ phase' = IF error THEN "ended" ELSE "callbacks"
    /\ WriteJoints
    /\ UNCHANGED <<running, clientVars, command, config, made, readVars, thrown, begun>>

LoopStep ==
    \/ QueueEmpty
    \/ Read
    \/ \E quits \in SUBSET running, moving \in SUBSET Joints : Update(quits, moving)
    \/ Write

Next ==
    \/ \E start, stop \in SUBSET Controllers : PrepareSwitch(start, stop)
    \/ Store
    \/ \E k \in made, t \in AllTopics : Callback(k, t)
    \/ \E t \in AllTopics : Unlabelled(t)
    \/ LoopStep

\* The control loop is a thread of its own.
Fairness == WF_vars(LoopStep)

Spec == Init /\ [][Next]_vars /\ Fairness

-----------------------------------------------------------------------------
(* Properties *)

\* What the assertions of the constructors say of the parameters.  They are compiled
\* out of a Release build, the default.
Asserted(g) ==
    /\ "wrench" \in g.resources => Len(g.subscribed["wrench"]) = 1
    /\ "twist" \in g.resources => Len(g.subscribed["twist"]) = Len(g.names["twist"])

\* The vectors a twist resource is made of have three different lengths.  If doInit()
\* succeeds, no switch reads past the end of one, for parameters that are as the
\* assertions want them.
NoOutOfRange == thrown => ~Asserted(config)

\* A name is fed by messages that are its own, and a joint or a channel by its own topic,
\* though a topic may be subscribed for many names, with those of other topics in between,
\* and the callback finds the places in one table and the names in another.
OwnTopicFeeds ==
    \A k \in made : \A i \in DOMAIN state[k] :
        state[k][i] # Unset =>
            /\ state[k][i][2] = config.names[k][i]
            /\ k # "twist" => state[k][i][1] = config.subscribed[k][i]

\* Until the next switch, every command of a controller that was started is published:
\* the three flags, stored one by one while the loop goes on, are those of the start
\* list when the switch takes place.
StartedAreHeard ==
    client = "idle" /\ ~thrown =>
        \A c \in begun \intersect running, j \in Joints : FieldsAt(c, j) \subseteq active

\* A speed stays published after the controllers that command it only when no flag is
\* left: then write() returns and the last message is the last, with the speed of the
\* controller that was stopped.  As long as a flag is left, what controllers leave when
\* they stop is published.  (A switch that threw leaves flags without controllers.)
StaleOnlyWithoutFlags ==
    phase = "callbacks" /\ client = "idle" /\ ~thrown =>
        \A j \in Joints :
            published[j] = "target" => Writes(running, "v", j) \/ active = {}

\* The counters, which wrap around, are past their limits at the same time at some point
\* of every silence: the calls for which one of them is not are fewer than their values.
WarmUpEnds == MaxMissing + WarmLimit < Width - 1

\* A topic without usable messages ends the control loop, or a message without labels the
\* process, though the two counters wrap around, and the limit of the warm-up is a product
\* that may.
SilenceEndsTheLoop ==
    WarmUpEnds =>
        \A t \in UNION {UNION {Range(g.subscribed[k]) : k \in g.resources} : g \in Configs} :
            t \in AllTopics =>
                \/ []<>(t \in taken \intersect received)
                \/ <>(phase \in {"ended", "crashed"})

\* The README of the package: "A joint can be used only by a controller."
JointsExclusive == ~Conflicting("joint", running)

=============================================================================
