------------------------------- MODULE MCTopicsHw -------------------------------
(* Hardware with three joints on two topics, of which one brings the first *)
(* and the last; with two joints without feedback; with a joint and        *)
(* channels; with a sensor and a pose; with twists whose topics and frames *)
(* fit or do not; and parameters that doInit() refuses.  Of the three      *)
(* joints one is for a controller.                                         *)
EXTENDS TopicsHw

CONSTANTS j1, j2, j3, j4, pve1, v1, v2, an

MCClaims == [c \in Controllers |->
    CASE c = pve1 -> [j \in Joints |-> IF j = j1 THEN {"PosVelEff"} ELSE {}]
      [] c = v1 -> [j \in Joints |-> IF j = j1 THEN {"Velocity"} ELSE {}]
      [] c = v2 -> [j \in Joints |-> IF j = j2 THEN {"Velocity"} ELSE {}]
      [] c = an -> [j \in Joints |-> {}]]

MCNeeds == [c \in Controllers |-> IF c = an THEN "analog" ELSE "joint"]

None == [k \in Kinds |-> <<>>]

ThreeJoints == [resources |-> {"joint"}, lacking |-> {},
              names |-> [None EXCEPT !["joint"] = <<j1, j3, j4>>],
              subscribed |-> [None EXCEPT !["joint"] = <<"A", "B", "A">>],
              published |-> [k \in Kinds |-> 1]]

TwoJoints == [resources |-> {"joint"}, lacking |-> {},
              names |-> [None EXCEPT !["joint"] = <<j1, j2>>],
              subscribed |-> None,
              published |-> [k \in Kinds |-> 1]]

JointAndChannels == [resources |-> {"joint", "analog"}, lacking |-> {},
              names |-> [None EXCEPT !["joint"] = <<j1>>, !["analog"] = <<"c1", "c2">>],
              subscribed |-> [None EXCEPT !["analog"] = <<"B">>],
              published |-> [k \in Kinds |-> 1]]

Twists(topics, n) ==
             [resources |-> {"analog", "twist"}, lacking |-> {},
              names |-> [None EXCEPT !["analog"] = <<"c1">>, !["twist"] = <<"f1", "f2">>],
              subscribed |-> [None EXCEPT !["twist"] = topics],
              published |-> [k \in Kinds |-> n]]

Sensors(topics, absent) ==
             [resources |-> {"analog", "wrench", "pose"}, lacking |-> absent,
              names |-> [None EXCEPT !["analog"] = <<"c1">>, !["wrench"] = <<"s">>,
                                     !["pose"] = <<"f">>],
              subscribed |-> [None EXCEPT !["wrench"] = topics, !["pose"] = <<"B">>],
              published |-> [k \in Kinds |-> 1]]

MCConfigs ==
    {ThreeJoints, TwoJoints, JointAndChannels, Sensors(<<"A">>, {}),
     Sensors(<<"A", "C">>, {}), Sensors(<<"A">>, {"wrench"})}
        \union {Twists(topics, n) : topics \in {<<"A">>, <<"A", "B">>}, n \in 1..3}
=============================================================================
