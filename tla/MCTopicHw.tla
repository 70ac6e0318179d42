-------------------------------- MODULE MCTopicHw -------------------------------
(* Two joints: a position controller on the first, a controller of the     *)
(* speed and the effort on the second.                                     *)
EXTENDS TopicHw

CONSTANTS j1, j2, p1, ve2

MCClaims == [c \in Controllers |->
    CASE c = p1 -> [j \in Joints |-> IF j = j1 THEN {"Position"} ELSE {}]
      [] c = ve2 -> [j \in Joints |-> IF j = j2 THEN {"VelEff"} ELSE {}]]
=============================================================================
