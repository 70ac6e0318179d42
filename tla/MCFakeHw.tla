-------------------------------- MODULE MCFakeHw --------------------------------
(* Two joints: a position controller on each, a velocity controller on the *)
(* second, and a controller that commands both of them in full.            *)
EXTENDS FakeHw

CONSTANTS j1, j2, p1, p2, v2, pve

MCClaims == [c \in Controllers |->
    CASE c = p1 -> [j \in Joints |-> IF j = j1 THEN {"Position"} ELSE {}]
      [] c = p2 -> [j \in Joints |-> IF j = j2 THEN {"Position"} ELSE {}]
      [] c = v2 -> [j \in Joints |-> IF j = j2 THEN {"Velocity"} ELSE {}]
      [] c = pve -> [j \in Joints |-> {"PosVelEff"}]]

MCSpeeds == {-1, 0, 1}
=============================================================================
