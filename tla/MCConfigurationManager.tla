----------------------- MODULE MCConfigurationManager -----------------------
(* Two pieces of hardware; a configuration on the first, one on both, and  *)
(* one on the second, with a controller the first two share.               *)
EXTENDS ConfigurationManager, TLC

CONSTANTS h1, h2, a, b

FirstOnly == [h \in {h1} |-> {a}]
Both == [h \in {h1, h2} |-> IF h = h1 THEN {a} ELSE {b}]
SecondOnly == [h \in {h2} |-> {b}]

MCDefs == {FirstOnly, Both}
MCDefs3 == {FirstOnly, Both, SecondOnly}
=============================================================================
