------------------------------ MODULE MCDmLink -------------------------------
(* One or two messages to one companion; DmLink's constants for TLC. *)
EXTENDS DmLink

CONSTANTS m1, m2, p1

ToOne == [m \in Msgs |-> p1]

\* Different texts, or the same one; in the same second, or one second later.
OwnText   == [m \in Msgs |-> IF m = m1 THEN "hi" ELSE "yo"]
SameText  == [m \in Msgs |-> "hi"]
OneSecond == [m \in Msgs |-> 1]
OwnSecond == [m \in Msgs |-> IF m = m1 THEN 1 ELSE 2]
==============================================================================
