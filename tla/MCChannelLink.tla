---------------------------- MODULE MCChannelLink ----------------------------
(* One or two messages to a channel; ChannelLink's constants for TLC. *)
EXTENDS ChannelLink, TLC

CONSTANTS m1, m2

\* Different texts, sent in the same second.
OwnText   == [m \in Msgs |-> m]
OneSecond == [m \in Msgs |-> 0]

\* The messages are told apart by nothing else.
AnyMessage == Permutations(Msgs)
==============================================================================
