---------------------------- MODULE MCTopicCheck ----------------------------
(* Values of the constants for TLC. *)
EXTENDS TopicCheck

CONSTANTS b1, b2

MCLists == {<<b1, Blank, b2, b1>>, <<b1>>, <<Blank>>}
=============================================================================
