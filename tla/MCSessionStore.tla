--------------------------- MODULE MCSessionStore ---------------------------
(* Instances of SessionStore for TLC. *)
EXTENDS SessionStore

MCIds == 1..3
MCLimitTwo == [c \in Clients |-> 2]

=============================================================================
