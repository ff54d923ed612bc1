----------------------- MODULE MCSessionStoreHistory -----------------------
(* An instance of SessionStoreHistory for TLC. *)
EXTENDS SessionStoreHistory

MCIds == 1..2
MCLimitTwo == [c \in Clients |-> 2]

=============================================================================
