---------------------------- MODULE MCAuthSession ----------------------------
(* Instances of AuthSession for TLC. *)
EXTENDS AuthSession

CONSTANTS r1, r2

MCRequests == {r1, r2}

=============================================================================
