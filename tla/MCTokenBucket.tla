---------------------------- MODULE MCTokenBucket ----------------------------
EXTENDS TokenBucket, TLC

CONSTANTS a, b

MCClients == {a, b}
MCSkew == a :> 0 @@ b :> 1
=============================================================================
