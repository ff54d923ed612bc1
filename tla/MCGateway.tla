------------------------------ MODULE MCGateway ------------------------------
EXTENDS Gateway

MCUpstreamStatuses == {101, 200, 500}
=============================================================================
