----------------------------- MODULE MCGateway ------------------------------
EXTENDS Gateway, TLC
=============================================================================
