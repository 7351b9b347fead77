------------------------------ MODULE MCLogger ------------------------------
EXTENDS RemoteLogger
=============================================================================
