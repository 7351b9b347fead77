------------------------------- MODULE MCNode -------------------------------
EXTENDS SensorNode
=============================================================================
