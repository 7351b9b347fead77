----------------------------- MODULE MCManager ------------------------------
EXTENDS WifiManager
=============================================================================
