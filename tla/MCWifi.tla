------------------------------- MODULE MCWifi -------------------------------
EXTENDS WifiController
=============================================================================
