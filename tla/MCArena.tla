------------------------------ MODULE MCArena -------------------------------
EXTENDS Arena
=============================================================================
