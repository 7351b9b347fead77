------------------------------ MODULE MCFrames ------------------------------
\* CExceptionFrames with a slot for each task, and with the slot that all the
\* tasks share by default.
EXTENDS CExceptionFrames, TLC

CONSTANTS app, event

OwnSlot == app :> 0 @@ event :> 1
SharedSlot == app :> 0 @@ event :> 0
=============================================================================
