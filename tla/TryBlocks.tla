----------------------------- MODULE TryBlocks ------------------------------
(***************************************************************************)
(* What CException promises a task, whatever its other tasks do: blocks    *)
(* are opened and closed like brackets, an error thrown inside a block     *)
(* closes the innermost one, and the Catch of that block, and no other,    *)
(* gets that error.  The chain of frames and the slot are out of sight.    *)
(***************************************************************************)
EXTENDS Naturals

CONSTANTS
    Tasks,        \* the tasks that use Try
    Exceptions,   \* error codes that are thrown
    NoException   \* no error code

VARIABLES
    open,     \* how many blocks each task has open
    thrown,   \* the error that is on its way in each task
    caught    \* the error that a Catch of each task has been given

vars == <<open, thrown, caught>>

Init ==
    /\ open = [t \in Tasks |-> 0]
    /\ thrown = [t \in Tasks |-> NoException]
    /\ caught = [t \in Tasks |-> NoException]

\* The task runs: no error is on its way to a Catch or waits in one.
Runs(t) == thrown[t] = NoException /\ caught[t] = NoException

Open(t) == /\ Runs(t)
           /\ open' = [open EXCEPT ![t] = @ + 1]
           /\ UNCHANGED <<thrown, caught>>

End(t) == /\ Runs(t)
          /\ open[t] > 0
          /\ open' = [open EXCEPT ![t] = @ - 1]
          /\ UNCHANGED <<thrown, caught>>

ThrowError(t, e) == /\ Runs(t)
                    /\ thrown' = [thrown EXCEPT ![t] = e]
                    /\ UNCHANGED <<open, caught>>

\* The innermost block is closed with what was thrown in it.
CatchError(t) ==
    /\ thrown[t] # NoException /\ open[t] > 0
    /\ open' = [open EXCEPT ![t] = @ - 1]
    /\ caught' = [caught EXCEPT ![t] = thrown[t]]
    /\ thrown' = [thrown EXCEPT ![t] = NoException]

\* The body of the Catch begins; it may throw again.
HandleError(t) ==
    /\ caught[t] # NoException
    /\ caught' = [caught EXCEPT ![t] = NoException]
    /\ UNCHANGED <<open, thrown>>

\* Outside all blocks Throw does nothing.
Ignore(t) ==
    /\ thrown[t] # NoException /\ open[t] = 0
    /\ thrown' = [thrown EXCEPT ![t] = NoException]
    /\ UNCHANGED <<open, caught>>

Step(t) ==
    \/ Open(t) \/ End(t) \/ CatchError(t) \/ HandleError(t) \/ Ignore(t)
    \/ \E e \in Exceptions : ThrowError(t, e)

Next == \E t \in Tasks : Step(t)

Spec == Init /\ [][Next]_vars
=============================================================================
