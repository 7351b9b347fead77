-------------------------- MODULE CExceptionFrames --------------------------
(***************************************************************************)
(* CException: the Try / Catch / Throw macros most libraries of the        *)
(* repository handle their errors with.  A Try block pushes a jmp_buf on   *)
(* the chain of its task's frame slot (CExceptionFrames[id]) and Throw     *)
(* jumps to the head of the chain.  The slot of a task is chosen by        *)
(* CEXCEPTION_GET_ID, here IdOf; every firmware of the repository keeps    *)
(* the default, one slot for all its tasks.  FreeRTOS switches tasks at    *)
(* any point, so each access to the slot is a step of its own.             *)
(***************************************************************************)
EXTENDS Naturals

CONSTANTS
    Tasks,        \* the tasks that use Try
    IdOf,         \* CEXCEPTION_GET_ID as a function of the running task
    Exceptions,   \* error codes that are thrown
    MaxDepth,     \* bound: Try blocks a task has open at a time
    Returners     \* the tasks whose code returns from inside a Try block

\* No frame, and CEXCEPTION_NONE.
NoFrame == <<>>
NoException == "none"

ASSUME FramesAssumption ==
    /\ DOMAIN IdOf = Tasks
    /\ NoException \notin Exceptions
    /\ MaxDepth \in Nat \ {0}
    /\ Returners \subseteq Tasks

VARIABLES
    pFrame,     \* CExceptionFrames[id].pFrame
    exception,  \* CExceptionFrames[id].Exception
    prev,       \* PrevFrame of each Try block of each task
    depth,      \* how many Try blocks each task has open
    pc,         \* where each task is in Try, Throw or Catch
    thrown      \* what the task threw since the last Catch (history)

vars == <<pFrame, exception, prev, depth, pc, thrown>>

Ids == {IdOf[t] : t \in Tasks}
Depths == 1..MaxDepth

\* NewFrame of a Try block: the task's stack reuses the place of a block that
\* was left for the next one opened at the same depth.
Frame(t, d) == <<t, d>>
Frames == (Tasks \X Depths) \cup {NoFrame}
Codes == Exceptions \cup {NoException}

Labels == {"run", "try_set", "try_clear", "jump", "caught", "restore",
           "check", "lost"}

TypeOK ==
    /\ pFrame \in [Ids -> Frames]
    /\ exception \in [Ids -> Codes]
    /\ prev \in [Tasks -> [Depths -> Frames]]
    /\ depth \in [Tasks -> 0..MaxDepth]
    /\ pc \in [Tasks -> Labels]
    /\ thrown \in [Tasks -> Codes]

Init ==
    /\ pFrame = [i \in Ids |-> NoFrame]
    /\ exception = [i \in Ids |-> NoException]
    /\ prev = [t \in Tasks |-> [d \in Depths |-> NoFrame]]
    /\ depth = [t \in Tasks |-> 0]
    /\ pc = [t \in Tasks |-> "run"]
    /\ thrown = [t \in Tasks |-> NoException]

-----------------------------------------------------------------------------

At(t, label) == pc[t] = label
Goto(t, label) == pc' = [pc EXCEPT ![t] = label]

\* Try: PrevFrame is read, the slot's frame set, the exception cleared; setjmp
\* makes the block the one that is open.
TrySave(t) ==
    /\ At(t, "run")
    /\ depth[t] < MaxDepth
    /\ prev' = [prev EXCEPT ![t][depth[t] + 1] = pFrame[IdOf[t]]]
    /\ Goto(t, "try_set")
    /\ UNCHANGED <<pFrame, exception, depth, thrown>>

TrySet(t) ==
    /\ At(t, "try_set")
    /\ pFrame' = [pFrame EXCEPT ![IdOf[t]] = Frame(t, depth[t] + 1)]
    /\ Goto(t, "try_clear")
    /\ UNCHANGED <<exception, prev, depth, thrown>>

TryClear(t) ==
    /\ At(t, "try_clear")
    /\ exception' = [exception EXCEPT ![IdOf[t]] = NoException]
    /\ depth' = [depth EXCEPT ![t] = @ + 1]
    /\ Goto(t, "run")
    /\ UNCHANGED <<pFrame, prev, thrown>>

\* Throw(e), up to the test of the slot's frame.
ThrowStore(t, e) ==
    /\ At(t, "run")
    /\ exception' = [exception EXCEPT ![IdOf[t]] = e]
    /\ thrown' = [thrown EXCEPT ![t] = e]
    /\ Goto(t, "jump")
    /\ UNCHANGED <<pFrame, prev, depth>>

\* Without a frame Throw returns to its caller.  A jump to a block the task has
\* open leaves the blocks inside it; any other jump is undefined.
Jump(t) ==
    /\ At(t, "jump")
    /\ \/ /\ pFrame[IdOf[t]] = NoFrame
          /\ thrown' = [thrown EXCEPT ![t] = NoException]
          /\ Goto(t, "run")
          /\ UNCHANGED depth
       \/ \E d \in 1..depth[t] :
          /\ pFrame[IdOf[t]] = Frame(t, d)
          /\ depth' = [depth EXCEPT ![t] = d]
          /\ Goto(t, "caught")
          /\ UNCHANGED thrown
       \/ /\ pFrame[IdOf[t]] \notin {NoFrame} \cup {Frame(t, d) : d \in 1..depth[t]}
          /\ Goto(t, "lost")
          /\ UNCHANGED <<depth, thrown>>
    /\ UNCHANGED <<pFrame, exception, prev>>

\* Mutant: the exception of a block inside this one is not cleared.
HappyEndKeepsException(t) ==
    /\ At(t, "run")
    /\ depth[t] > 0
    /\ Goto(t, "restore")
    /\ UNCHANGED <<pFrame, exception, prev, depth, thrown>>

\* The end of a block that did not throw.
HappyEnd(t) ==
    /\ At(t, "run")
    /\ depth[t] > 0
    /\ exception' = [exception EXCEPT ![IdOf[t]] = NoException]
    /\ Goto(t, "restore")
    /\ UNCHANGED <<pFrame, prev, depth, thrown>>

\* Catch(e) has jumped here and reads the exception.
ReadException(t) ==
    /\ At(t, "caught")
    /\ Goto(t, "restore")
    /\ UNCHANGED <<pFrame, exception, prev, depth, thrown>>

\* Mutant: the slot keeps the frame of the block that ends.
RestoreForgotten(t) ==
    /\ At(t, "restore")
    /\ depth' = [depth EXCEPT ![t] = @ - 1]
    /\ Goto(t, "check")
    /\ UNCHANGED <<pFrame, exception, prev, thrown>>

\* pFrame = PrevFrame: the block is closed on both ways.
Restore(t) ==
    /\ At(t, "restore")
    /\ pFrame' = [pFrame EXCEPT ![IdOf[t]] = prev[t][depth[t]]]
    /\ depth' = [depth EXCEPT ![t] = @ - 1]
    /\ Goto(t, "check")
    /\ UNCHANGED <<exception, prev, thrown>>

\* The body of Catch runs if there is an exception; it may open a Try block or
\* throw again, as the code after it may.
Check(t) ==
    /\ At(t, "check")
    /\ thrown' = [thrown EXCEPT ![t] = NoException]
    /\ Goto(t, "run")
    /\ UNCHANGED <<pFrame, exception, prev, depth>>

\* A return from inside a block closes it without the steps of Catch, as those
\* of wifi_c_scan_for_ap_with_ssid and helper_perform_ota do.
ReturnFromTry(t) ==
    /\ t \in Returners
    /\ At(t, "run")
    /\ depth[t] > 0
    /\ depth' = [depth EXCEPT ![t] = @ - 1]
    /\ UNCHANGED <<pFrame, exception, prev, pc, thrown>>

Step(t) ==
    \/ TrySave(t) \/ TrySet(t) \/ TryClear(t)
    \/ \E e \in Exceptions : ThrowStore(t, e)
    \/ Jump(t) \/ HappyEnd(t) \/ ReadException(t) \/ Restore(t) \/ Check(t)
    \/ ReturnFromTry(t)

\* After an undefined jump the task does anything; the model stops it.
Next == \E t \in Tasks : Step(t)

Spec == Init /\ [][Next]_vars

-----------------------------------------------------------------------------

\* The frame of the innermost block a task has open.
Innermost(t) == IF depth[t] = 0 THEN NoFrame ELSE Frame(t, depth[t])

\* A Throw arrives at the innermost Try block its own task has open, and
\* returns to its caller only when there is none.  Tasks that return from
\* inside a block give this up for themselves, not for the others.
JumpsHome ==
    \A t \in Tasks \ Returners :
        /\ At(t, "jump") => pFrame[IdOf[t]] = Innermost(t)
        /\ ~At(t, "lost")

\* A Catch sees exactly what was thrown in its block: its body runs when and
\* only when the block threw, and for that error code, whatever other blocks
\* of this or of other tasks do meanwhile.
CatchSeesOwnThrow ==
    \A t \in Tasks :
        pc[t] \in {"caught", "restore", "check"} => exception[IdOf[t]] = thrown[t]

\* The tasks that leave their blocks through the end or by a Throw.
Careful == Tasks \ Returners

\* What a Throw has put on its way, until its block is closed.
OnItsWay(t) == IF At(t, "check") THEN NoException ELSE thrown[t]

\* What the test of Catch finds once the block is closed.
Tested(t) == IF At(t, "check") THEN exception[IdOf[t]] ELSE NoException

\* The frames and the slots give the careful tasks the blocks of TryBlocks,
\* whatever the tasks that return from inside a block do to their own chain: a
\* task sees its blocks closed in order and its errors caught once, in place.
Blocks == INSTANCE TryBlocks WITH
    Tasks <- Careful,
    open <- [t \in Careful |-> depth[t]],
    thrown <- [t \in Careful |-> OnItsWay(t)],
    caught <- [t \in Careful |-> Tested(t)]

FramesImplementBlocks == Blocks!Spec
=============================================================================
