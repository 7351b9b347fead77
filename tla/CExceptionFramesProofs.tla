----------------------- MODULE CExceptionFramesProofs -----------------------
(***************************************************************************)
(* Try, Throw and Catch keep their promises for any number of tasks, error *)
(* codes and nested blocks, if each task has a slot of its own.            *)
(***************************************************************************)
EXTENDS CExceptionFrames, TLAPS

\* What CException asks of CEXCEPTION_GET_ID in a multitasking environment.
OwnSlots == \A t, u \in Tasks : IdOf[t] = IdOf[u] => t = u

\* A task is inside a Try block it has not left yet, or about to enter one.
PcFitsDepth ==
    \A t \in Tasks :
        /\ pc[t] \in {"try_set", "try_clear"} => depth[t] < MaxDepth
        /\ pc[t] \in {"caught", "restore"} => depth[t] > 0

\* The slot of a task holds its own exception until Catch is through with it.
SlotKeepsThrown ==
    \A t \in Tasks :
        /\ pc[t] \in {"jump", "caught", "restore", "check"} => exception[IdOf[t]] = thrown[t]
        /\ pc[t] \in {"run", "try_set", "try_clear"} => thrown[t] = NoException

\* The frame below the block of depth d in the chain of a task.
Below(t, d) == IF d = 1 THEN NoFrame ELSE Frame(t, d - 1)

\* The blocks of a task that never returns from inside one are linked from the
\* innermost to the outermost, and its slot is the head of the chain.
ChainOf(t) ==
    /\ pc[t] # "lost"
    /\ pFrame[IdOf[t]] = IF pc[t] = "try_clear" THEN Frame(t, depth[t] + 1)
                                               ELSE Innermost(t)
    /\ \A d \in 1..depth[t] : prev[t][d] = Below(t, d)
    /\ pc[t] \in {"try_set", "try_clear"} =>
         prev[t][depth[t] + 1] = Below(t, depth[t] + 1)

Chained == \A t \in Tasks \ Returners : ChainOf(t)

FramesInv == TypeOK /\ PcFitsDepth /\ SlotKeepsThrown /\ Chained

-----------------------------------------------------------------------------

\* Frames are told apart by their task and their depth.
LEMMA FramesDiffer ==
    /\ \A t, u, d, e : Frame(t, d) = Frame(u, e) => t = u /\ d = e
    /\ \A t, d : Frame(t, d) # NoFrame
BY DEF Frame, NoFrame

\* The invariant holds when no task has used Try yet.
LEMMA FramesInit == ASSUME Init PROVE FramesInv
<1>. USE FramesAssumption
<1>1. TypeOK
  BY DEF Init, TypeOK, Frames, Codes, Labels
<1>2. PcFitsDepth /\ SlotKeepsThrown
  BY DEF Init, PcFitsDepth, SlotKeepsThrown, Ids
<1>3. ASSUME NEW t \in Tasks PROVE ChainOf(t)
  <2>1. pc[t] = "run" /\ depth[t] = 0 /\ pFrame[IdOf[t]] = NoFrame
    BY DEF Init, Ids
  <2>2. 1..depth[t] = {}
    BY <2>1
  <2>. QED BY <2>1, <2>2 DEF ChainOf, Innermost
<1>. QED BY <1>1, <1>2, <1>3 DEF FramesInv, Chained

\* A step of Try, Throw or Catch keeps the types and the depth in their bounds.
LEMMA FramesTypes ==
    ASSUME TypeOK, PcFitsDepth, NEW t \in Tasks, Step(t)
    PROVE  TypeOK' /\ PcFitsDepth'
<1>. USE FramesAssumption DEF TypeOK, PcFitsDepth, Codes, Labels, Depths, Goto, At
<1>0. IdOf[t] \in Ids /\ depth[t] \in 0..MaxDepth
  BY DEF Ids
<1>1. CASE TrySave(t)
  <2>1. depth[t] + 1 \in Depths /\ pFrame[IdOf[t]] \in Frames
    BY <1>0, <1>1 DEF TrySave
  <2>2. prev' \in [Tasks -> [Depths -> Frames]]
    BY <1>1, <2>1 DEF TrySave
  <2>. QED BY <1>1, <2>2, <1>0 DEF TrySave
<1>2. CASE TrySet(t)
  <2>1. Frame(t, depth[t] + 1) \in Frames
    BY <1>0, <1>2 DEF TrySet, Frame, Frames
  <2>. QED BY <1>2, <2>1 DEF TrySet
<1>3. CASE TryClear(t)
  BY <1>0, <1>3 DEF TryClear
<1>4. ASSUME NEW e \in Exceptions, ThrowStore(t, e) PROVE TypeOK' /\ PcFitsDepth'
  BY <1>4 DEF ThrowStore
<1>5. CASE Jump(t)
  <2>0. \A d \in 1..depth[t] : d \in 0..MaxDepth
    BY <1>0
  <2>1. depth' \in [Tasks -> 0..MaxDepth]
    BY <1>5, <2>0 DEF Jump
  <2>4. pc' \in [Tasks -> Labels]
    BY <1>5 DEF Jump
  <2>2. thrown' \in [Tasks -> Codes]
    BY <1>5 DEF Jump
  <2>3. PcFitsDepth'
    BY <1>0, <1>5 DEF Jump
  <2>. QED BY <1>5, <2>1, <2>2, <2>3, <2>4 DEF Jump
<1>6. CASE HappyEnd(t)
  BY <1>0, <1>6 DEF HappyEnd
<1>7. CASE ReadException(t)
  BY <1>7 DEF ReadException
<1>8. CASE Restore(t)
  <2>1. depth[t] \in Depths
    BY <1>0, <1>8 DEF Restore
  <2>2. prev[t][depth[t]] \in Frames
    BY <2>1
  <2>. QED BY <1>0, <1>8, <2>1, <2>2 DEF Restore
<1>9. CASE Check(t)
  BY <1>9 DEF Check
<1>10. CASE ReturnFromTry(t)
  BY <1>0, <1>10 DEF ReturnFromTry
<1>. QED BY <1>1, <1>2, <1>3, <1>4, <1>5, <1>6, <1>7, <1>8, <1>9, <1>10 DEF Step

\* A step of one task leaves the blocks and the slot of another task alone.
LEMMA FramesOthers ==
    ASSUME OwnSlots, TypeOK, NEW t \in Tasks, NEW u \in Tasks, u # t, Step(t)
    PROVE  /\ pFrame'[IdOf[u]] = pFrame[IdOf[u]]
           /\ exception'[IdOf[u]] = exception[IdOf[u]]
           /\ prev'[u] = prev[u] /\ depth'[u] = depth[u]
           /\ pc'[u] = pc[u] /\ thrown'[u] = thrown[u]
<1>. USE DEF TypeOK, Goto
<1>0. IdOf[u] # IdOf[t] /\ IdOf[u] \in Ids
  BY DEF OwnSlots, Ids
<1>1. CASE TrySave(t)
  BY <1>0, <1>1 DEF TrySave
<1>2. CASE TrySet(t) \/ TryClear(t)
  BY <1>0, <1>2 DEF TrySet, TryClear
<1>3. ASSUME NEW e \in Exceptions, ThrowStore(t, e)
      PROVE  /\ exception'[IdOf[u]] = exception[IdOf[u]] /\ thrown'[u] = thrown[u]
             /\ pc'[u] = pc[u] /\ UNCHANGED <<pFrame, prev, depth>>
  BY <1>0, <1>3 DEF ThrowStore
<1>4. CASE Jump(t)
  BY <1>0, <1>4 DEF Jump
<1>5. CASE HappyEnd(t) \/ ReadException(t)
  BY <1>0, <1>5 DEF HappyEnd, ReadException
<1>6. CASE Restore(t)
  BY <1>0, <1>6 DEF Restore
<1>7. CASE Check(t) \/ ReturnFromTry(t)
  BY <1>0, <1>7 DEF Check, ReturnFromTry
<1>. QED BY <1>1, <1>2, <1>3, <1>4, <1>5, <1>6, <1>7 DEF Step

\* A task's own step keeps its exception in its slot.
LEMMA FramesThrown ==
    ASSUME TypeOK, SlotKeepsThrown, NEW t \in Tasks, Step(t)
    PROVE  /\ pc'[t] \in {"jump", "caught", "restore", "check"} => exception'[IdOf[t]] = thrown'[t]
           /\ pc'[t] \in {"run", "try_set", "try_clear"} => thrown'[t] = NoException
<1>. USE DEF TypeOK, Goto, At, SlotKeepsThrown
<1>0. IdOf[t] \in Ids
  BY DEF Ids
<1>1. CASE TrySave(t) \/ TrySet(t) \/ TryClear(t)
  BY <1>0, <1>1 DEF TrySave, TrySet, TryClear
<1>2. ASSUME NEW e \in Exceptions, ThrowStore(t, e)
      PROVE  pc'[t] = "jump" /\ exception'[IdOf[t]] = thrown'[t]
  BY <1>0, <1>2 DEF ThrowStore
<1>3. CASE Jump(t)
  BY <1>0, <1>3 DEF Jump
<1>4. CASE HappyEnd(t) \/ ReadException(t)
  BY <1>0, <1>4 DEF HappyEnd, ReadException
<1>5. CASE Restore(t)
  BY <1>0, <1>5 DEF Restore
<1>6. CASE Check(t) \/ ReturnFromTry(t)
  BY <1>0, <1>6 DEF Check, ReturnFromTry
<1>. QED BY <1>1, <1>2, <1>3, <1>4, <1>5, <1>6 DEF Step

\* A task's own step keeps its chain.
LEMMA FramesChain ==
    ASSUME TypeOK, PcFitsDepth, NEW t \in Tasks \ Returners, ChainOf(t), Step(t)
    PROVE  ChainOf(t)'
<1>. USE FramesAssumption DEF TypeOK, PcFitsDepth, ChainOf, Goto, At, Innermost
<1>0. IdOf[t] \in Ids /\ depth[t] \in 0..MaxDepth /\ prev[t] \in [Depths -> Frames]
  BY DEF Ids
<1>1. CASE TrySave(t)
  <2>1. depth[t] + 1 \in Depths
    BY <1>0, <1>1 DEF TrySave, Depths
  <2>2. prev'[t] = [prev[t] EXCEPT ![depth[t] + 1] = pFrame[IdOf[t]]]
    BY <1>1 DEF TrySave
  <2>3. Below(t, depth[t] + 1) = Innermost(t)
    BY <1>0 DEF Below, Frame
  <2>5. prev'[t][depth[t] + 1] = Below(t, depth[t] + 1)
    BY <1>0, <1>1, <2>1, <2>2, <2>3 DEF TrySave
  <2>4. \A d \in 1..depth[t] : prev'[t][d] = prev[t][d]
    BY <1>0, <2>1, <2>2 DEF Depths
  <2>. QED BY <1>0, <1>1, <2>4, <2>5 DEF TrySave
<1>2. CASE TrySet(t)
  BY <1>0, <1>2 DEF TrySet, Below
<1>3. CASE TryClear(t)
  <2>1. depth'[t] = depth[t] + 1 /\ pc'[t] = "run" /\ UNCHANGED <<pFrame, prev>>
    BY <1>0, <1>3 DEF TryClear
  <2>2. pFrame'[IdOf[t]] = Frame(t, depth'[t])
    BY <1>3, <2>1 DEF TryClear
  <2>3. \A d \in 1..depth'[t] : prev'[t][d] = Below(t, d)
    BY <1>0, <1>3, <2>1 DEF TryClear
  <2>. QED BY <1>0, <2>1, <2>2, <2>3
<1>4. ASSUME NEW e \in Exceptions, ThrowStore(t, e) PROVE ChainOf(t)'
  BY <1>0, <1>4 DEF ThrowStore, Below
<1>5. CASE Jump(t)
  <2>1. pFrame[IdOf[t]] = Innermost(t)
    BY <1>5 DEF Jump
  <2>2. CASE pFrame[IdOf[t]] = NoFrame
    BY <1>0, <1>5, <2>1, <2>2, FramesDiffer DEF Jump, Below
  <2>3. ASSUME NEW d \in 1..depth[t], pFrame[IdOf[t]] = Frame(t, d) PROVE ChainOf(t)'
    <3>1. d = depth[t]
      BY <1>0, <2>1, <2>3, FramesDiffer
    <3>2. UNCHANGED <<pFrame, prev>> /\ pc'[t] = "caught" /\ depth'[t] = depth[t]
      BY <1>0, <1>5, <2>1, <2>3, <3>1, FramesDiffer DEF Jump
    <3>3. \A k \in 1..depth'[t] : prev'[t][k] = Below(t, k)
      BY <3>2
    <3>4. pFrame'[IdOf[t]] = Innermost(t)'
      BY <2>1, <3>2
    <3>. QED BY <3>2, <3>3, <3>4
  <2>4. CASE depth[t] = 0
    BY <2>1, <2>2, <2>4
  <2>5. CASE depth[t] # 0
    <3>1. depth[t] \in 1..depth[t]
      BY <1>0, <2>5
    <3>. QED BY <2>1, <2>3, <2>5, <3>1
  <2>. QED BY <2>4, <2>5
<1>6. CASE HappyEnd(t) \/ ReadException(t)
  BY <1>0, <1>6 DEF HappyEnd, ReadException, Below
<1>7. CASE Restore(t)
  <2>1. depth[t] \in 1..MaxDepth
    BY <1>0, <1>7 DEF Restore
  <2>2. pFrame'[IdOf[t]] = Below(t, depth[t]) /\ depth'[t] = depth[t] - 1
    BY <1>0, <1>7, <2>1 DEF Restore
  <2>. QED BY <1>0, <1>7, <2>1, <2>2 DEF Restore, Below
<1>8. CASE Check(t)
  BY <1>0, <1>8 DEF Check, Below
<1>9. CASE ReturnFromTry(t)
  BY <1>9 DEF ReturnFromTry
<1>. QED BY <1>1, <1>2, <1>3, <1>4, <1>5, <1>6, <1>7, <1>8, <1>9 DEF Step

\* Every step keeps the invariant.
LEMMA FramesNext ==
    ASSUME OwnSlots, FramesInv, [Next]_vars
    PROVE  FramesInv'
<1>. USE DEF FramesInv
<1>1. CASE UNCHANGED vars
  BY <1>1 DEF vars, TypeOK, PcFitsDepth, SlotKeepsThrown, Chained, ChainOf, Innermost
<1>2. ASSUME NEW t \in Tasks, Step(t) PROVE FramesInv'
  <2>1. TypeOK' /\ PcFitsDepth'
    BY <1>2, FramesTypes
  <2>2. SlotKeepsThrown'
    <3>1. ASSUME NEW u \in Tasks, u # t
          PROVE  /\ pc'[u] = pc[u] /\ thrown'[u] = thrown[u]
                 /\ exception'[IdOf[u]] = exception[IdOf[u]]
      BY <1>2, <3>1, FramesOthers
    <3>. QED BY <1>2, <3>1, FramesThrown DEF SlotKeepsThrown
  <2>3. Chained'
    <3>. SUFFICES ASSUME NEW u \in Tasks \ Returners PROVE ChainOf(u)'
      BY DEF Chained
    <3>1. CASE u = t
      BY <1>2, <3>1, FramesChain DEF Chained
    <3>2. CASE u # t
      BY <1>2, <3>2, FramesOthers DEF Chained, ChainOf, Innermost
    <3>. QED BY <3>1, <3>2
  <2>. QED BY <2>1, <2>2, <2>3
<1>. QED BY <1>1, <1>2 DEF Next

\* With a slot for each task the invariant holds throughout.
THEOREM FramesInvariant == ASSUME OwnSlots PROVE Spec => []FramesInv
<1>1. Init => FramesInv
  BY FramesInit
<1>2. FramesInv /\ [Next]_vars => FramesInv'
  BY FramesNext
<1>. QED BY <1>1, <1>2, PTL DEF Spec

\* With a slot for each task every Throw arrives in the innermost Try block of
\* its own task, unless that task returns from inside its blocks.
THEOREM ThrowsJumpHome == ASSUME OwnSlots PROVE Spec => []JumpsHome
<1>1. FramesInv => JumpsHome
  BY DEF FramesInv, Chained, ChainOf, JumpsHome, At
<1>. QED BY <1>1, FramesInvariant, PTL

\* With a slot for each task a Catch runs for what its own block threw.
THEOREM CatchIsOwn == ASSUME OwnSlots PROVE Spec => []CatchSeesOwnThrow
<1>1. FramesInv => CatchSeesOwnThrow
  BY DEF FramesInv, SlotKeepsThrown, CatchSeesOwnThrow
<1>. QED BY <1>1, FramesInvariant, PTL

-----------------------------------------------------------------------------
(***************************************************************************)
(* The refinement: frames and slots implement TryBlocks                    *)
(***************************************************************************)

\* What TryBlocks sees of the careful tasks.
Opened == [t \in Careful |-> depth[t]]
OnTheWay == [t \in Careful |-> OnItsWay(t)]
InCatch == [t \in Careful |-> Tested(t)]

\* Of a step of one task TryBlocks sees no more than what that task sees.
LEMMA SeenOfOthers ==
    ASSUME OwnSlots, TypeOK, NEW t \in Tasks, NEW u \in Careful, u # t, Step(t)
    PROVE  Opened'[u] = Opened[u] /\ OnTheWay'[u] = OnTheWay[u] /\ InCatch'[u] = InCatch[u]
<1>1. u \in Tasks
  BY DEF Careful
<1>2. /\ exception'[IdOf[u]] = exception[IdOf[u]] /\ depth'[u] = depth[u]
      /\ pc'[u] = pc[u] /\ thrown'[u] = thrown[u]
  BY <1>1, FramesOthers
<1>. QED
  BY <1>2 DEF Opened, OnTheWay, InCatch, OnItsWay, Tested, At

\* What TryBlocks sees of a step of a careful task: an opening, an end or a catch
\* of its block, a throw, an error that is ignored or handled, or nothing.
LEMMA SeenOfStep ==
    ASSUME FramesInv, NEW t \in Careful, Step(t)
    PROVE  \/ Opened'[t] = Opened[t] /\ OnTheWay'[t] = OnTheWay[t] /\ InCatch'[t] = InCatch[t]
           \/ /\ OnTheWay[t] = NoException /\ InCatch[t] = NoException
              /\ \/ Opened'[t] = Opened[t] + 1 /\ OnTheWay'[t] = OnTheWay[t]
                 \/ /\ Opened[t] > 0 /\ Opened'[t] = Opened[t] - 1
                    /\ OnTheWay'[t] = OnTheWay[t]
                 \/ Opened'[t] = Opened[t] /\ OnTheWay'[t] \in Exceptions
              /\ InCatch'[t] = InCatch[t]
           \/ /\ OnTheWay[t] # NoException /\ Opened[t] > 0
              /\ Opened'[t] = Opened[t] - 1 /\ InCatch'[t] = OnTheWay[t]
              /\ OnTheWay'[t] = NoException
           \/ /\ InCatch[t] # NoException /\ InCatch'[t] = NoException
              /\ Opened'[t] = Opened[t] /\ OnTheWay'[t] = OnTheWay[t]
           \/ /\ OnTheWay[t] # NoException /\ Opened[t] = 0
              /\ OnTheWay'[t] = NoException
              /\ Opened'[t] = Opened[t] /\ InCatch'[t] = InCatch[t]
<1>. USE FramesAssumption DEF Opened, OnTheWay, InCatch, OnItsWay, Tested, At, Goto
<1>1. t \in Tasks /\ t \notin Returners
  BY DEF Careful
<1>2. /\ depth \in [Tasks -> 0..MaxDepth] /\ pc \in [Tasks -> Labels]
      /\ thrown \in [Tasks -> Codes] /\ exception \in [Ids -> Codes]
      /\ MaxDepth \in Nat /\ IdOf[t] \in Ids
  BY <1>1 DEF FramesInv, TypeOK, Ids
<1>3. /\ pc[t] \in {"run", "try_set", "try_clear"} => thrown[t] = NoException
      /\ pc[t] \in {"jump", "caught", "restore", "check"} => exception[IdOf[t]] = thrown[t]
      /\ pc[t] \in {"caught", "restore"} => depth[t] > 0
  BY <1>1 DEF FramesInv, SlotKeepsThrown, PcFitsDepth
<1>4. CASE TrySave(t) \/ TrySet(t) \/ HappyEnd(t) \/ ReadException(t)
  <2>1. /\ depth' = depth /\ thrown' = thrown /\ pc[t] # "check" /\ pc'[t] # "check"
    BY <1>1, <1>2, <1>4 DEF TrySave, TrySet, HappyEnd, ReadException
  <2>. QED
    BY <2>1
<1>5. CASE TryClear(t)
  <2>1. /\ depth'[t] = depth[t] + 1 /\ thrown' = thrown
        /\ pc[t] = "try_clear" /\ pc'[t] = "run"
    BY <1>1, <1>2, <1>5 DEF TryClear
  <2>. QED
    BY <1>3, <2>1
<1>6. ASSUME NEW e \in Exceptions, ThrowStore(t, e)
      PROVE  /\ OnTheWay[t] = NoException /\ InCatch[t] = NoException
             /\ Opened'[t] = Opened[t] /\ OnTheWay'[t] \in Exceptions
             /\ InCatch'[t] = InCatch[t]
  <2>1. depth' = depth /\ thrown'[t] = e /\ pc[t] = "run" /\ pc'[t] = "jump"
    BY <1>1, <1>2, <1>6 DEF ThrowStore
  <2>. QED
    BY <1>3, <2>1
<1>7. CASE Jump(t)
  <2>1. pc[t] = "jump" /\ pFrame[IdOf[t]] = Innermost(t)
    BY <1>1, <1>7 DEF Jump, FramesInv, Chained, ChainOf
  <2>2. CASE depth[t] = 0
    <3>1. pFrame[IdOf[t]] = NoFrame /\ 1..depth[t] = {}
      BY <2>1, <2>2 DEF Innermost
    <3>2. depth' = depth /\ thrown'[t] = NoException /\ pc'[t] = "run"
      BY <1>1, <1>2, <1>7, <3>1 DEF Jump
    <3>. QED
      BY <2>1, <2>2, <3>2
  <2>3. CASE depth[t] # 0
    <3>1. pFrame[IdOf[t]] = Frame(t, depth[t]) /\ pFrame[IdOf[t]] # NoFrame
      BY <2>1, <2>3, FramesDiffer DEF Innermost
    <3>2. depth[t] \in 1..depth[t]
      BY <1>1, <1>2, <2>3
    <3>3. \E d \in 1..depth[t] :
             /\ pFrame[IdOf[t]] = Frame(t, d) /\ depth' = [depth EXCEPT ![t] = d]
             /\ pc' = [pc EXCEPT ![t] = "caught"] /\ thrown' = thrown
      BY <1>7, <3>1, <3>2 DEF Jump
    <3>4. depth'[t] = depth[t] /\ pc'[t] = "caught" /\ thrown' = thrown
      BY <1>1, <1>2, <3>1, <3>3, FramesDiffer
    <3>. QED
      BY <2>1, <3>4
  <2>. QED
    BY <2>2, <2>3
<1>8. CASE Restore(t)
  <2>1. /\ depth[t] > 0 /\ depth'[t] = depth[t] - 1 /\ thrown' = thrown
        /\ exception' = exception /\ pc[t] = "restore" /\ pc'[t] = "check"
    BY <1>1, <1>2, <1>3, <1>8 DEF Restore
  <2>. QED
    BY <1>3, <2>1
<1>9. CASE Check(t)
  <2>1. /\ depth' = depth /\ thrown'[t] = NoException /\ pc[t] = "check"
        /\ pc'[t] = "run"
    BY <1>1, <1>2, <1>9 DEF Check
  <2>. QED
    BY <1>3, <2>1
<1>. QED
  BY <1>1, <1>4, <1>5, <1>6, <1>7, <1>8, <1>9 DEF Step, ReturnFromTry

\* Every step is one of TryBlocks or is not seen by it.
LEMMA BlocksNext ==
    ASSUME OwnSlots, FramesInv, [Next]_vars
    PROVE  [Blocks!Next]_Blocks!vars
<1>. USE DEF Blocks!vars, Opened, OnTheWay, InCatch
<1>1. CASE UNCHANGED vars
  BY <1>1 DEF vars, OnItsWay, Tested, At
<1>2. ASSUME NEW t \in Tasks, Step(t) PROVE [Blocks!Next]_Blocks!vars
  <2>1. TypeOK
    BY DEF FramesInv
  <2>2. \A u \in Careful : u # t =>
          Opened'[u] = Opened[u] /\ OnTheWay'[u] = OnTheWay[u] /\ InCatch'[u] = InCatch[u]
    BY <1>2, <2>1, SeenOfOthers
  <2>3. CASE t \notin Careful
    BY <2>2, <2>3
  <2>4. CASE t \in Careful
    <3>1. /\ Opened' = [Opened EXCEPT ![t] = Opened'[t]]
          /\ OnTheWay' = [OnTheWay EXCEPT ![t] = OnTheWay'[t]]
          /\ InCatch' = [InCatch EXCEPT ![t] = InCatch'[t]]
      BY <2>2, <2>4
    <3>2. Opened'[t] = Opened[t] => Opened' = Opened
      BY <3>1, <2>2, <2>4
    <3>3. OnTheWay'[t] = OnTheWay[t] => OnTheWay' = OnTheWay
      BY <3>1, <2>2, <2>4
    <3>4. InCatch'[t] = InCatch[t] => InCatch' = InCatch
      BY <3>1, <2>2, <2>4
    <3>5. Blocks!Step(t) \/ UNCHANGED <<Opened, OnTheWay, InCatch>>
      BY <1>2, <2>4, <3>1, <3>2, <3>3, <3>4, SeenOfStep
      DEF Blocks!Step, Blocks!Open, Blocks!End, Blocks!ThrowError, Blocks!CatchError,
          Blocks!HandleError, Blocks!Ignore, Blocks!Runs
    <3>. QED
      BY <2>4, <3>5 DEF Blocks!Next
  <2>. QED
    BY <2>3, <2>4
<1>. QED
  BY <1>1, <1>2 DEF Next

\* With a slot for each task, CException gives every task that does not return
\* from inside a block the blocks of TryBlocks, for any number of tasks, error
\* codes and levels, however the tasks are switched.
THEOREM FramesAreBlocks == ASSUME OwnSlots PROVE Spec => FramesImplementBlocks
<1>1. Init => Blocks!Init
  BY DEF Init, Blocks!Init, OnItsWay, Tested, At, Careful
<1>2. FramesInv /\ [Next]_vars => [Blocks!Next]_Blocks!vars
  BY BlocksNext
<1>. QED
  BY <1>1, <1>2, FramesInvariant, PTL DEF Spec, Blocks!Spec, FramesImplementBlocks
=============================================================================
