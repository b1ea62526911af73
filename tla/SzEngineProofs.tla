---------------------------- MODULE SzEngineProofs ----------------------------
(***************************************************************************)
(* Theorems about SzEngine, for every set of captures and access points    *)
(* and every assignment of modes. EngineInv is what holds of each capture; *)
(* FileInv adds what holds of slot and file for a capture that was never   *)
(* shared. Each step lemma has one step per action of SzEngine.            *)
(***************************************************************************)
EXTENDS SzEngine, TLAPS

LEMMA EngineInvInit == Init => EngineInv
<1> SUFFICES ASSUME Init PROVE EngineInv
  OBVIOUS
<1>1. pc \in [Job -> PcStates] /\ thr \in [Job -> ThrStates]
  BY DEF Init, PcStates, ThrStates
<1>2. TypeOK
  BY <1>1 DEF Init, TypeOK
<1>3. \A j \in Job : StateMatchesPc(j) /\ ModeMatchesPc(j) /\ Released(j)
  BY DEF Init, StateMatchesPc, ModeMatchesPc, Released
<1>4. QED
  BY <1>2, <1>3 DEF EngineInv

LEMMA TypeStep == TypeOK /\ [Next]_vars => TypeOK'
<1> SUFFICES ASSUME TypeOK, [Next]_vars PROVE TypeOK'
  OBVIOUS
<1> USE SzAssumption
     DEF TypeOK, PcStates, ThrStates, Finished, Terminal, lifeVars, apVars, vars
<1>1. ASSUME NEW j \in Job, Start(j) PROVE TypeOK'
  BY <1>1 DEF Start, Rivals, SetPc, SetState
<1>2. ASSUME NEW j \in Job, Stop(j) PROVE TypeOK'
  BY <1>2 DEF Stop
<1>3. ASSUME NEW j \in Job, Arm(j) PROVE TypeOK'
  BY <1>3 DEF Arm
<1>4. ASSUME NEW j \in Job, Begin(j) PROVE TypeOK'
  BY <1>4 DEF Begin, SetPc, SetState
<1>5. ASSUME NEW j \in Job, PreStopped(j) PROVE TypeOK'
  BY <1>5 DEF PreStopped, StopSlot, SetPc
<1>6. ASSUME NEW j \in Job, Started(j) PROVE TypeOK'
  BY <1>6 DEF Started, StartSlot, SetState, SetPc
<1>7. ASSUME NEW j \in Job, StartFails(j) PROVE TypeOK'
  BY <1>7 DEF StartFails, StartSlot, End, SetState, SetPc
<1>8. ASSUME NEW j \in Job, Scan(j) PROVE TypeOK'
  BY <1>8 DEF Scan, SetPc
<1>9. ASSUME NEW j \in Job, Found(j) PROVE TypeOK'
  BY <1>9 DEF Found, SetState, SetPc, SetThr
<1>10. ASSUME NEW j \in Job, DiscoveryFails(j) PROVE TypeOK'
  BY <1>10 DEF DiscoveryFails, End, SetState, SetPc
<1>11. ASSUME NEW j \in Job, ArmWaitOver(j) PROVE TypeOK'
  BY <1>11 DEF ArmWaitOver, SetState, SetPc
<1>12. ASSUME NEW j \in Job, WindowOver(j) PROVE TypeOK'
  BY <1>12 DEF WindowOver, SetState, SetPc
<1>13. ASSUME NEW j \in Job, ReaderDone(j) PROVE TypeOK'
  BY <1>13 DEF ReaderDone, SetState, SetPc, SetThr
<1>14. ASSUME NEW j \in Job, ReaderRaised(j) PROVE TypeOK'
  BY <1>14 DEF ReaderRaised, SetThr, End, SetState, SetPc
<1>15. ASSUME NEW j \in Job, PostStopped(j) PROVE TypeOK'
  BY <1>15 DEF PostStopped, StopSlot, End, SetState, SetPc
<1>16. ASSUME NEW j \in Job, PostStopFails(j) PROVE TypeOK'
  BY <1>16 DEF PostStopFails, StopSlot, End, SetState, SetPc
<1>17. ASSUME NEW j \in Job, Downloaded(j) PROVE TypeOK'
  BY <1>17 DEF Downloaded, End, SetState, SetPc
<1>18. ASSUME NEW j \in Job, DownloadFails(j) PROVE TypeOK'
  BY <1>18 DEF DownloadFails, End, SetState, SetPc
<1>19. ASSUME NEW j \in Job, Timeout(j) PROVE TypeOK'
  BY <1>19 DEF Timeout, SetPc
<1>20. ASSUME NEW j \in Job, Listen(j) PROVE TypeOK'
  BY <1>20 DEF Listen, SetThr
<1>21. ASSUME NEW j \in Job, Attached(j) PROVE TypeOK'
  BY <1>21 DEF Attached, SetThr
<1>22. ASSUME NEW j \in Job, AttachFails(j) PROVE TypeOK'
  BY <1>22 DEF AttachFails, SetThr
<1>23. ASSUME NEW j \in Job, PullStops(j) PROVE TypeOK'
  BY <1>23 DEF PullStops, SetThr
<1>24. ASSUME NEW j \in Job, PullBreaks(j) PROVE TypeOK'
  BY <1>24 DEF PullBreaks, SetThr
<1>25. ASSUME NEW a \in Ap, ApRestart(a) PROVE TypeOK'
  BY <1>25 DEF ApRestart
<1>26. CASE Shutdown
  BY <1>26 DEF Shutdown
<1>27. CASE UNCHANGED vars
  BY <1>27
<1>28. QED
  BY <1>1, <1>2, <1>3, <1>4, <1>5, <1>6, <1>7, <1>8, <1>9, <1>10, <1>11,
     <1>12, <1>13, <1>14, <1>15, <1>16, <1>17, <1>18, <1>19, <1>20,
     <1>21, <1>22, <1>23, <1>24, <1>25, <1>26, <1>27
  DEF Next, CoroutineStep, ThreadStep, Terminated

(* Every step keeps what the coroutine's position says of a capture, and   *)
(* none puts a finished capture back into a slot.                          *)
LEMMA EngineInvStep == EngineInv /\ [Next]_vars => EngineInv'
<1> SUFFICES ASSUME EngineInv, [Next]_vars PROVE EngineInv'
  OBVIOUS
<1> DEFINE JobInv(i) == StateMatchesPc(i) /\ ModeMatchesPc(i) /\ Released(i)
<1>0. TypeOK /\ TypeOK' /\ \A i \in Job : JobInv(i)
  BY TypeStep DEF EngineInv
<1> SUFFICES ASSUME NEW i \in Job PROVE JobInv(i)'
  BY <1>0 DEF EngineInv
<1> USE <1>0, SzAssumption, NobodyAssumption
     DEF StateMatchesPc, ModeMatchesPc, Released, Streams, TypeOK, Finished, Terminal,
         lifeVars, apVars, vars
<1>1. ASSUME NEW j \in Job, Start(j) PROVE JobInv(i)'
  BY <1>1 DEF Start, SetPc, SetState
<1>2. ASSUME NEW j \in Job, Stop(j) PROVE JobInv(i)'
  BY <1>2 DEF Stop
<1>3. ASSUME NEW j \in Job, Arm(j) PROVE JobInv(i)'
  BY <1>3 DEF Arm
<1>4. ASSUME NEW j \in Job, Begin(j) PROVE JobInv(i)'
  BY <1>4 DEF Begin, SetPc, SetState
<1>5. ASSUME NEW j \in Job, PreStopped(j) PROVE JobInv(i)'
  BY <1>5 DEF PreStopped, StopSlot, SetPc
<1>6. ASSUME NEW j \in Job, Started(j) PROVE JobInv(i)'
  BY <1>6 DEF Started, StartSlot, SetState, SetPc
<1>7. ASSUME NEW j \in Job, StartFails(j) PROVE JobInv(i)'
  BY <1>7 DEF StartFails, StartSlot, End, SetState, SetPc
<1>8. ASSUME NEW j \in Job, Scan(j) PROVE JobInv(i)'
  BY <1>8 DEF Scan, SetPc
<1>9. ASSUME NEW j \in Job, Found(j) PROVE JobInv(i)'
  BY <1>9 DEF Found, SetState, SetPc, SetThr
<1>10. ASSUME NEW j \in Job, DiscoveryFails(j) PROVE JobInv(i)'
  BY <1>10 DEF DiscoveryFails, End, SetState, SetPc
<1>11. ASSUME NEW j \in Job, ArmWaitOver(j) PROVE JobInv(i)'
  BY <1>11 DEF ArmWaitOver, SetState, SetPc
<1>12. ASSUME NEW j \in Job, WindowOver(j) PROVE JobInv(i)'
  BY <1>12 DEF WindowOver, SetState, SetPc
<1>13. ASSUME NEW j \in Job, ReaderDone(j) PROVE JobInv(i)'
  BY <1>13 DEF ReaderDone, SetState, SetPc, SetThr
<1>14. ASSUME NEW j \in Job, ReaderRaised(j) PROVE JobInv(i)'
  BY <1>14 DEF ReaderRaised, SetThr, End, SetState, SetPc
<1>15. ASSUME NEW j \in Job, PostStopped(j) PROVE JobInv(i)'
  BY <1>15 DEF PostStopped, StopSlot, End, SetState, SetPc
<1>16. ASSUME NEW j \in Job, PostStopFails(j) PROVE JobInv(i)'
  BY <1>16 DEF PostStopFails, StopSlot, End, SetState, SetPc
<1>17. ASSUME NEW j \in Job, Downloaded(j) PROVE JobInv(i)'
  BY <1>17 DEF Downloaded, End, SetState, SetPc
<1>18. ASSUME NEW j \in Job, DownloadFails(j) PROVE JobInv(i)'
  BY <1>18 DEF DownloadFails, End, SetState, SetPc
<1>19. ASSUME NEW j \in Job, Timeout(j) PROVE JobInv(i)'
  BY <1>19 DEF Timeout, SetPc
<1>20. ASSUME NEW j \in Job, Listen(j) PROVE JobInv(i)'
  BY <1>20 DEF Listen, SetThr
<1>21. ASSUME NEW j \in Job, Attached(j) PROVE JobInv(i)'
  BY <1>21 DEF Attached, SetThr
<1>22. ASSUME NEW j \in Job, AttachFails(j) PROVE JobInv(i)'
  BY <1>22 DEF AttachFails, SetThr
<1>23. ASSUME NEW j \in Job, PullStops(j) PROVE JobInv(i)'
  BY <1>23 DEF PullStops, SetThr
<1>24. ASSUME NEW j \in Job, PullBreaks(j) PROVE JobInv(i)'
  BY <1>24 DEF PullBreaks, SetThr
<1>25. ASSUME NEW a \in Ap, ApRestart(a) PROVE JobInv(i)'
  BY <1>25 DEF ApRestart
<1>26. CASE Shutdown
  BY <1>26 DEF Shutdown
<1>27. CASE UNCHANGED vars
  BY <1>27
<1>28. QED
  BY <1>1, <1>2, <1>3, <1>4, <1>5, <1>6, <1>7, <1>8, <1>9, <1>10, <1>11,
     <1>12, <1>13, <1>14, <1>15, <1>16, <1>17, <1>18, <1>19, <1>20,
     <1>21, <1>22, <1>23, <1>24, <1>25, <1>26, <1>27
  DEF Next, CoroutineStep, ThreadStep, Terminated

LEMMA EngineInvariant == Spec => []EngineInv
  BY EngineInvInit, EngineInvStep, PTL DEF Spec

(* Type correctness.                                                       *)
THEOREM TypeCorrect == Spec => []TypeOK
  BY EngineInvariant, PTL DEF EngineInv

(* A done capture does not occupy its access point, in any mode.           *)
THEOREM DoneReleases == Spec => []DoneReleasesAp
<1>1. EngineInv => DoneReleasesAp
  BY DEF EngineInv, Released, DoneReleasesAp
<1>2. QED
  BY <1>1, EngineInvariant, PTL

-----------------------------------------------------------------------------
LEMMA FileInvInit == Init => FileInv
<1> SUFFICES ASSUME Init PROVE FileInv
  OBVIOUS
<1>1. \A j \in Job : Alone(j) /\ SlotIsOwn(j)
  BY DEF Init, Alone, SlotIsOwn
<1>2. QED
  BY <1>1, EngineInvInit DEF FileInv

(* A capture is alone from its start on, or was marked as shared: by its   *)
(* own start or by that of the other.                                      *)
LEMMA AloneStep ==
  ASSUME TypeOK, [Next]_vars, \A i \in Job : Alone(i)
  PROVE  \A i \in Job : Alone(i)'
<1> SUFFICES ASSUME NEW i \in Job PROVE Alone(i)'
  OBVIOUS
<1> USE SzAssumption DEF Alone, Rivals, TypeOK, lifeVars, apVars, vars
<1>1. ASSUME NEW j \in Job, Start(j) PROVE Alone(i)'
  BY <1>1 DEF Start, SetPc, SetState
<1>2. ASSUME NEW j \in Job, Stop(j) PROVE Alone(i)'
  BY <1>2 DEF Stop
<1>3. ASSUME NEW j \in Job, Arm(j) PROVE Alone(i)'
  BY <1>3 DEF Arm
<1>4. ASSUME NEW j \in Job, Begin(j) PROVE Alone(i)'
  BY <1>4 DEF Begin, SetPc, SetState
<1>5. ASSUME NEW j \in Job, PreStopped(j) PROVE Alone(i)'
  BY <1>5 DEF PreStopped, StopSlot, SetPc
<1>6. ASSUME NEW j \in Job, Started(j) PROVE Alone(i)'
  BY <1>6 DEF Started, StartSlot, SetState, SetPc
<1>7. ASSUME NEW j \in Job, StartFails(j) PROVE Alone(i)'
  BY <1>7 DEF StartFails, StartSlot, End, SetState, SetPc
<1>8. ASSUME NEW j \in Job, Scan(j) PROVE Alone(i)'
  BY <1>8 DEF Scan, SetPc
<1>9. ASSUME NEW j \in Job, Found(j) PROVE Alone(i)'
  BY <1>9 DEF Found, SetState, SetPc, SetThr
<1>10. ASSUME NEW j \in Job, DiscoveryFails(j) PROVE Alone(i)'
  BY <1>10 DEF DiscoveryFails, End, SetState, SetPc
<1>11. ASSUME NEW j \in Job, ArmWaitOver(j) PROVE Alone(i)'
  BY <1>11 DEF ArmWaitOver, SetState, SetPc
<1>12. ASSUME NEW j \in Job, WindowOver(j) PROVE Alone(i)'
  BY <1>12 DEF WindowOver, SetState, SetPc
<1>13. ASSUME NEW j \in Job, ReaderDone(j) PROVE Alone(i)'
  BY <1>13 DEF ReaderDone, SetState, SetPc, SetThr
<1>14. ASSUME NEW j \in Job, ReaderRaised(j) PROVE Alone(i)'
  BY <1>14 DEF ReaderRaised, SetThr, End, SetState, SetPc
<1>15. ASSUME NEW j \in Job, PostStopped(j) PROVE Alone(i)'
  BY <1>15 DEF PostStopped, StopSlot, End, SetState, SetPc
<1>16. ASSUME NEW j \in Job, PostStopFails(j) PROVE Alone(i)'
  BY <1>16 DEF PostStopFails, StopSlot, End, SetState, SetPc
<1>17. ASSUME NEW j \in Job, Downloaded(j) PROVE Alone(i)'
  BY <1>17 DEF Downloaded, End, SetState, SetPc
<1>18. ASSUME NEW j \in Job, DownloadFails(j) PROVE Alone(i)'
  BY <1>18 DEF DownloadFails, End, SetState, SetPc
<1>19. ASSUME NEW j \in Job, Timeout(j) PROVE Alone(i)'
  BY <1>19 DEF Timeout, SetPc
<1>20. ASSUME NEW j \in Job, Listen(j) PROVE Alone(i)'
  BY <1>20 DEF Listen, SetThr
<1>21. ASSUME NEW j \in Job, Attached(j) PROVE Alone(i)'
  BY <1>21 DEF Attached, SetThr
<1>22. ASSUME NEW j \in Job, AttachFails(j) PROVE Alone(i)'
  BY <1>22 DEF AttachFails, SetThr
<1>23. ASSUME NEW j \in Job, PullStops(j) PROVE Alone(i)'
  BY <1>23 DEF PullStops, SetThr
<1>24. ASSUME NEW j \in Job, PullBreaks(j) PROVE Alone(i)'
  BY <1>24 DEF PullBreaks, SetThr
<1>25. ASSUME NEW a \in Ap, ApRestart(a) PROVE Alone(i)'
  BY <1>25 DEF ApRestart
<1>26. CASE Shutdown
  BY <1>26 DEF Shutdown
<1>27. CASE UNCHANGED vars
  BY <1>27
<1>28. QED
  BY <1>1, <1>2, <1>3, <1>4, <1>5, <1>6, <1>7, <1>8, <1>9, <1>10, <1>11,
     <1>12, <1>13, <1>14, <1>15, <1>16, <1>17, <1>18, <1>19, <1>20,
     <1>21, <1>22, <1>23, <1>24, <1>25, <1>26, <1>27
  DEF Next, CoroutineStep, ThreadStep, Terminated

(* While a capture is alone, nobody else's step reaches its access point.  *)
LEMMA SlotStep ==
  ASSUME FileInv, [Next]_vars
  PROVE  \A i \in Job : SlotIsOwn(i)'
<1>0. EngineInv /\ TypeOK
  BY DEF FileInv, EngineInv
<1>a. \A i \in Job : Alone(i) /\ SlotIsOwn(i) /\ ModeMatchesPc(i)
  BY DEF FileInv, EngineInv
<1> SUFFICES ASSUME NEW i \in Job PROVE SlotIsOwn(i)'
  OBVIOUS
<1> USE <1>0, <1>a, SzAssumption, NobodyAssumption
     DEF SlotIsOwn, Alone, Rivals, ModeMatchesPc, Streams, TypeOK, Finished,
         lifeVars, apVars, vars
<1>1. ASSUME NEW j \in Job, Start(j) PROVE SlotIsOwn(i)'
  BY <1>1 DEF Start, SetPc, SetState
<1>2. ASSUME NEW j \in Job, Stop(j) PROVE SlotIsOwn(i)'
  BY <1>2 DEF Stop
<1>3. ASSUME NEW j \in Job, Arm(j) PROVE SlotIsOwn(i)'
  BY <1>3 DEF Arm
<1>4. ASSUME NEW j \in Job, Begin(j) PROVE SlotIsOwn(i)'
  BY <1>4 DEF Begin, SetPc, SetState
<1>5. ASSUME NEW j \in Job, PreStopped(j) PROVE SlotIsOwn(i)'
  BY <1>5 DEF PreStopped, StopSlot, SetPc
<1>6. ASSUME NEW j \in Job, Started(j) PROVE SlotIsOwn(i)'
  BY <1>6 DEF Started, StartSlot, SetState, SetPc
<1>7. ASSUME NEW j \in Job, StartFails(j) PROVE SlotIsOwn(i)'
  BY <1>7 DEF StartFails, StartSlot, End, SetState, SetPc
<1>8. ASSUME NEW j \in Job, Scan(j) PROVE SlotIsOwn(i)'
  BY <1>8 DEF Scan, SetPc
<1>9. ASSUME NEW j \in Job, Found(j) PROVE SlotIsOwn(i)'
  BY <1>9 DEF Found, SetState, SetPc, SetThr
<1>10. ASSUME NEW j \in Job, DiscoveryFails(j) PROVE SlotIsOwn(i)'
  BY <1>10 DEF DiscoveryFails, End, SetState, SetPc
<1>11. ASSUME NEW j \in Job, ArmWaitOver(j) PROVE SlotIsOwn(i)'
  BY <1>11 DEF ArmWaitOver, SetState, SetPc
<1>12. ASSUME NEW j \in Job, WindowOver(j) PROVE SlotIsOwn(i)'
  BY <1>12 DEF WindowOver, SetState, SetPc
<1>13. ASSUME NEW j \in Job, ReaderDone(j) PROVE SlotIsOwn(i)'
  BY <1>13 DEF ReaderDone, SetState, SetPc, SetThr
<1>14. ASSUME NEW j \in Job, ReaderRaised(j) PROVE SlotIsOwn(i)'
  BY <1>14 DEF ReaderRaised, SetThr, End, SetState, SetPc
<1>15. ASSUME NEW j \in Job, PostStopped(j) PROVE SlotIsOwn(i)'
  BY <1>15 DEF PostStopped, StopSlot, End, SetState, SetPc
<1>16. ASSUME NEW j \in Job, PostStopFails(j) PROVE SlotIsOwn(i)'
  BY <1>16 DEF PostStopFails, StopSlot, End, SetState, SetPc
<1>17. ASSUME NEW j \in Job, Downloaded(j) PROVE SlotIsOwn(i)'
  BY <1>17 DEF Downloaded, End, SetState, SetPc
<1>18. ASSUME NEW j \in Job, DownloadFails(j) PROVE SlotIsOwn(i)'
  BY <1>18 DEF DownloadFails, End, SetState, SetPc
<1>19. ASSUME NEW j \in Job, Timeout(j) PROVE SlotIsOwn(i)'
  BY <1>19 DEF Timeout, SetPc
<1>20. ASSUME NEW j \in Job, Listen(j) PROVE SlotIsOwn(i)'
  BY <1>20 DEF Listen, SetThr
<1>21. ASSUME NEW j \in Job, Attached(j) PROVE SlotIsOwn(i)'
  BY <1>21 DEF Attached, SetThr
<1>22. ASSUME NEW j \in Job, AttachFails(j) PROVE SlotIsOwn(i)'
  BY <1>22 DEF AttachFails, SetThr
<1>23. ASSUME NEW j \in Job, PullStops(j) PROVE SlotIsOwn(i)'
  BY <1>23 DEF PullStops, SetThr
<1>24. ASSUME NEW j \in Job, PullBreaks(j) PROVE SlotIsOwn(i)'
  BY <1>24 DEF PullBreaks, SetThr
<1>25. ASSUME NEW a \in Ap, ApRestart(a) PROVE SlotIsOwn(i)'
  BY <1>25 DEF ApRestart
<1>26. CASE Shutdown
  BY <1>26 DEF Shutdown
<1>27. CASE UNCHANGED vars
  BY <1>27
<1>28. QED
  BY <1>1, <1>2, <1>3, <1>4, <1>5, <1>6, <1>7, <1>8, <1>9, <1>10, <1>11,
     <1>12, <1>13, <1>14, <1>15, <1>16, <1>17, <1>18, <1>19, <1>20,
     <1>21, <1>22, <1>23, <1>24, <1>25, <1>26, <1>27
  DEF Next, CoroutineStep, ThreadStep, Terminated

LEMMA FileInvStep == FileInv /\ [Next]_vars => FileInv'
  BY EngineInvStep, AloneStep, SlotStep DEF FileInv, EngineInv

(* The file of a capture that never overlapped another on its access point *)
(* never holds the frames of another capture, whatever overlaps and failed *)
(* stops came before it.                                                   *)
THEOREM OwnFile == Spec => []FileIsOwn
<1>1. FileInv => FileIsOwn
  BY DEF FileInv, SlotIsOwn, FileIsOwn
<1>2. QED
  BY <1>1, FileInvInit, FileInvStep, PTL DEF Spec

-----------------------------------------------------------------------------
LEMMA LifecycleStep ==
  EngineInv /\ [Next]_vars =>
    [Lifecycle!LifecycleNext]_(Lifecycle!lifecycleVars)
<1> SUFFICES ASSUME EngineInv, [Next]_vars
             PROVE  [Lifecycle!LifecycleNext]_(Lifecycle!lifecycleVars)
  OBVIOUS
<1> DEFINE Promised == [Lifecycle!LifecycleNext]_(Lifecycle!lifecycleVars)
<1> USE DEF EngineInv, StateMatchesPc, TypeOK, Terminal,
        Lifecycle!LifecycleNext, Lifecycle!lifecycleVars,
        Lifecycle!Progress, Lifecycle!End, Lifecycle!Record, Lifecycle!Succ,
        Lifecycle!Endings, Lifecycle!Terminal, lifeVars, apVars, vars
<1>1. ASSUME NEW j \in Job, Start(j) PROVE Promised
  BY <1>1 DEF Start, SetPc, SetState
<1>2. ASSUME NEW j \in Job, Stop(j) PROVE Promised
  BY <1>2 DEF Stop
<1>3. ASSUME NEW j \in Job, Arm(j) PROVE Promised
  BY <1>3 DEF Arm
<1>4. ASSUME NEW j \in Job, Begin(j) PROVE Promised
  BY <1>4 DEF Begin, SetPc, SetState
<1>5. ASSUME NEW j \in Job, PreStopped(j) PROVE Promised
  BY <1>5 DEF PreStopped, StopSlot, SetPc
<1>6. ASSUME NEW j \in Job, Started(j) PROVE Promised
  BY <1>6 DEF Started, StartSlot, SetState, SetPc
<1>7. ASSUME NEW j \in Job, StartFails(j) PROVE Promised
  BY <1>7 DEF StartFails, StartSlot, End, SetState, SetPc
<1>8. ASSUME NEW j \in Job, Scan(j) PROVE Promised
  BY <1>8 DEF Scan, SetPc
<1>9. ASSUME NEW j \in Job, Found(j) PROVE Promised
  BY <1>9 DEF Found, SetState, SetPc, SetThr
<1>10. ASSUME NEW j \in Job, DiscoveryFails(j) PROVE Promised
  BY <1>10 DEF DiscoveryFails, End, SetState, SetPc
<1>11. ASSUME NEW j \in Job, ArmWaitOver(j) PROVE Promised
  BY <1>11 DEF ArmWaitOver, SetState, SetPc
<1>12. ASSUME NEW j \in Job, WindowOver(j) PROVE Promised
  BY <1>12 DEF WindowOver, SetState, SetPc
<1>13. ASSUME NEW j \in Job, ReaderDone(j) PROVE Promised
  BY <1>13 DEF ReaderDone, SetState, SetPc, SetThr
<1>14. ASSUME NEW j \in Job, ReaderRaised(j) PROVE Promised
  BY <1>14 DEF ReaderRaised, SetThr, End, SetState, SetPc
<1>15. ASSUME NEW j \in Job, PostStopped(j) PROVE Promised
  BY <1>15 DEF PostStopped, StopSlot, End, SetState, SetPc
<1>16. ASSUME NEW j \in Job, PostStopFails(j) PROVE Promised
  BY <1>16 DEF PostStopFails, StopSlot, End, SetState, SetPc
<1>17. ASSUME NEW j \in Job, Downloaded(j) PROVE Promised
  BY <1>17 DEF Downloaded, End, SetState, SetPc
<1>18. ASSUME NEW j \in Job, DownloadFails(j) PROVE Promised
  BY <1>18 DEF DownloadFails, End, SetState, SetPc
<1>19. ASSUME NEW j \in Job, Timeout(j) PROVE Promised
  BY <1>19 DEF Timeout, SetPc
<1>20. ASSUME NEW j \in Job, Listen(j) PROVE Promised
  BY <1>20 DEF Listen, SetThr
<1>21. ASSUME NEW j \in Job, Attached(j) PROVE Promised
  BY <1>21 DEF Attached, SetThr
<1>22. ASSUME NEW j \in Job, AttachFails(j) PROVE Promised
  BY <1>22 DEF AttachFails, SetThr
<1>23. ASSUME NEW j \in Job, PullStops(j) PROVE Promised
  BY <1>23 DEF PullStops, SetThr
<1>24. ASSUME NEW j \in Job, PullBreaks(j) PROVE Promised
  BY <1>24 DEF PullBreaks, SetThr
<1>25. ASSUME NEW a \in Ap, ApRestart(a) PROVE Promised
  BY <1>25 DEF ApRestart
<1>26. CASE Shutdown
  BY <1>26 DEF Shutdown
<1>27. CASE UNCHANGED vars
  BY <1>27
<1>28. QED
  BY <1>1, <1>2, <1>3, <1>4, <1>5, <1>6, <1>7, <1>8, <1>9, <1>10, <1>11,
     <1>12, <1>13, <1>14, <1>15, <1>16, <1>17, <1>18, <1>19, <1>20,
     <1>21, <1>22, <1>23, <1>24, <1>25, <1>26, <1>27
  DEF Next, CoroutineStep, ThreadStep, Terminated

(* The SmartZone back end implements the abstract life cycle.              *)
THEOREM Refinement == Spec => ImplementsLifecycle
<1>1. Init => Lifecycle!LifecycleInit
  BY DEF Init, Lifecycle!LifecycleInit
<1>2. QED
  BY <1>1, LifecycleStep, EngineInvariant, PTL
  DEF Spec, ImplementsLifecycle, Lifecycle!LifecycleSpec
=============================================================================
