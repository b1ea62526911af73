--------------------------- MODULE SshEngineProofs ---------------------------
(***************************************************************************)
(* Theorems about SshEngine, for every set of captures, access points and  *)
(* radios and every size of the worker pool.                               *)
(*                                                                         *)
(* EngineInv is inductive; StreamInv adds who may have left an access      *)
(* point's radio streaming, captures that share a radio included. Each     *)
(* step lemma has one step per action of SshEngine.                        *)
(***************************************************************************)
EXTENDS SshEngine, TLAPS

(* A worker thread starts in one of its steps.                             *)
LEMMA FirstStepType ==
  ASSUME TypeOK, NEW j \in Job
  PROVE  FirstStep(pc[j]) \in Running \cap ThrStates
  BY DEF TypeOK, FirstStep, Running, ThrStates

-----------------------------------------------------------------------------
LEMMA EngineInvInit == Init => EngineInv
<1> SUFFICES ASSUME Init PROVE EngineInv
  OBVIOUS
<1>1. pc \in [Job -> PcStates] /\ thr \in [Job -> ThrStates]
  BY DEF Init, PcStates, ThrStates
<1>2. queue \in Seq(Job)
  BY DEF Init
<1>3. stream \in [Ap -> Iface \cup {Idle}]
  BY DEF Init
<1>4. iface \in [Job -> Iface] /\ pool \in Nat
  BY RadioAssumption, PoolAssumption DEF Init
<1>5. TypeOK
  BY <1>1, <1>2, <1>3, <1>4 DEF Init, TypeOK
<1>6. \A j \in Job : ThreadMatchesPc(j) /\ StateMatchesPc(j) /\ FileAccounted(j)
  BY DEF Init, ThreadMatchesPc, StateMatchesPc, FileAccounted
<1>7. QED
  BY <1>5, <1>6 DEF EngineInv

(* Every step keeps the types: the sidecar's needs StateMatchesPc, which   *)
(* is why TypeOK is not inductive alone.                                   *)
LEMMA TypeStep == EngineInv /\ [Next]_vars => TypeOK'
<1> SUFFICES ASSUME EngineInv, [Next]_vars PROVE TypeOK'
  OBVIOUS
<1> USE RadioAssumption
     DEF EngineInv, TypeOK, PcStates, ThrStates, Running, Finished, Terminal,
         lifeVars, readerVars, apVars, setup, vars
<1>1. ASSUME NEW j \in Job, Begin(j) PROVE TypeOK'
  BY <1>1 DEF Begin, Submit, SetState, SetThr
<1>2. ASSUME NEW j \in Job, EnterCapturing(j) PROVE TypeOK'
  BY <1>2 DEF EnterCapturing, Submit, SetState, SetThr
<1>3. ASSUME NEW j \in Job, ReaderDone(j) PROVE TypeOK'
  BY <1>3 DEF ReaderDone, Submit, SetState, SetThr
<1>4. ASSUME NEW j \in Job, Complete(j) PROVE TypeOK'
  BY <1>4 DEF Complete, Outcome, SetState, SetThr
<1>5. ASSUME NEW j \in Job, RunFails(j) PROVE TypeOK'
  BY <1>5 DEF RunFails, Submit, SetState, SetThr
<1>6. ASSUME NEW j \in Job, CleanedUp(j) PROVE TypeOK'
  BY <1>6 DEF CleanedUp, SetThr, StateMatchesPc
<1>7. ASSUME NEW j \in Job, Timeout(j) PROVE TypeOK'
  BY <1>7 DEF Timeout
<1>8. ASSUME NEW j \in Job, Dispatch(j) PROVE TypeOK'
  <2>1. thr' \in [Job -> ThrStates]
    BY <1>8, FirstStepType DEF Dispatch, SetThr
  <2>2. queue' \in Seq(Job)
    BY <1>8 DEF Dispatch
  <2>3. QED
    BY <2>1, <2>2, <1>8 DEF Dispatch
<1>9. ASSUME NEW j \in Job, LoggedIn(j) PROVE TypeOK'
  BY <1>9 DEF LoggedIn, SetState, SetThr
<1>10. ASSUME NEW j \in Job, Tuned(j) PROVE TypeOK'
  BY <1>10 DEF Tuned, SetThr
<1>11. ASSUME NEW j \in Job, ConfigureRaises(j) PROVE TypeOK'
  BY <1>11 DEF ConfigureRaises, SetThr
<1>12. ASSUME NEW j \in Job, StreamEnabled(j) PROVE TypeOK'
  BY <1>12 DEF StreamEnabled, SetThr
<1>13. ASSUME NEW j \in Job, StreamUnanswered(j) PROVE TypeOK'
  BY <1>13 DEF StreamUnanswered, SetThr
<1>14. ASSUME NEW j \in Job, Listen(j) PROVE TypeOK'
  BY <1>14 DEF Listen, SetThr
<1>15. ASSUME NEW j \in Job, Attached(j) PROVE TypeOK'
  BY <1>15 DEF Attached, SetThr
<1>16. ASSUME NEW j \in Job, AttachFails(j) PROVE TypeOK'
  BY <1>16 DEF AttachFails, SetThr
<1>17. ASSUME NEW j \in Job, PullStops(j) PROVE TypeOK'
  BY <1>17 DEF PullStops, SetThr
<1>18. ASSUME NEW j \in Job, Quiesce(j) PROVE TypeOK'
  BY <1>18 DEF Quiesce, SetThr
<1>19. ASSUME NEW j \in Job, QuiesceLost(j) PROVE TypeOK'
  BY <1>19 DEF QuiesceLost, SetThr
<1>20. ASSUME NEW j \in Job, Start(j) PROVE TypeOK'
  BY <1>20 DEF Start, SetState
<1>21. ASSUME NEW j \in Job, Stop(j) PROVE TypeOK'
  BY <1>21 DEF Stop
<1>22. ASSUME NEW j \in Job, FrameArrives(j) PROVE TypeOK'
  BY <1>22 DEF FrameArrives
<1>23. ASSUME NEW j \in Job, PullCapped(j) PROVE TypeOK'
  BY <1>23 DEF PullCapped, SetThr
<1>24. ASSUME NEW j \in Job, PullBreaks(j) PROVE TypeOK'
  BY <1>24 DEF PullBreaks, SetThr
<1>25. ASSUME NEW a \in Ap, ApRestart(a) PROVE TypeOK'
  BY <1>25 DEF ApRestart
<1>26. CASE Shutdown
  BY <1>26 DEF Shutdown
<1>27. CASE UNCHANGED vars
  BY <1>27
<1>28. QED
  BY <1>1, <1>2, <1>3, <1>4, <1>5, <1>6, <1>7, <1>8, <1>9, <1>10, <1>11,
     <1>12, <1>13, <1>14, <1>15, <1>16, <1>17, <1>18, <1>19, <1>20,
     <1>21, <1>22, <1>23, <1>24, <1>25, <1>26, <1>27
  DEF Next, CoroutineStep, ThreadStep, OptionalStep, Terminated

(* Every step keeps what the coroutine's position says of a capture's      *)
(* thread, state and file.                                                 *)
LEMMA EngineInvStep == EngineInv /\ [Next]_vars => EngineInv'
<1> SUFFICES ASSUME EngineInv, [Next]_vars PROVE EngineInv'
  OBVIOUS
<1> DEFINE JobInv(i) ==
      ThreadMatchesPc(i) /\ StateMatchesPc(i) /\ FileAccounted(i)
<1>0. TypeOK /\ TypeOK' /\ \A i \in Job : JobInv(i)
  BY TypeStep DEF EngineInv
<1> SUFFICES ASSUME NEW i \in Job PROVE JobInv(i)'
  BY <1>0 DEF EngineInv
<1> USE <1>0 DEF ThreadMatchesPc, StateMatchesPc, FileAccounted, TypeOK,
        Running, Finished, Terminal, lifeVars, readerVars, apVars, setup, vars
<1>1. ASSUME NEW j \in Job, Begin(j) PROVE JobInv(i)'
  BY <1>1 DEF Begin, Submit, SetState, SetThr
<1>2. ASSUME NEW j \in Job, EnterCapturing(j) PROVE JobInv(i)'
  BY <1>2 DEF EnterCapturing, Submit, SetState, SetThr
<1>3. ASSUME NEW j \in Job, ReaderDone(j) PROVE JobInv(i)'
  BY <1>3 DEF ReaderDone, Submit, SetState, SetThr
<1>4. ASSUME NEW j \in Job, Complete(j) PROVE JobInv(i)'
  BY <1>4 DEF Complete, Outcome, SetState, SetThr
<1>5. ASSUME NEW j \in Job, RunFails(j) PROVE JobInv(i)'
  BY <1>5 DEF RunFails, Submit, SetState, SetThr
<1>6. ASSUME NEW j \in Job, CleanedUp(j) PROVE JobInv(i)'
  BY <1>6 DEF CleanedUp, SetThr
<1>7. ASSUME NEW j \in Job, Timeout(j) PROVE JobInv(i)'
  BY <1>7 DEF Timeout
<1>8. ASSUME NEW j \in Job, Dispatch(j) PROVE JobInv(i)'
  BY <1>8 DEF Dispatch, SetThr, FirstStep
<1>9. ASSUME NEW j \in Job, LoggedIn(j) PROVE JobInv(i)'
  BY <1>9 DEF LoggedIn, SetState, SetThr
<1>10. ASSUME NEW j \in Job, Tuned(j) PROVE JobInv(i)'
  BY <1>10 DEF Tuned, SetThr
<1>11. ASSUME NEW j \in Job, ConfigureRaises(j) PROVE JobInv(i)'
  BY <1>11 DEF ConfigureRaises, SetThr
<1>12. ASSUME NEW j \in Job, StreamEnabled(j) PROVE JobInv(i)'
  BY <1>12 DEF StreamEnabled, SetThr
<1>13. ASSUME NEW j \in Job, StreamUnanswered(j) PROVE JobInv(i)'
  BY <1>13 DEF StreamUnanswered, SetThr
<1>14. ASSUME NEW j \in Job, Listen(j) PROVE JobInv(i)'
  BY <1>14 DEF Listen, SetThr
<1>15. ASSUME NEW j \in Job, Attached(j) PROVE JobInv(i)'
  BY <1>15 DEF Attached, SetThr
<1>16. ASSUME NEW j \in Job, AttachFails(j) PROVE JobInv(i)'
  BY <1>16 DEF AttachFails, SetThr
<1>17. ASSUME NEW j \in Job, PullStops(j) PROVE JobInv(i)'
  BY <1>17 DEF PullStops, SetThr
<1>18. ASSUME NEW j \in Job, Quiesce(j) PROVE JobInv(i)'
  BY <1>18 DEF Quiesce, SetThr
<1>19. ASSUME NEW j \in Job, QuiesceLost(j) PROVE JobInv(i)'
  BY <1>19 DEF QuiesceLost, SetThr
<1>20. ASSUME NEW j \in Job, Start(j) PROVE JobInv(i)'
  BY <1>20 DEF Start, SetState
<1>21. ASSUME NEW j \in Job, Stop(j) PROVE JobInv(i)'
  BY <1>21 DEF Stop
<1>22. ASSUME NEW j \in Job, FrameArrives(j) PROVE JobInv(i)'
  BY <1>22 DEF FrameArrives
<1>23. ASSUME NEW j \in Job, PullCapped(j) PROVE JobInv(i)'
  BY <1>23 DEF PullCapped, SetThr
<1>24. ASSUME NEW j \in Job, PullBreaks(j) PROVE JobInv(i)'
  BY <1>24 DEF PullBreaks, SetThr
<1>25. ASSUME NEW a \in Ap, ApRestart(a) PROVE JobInv(i)'
  BY <1>25 DEF ApRestart
<1>26. CASE Shutdown
  BY <1>26 DEF Shutdown
<1>27. CASE UNCHANGED vars
  BY <1>27
<1>28. QED
  BY <1>1, <1>2, <1>3, <1>4, <1>5, <1>6, <1>7, <1>8, <1>9, <1>10, <1>11,
     <1>12, <1>13, <1>14, <1>15, <1>16, <1>17, <1>18, <1>19, <1>20,
     <1>21, <1>22, <1>23, <1>24, <1>25, <1>26, <1>27
  DEF Next, CoroutineStep, ThreadStep, OptionalStep, Terminated

LEMMA EngineInvariant == Spec => []EngineInv
  BY EngineInvInit, EngineInvStep, PTL DEF Spec

(* Type correctness.                                                       *)
THEOREM TypeCorrect == Spec => []TypeOK
  BY EngineInvariant, PTL DEF EngineInv

(* No capture is reported done without a pcap file.                        *)
THEOREM DoneMeansFile == Spec => []DoneHasFile
<1>1. EngineInv => DoneHasFile
  BY DEF EngineInv, FileAccounted, DoneHasFile
<1>2. QED
  BY <1>1, EngineInvariant, PTL

-----------------------------------------------------------------------------
LEMMA StreamInvInit == Init => StreamInv
<1> SUFFICES ASSUME Init PROVE StreamInv
  OBVIOUS
<1>1. \A j \in Job : StreamAccounted(j)
  BY IdleAssumption, RadioAssumption DEF Init, StreamAccounted, OwnStream
<1>2. QED
  BY <1>1, EngineInvInit DEF StreamInv

(* Only its own idling frees a capture of the stream it may have left.     *)
LEMMA MindsUntilIdled ==
  ASSUME EngineInv, [Next]_vars, NEW i \in Job, Minds(i)
  PROVE  Minds(i)' \/ Quiesce(i)
<1> DEFINE Minded == Minds(i)' \/ Quiesce(i)
<1>0. TypeOK /\ ThreadMatchesPc(i)
  BY DEF EngineInv
<1> SUFFICES Minded
  OBVIOUS
<1> USE <1>0 DEF Minds, ThreadMatchesPc, TypeOK, Running, Finished,
        lifeVars, readerVars, apVars, setup, vars
<1>1. ASSUME NEW j \in Job, Begin(j) PROVE Minded
  BY <1>1 DEF Begin, Submit, SetState, SetThr
<1>2. ASSUME NEW j \in Job, EnterCapturing(j) PROVE Minded
  BY <1>2 DEF EnterCapturing, Submit, SetState, SetThr
<1>3. ASSUME NEW j \in Job, ReaderDone(j) PROVE Minded
  BY <1>3 DEF ReaderDone, Submit, SetState, SetThr
<1>4. ASSUME NEW j \in Job, Complete(j) PROVE Minded
  BY <1>4 DEF Complete, Outcome, SetState, SetThr
<1>5. ASSUME NEW j \in Job, RunFails(j) PROVE Minded
  BY <1>5 DEF RunFails, Submit, SetState, SetThr
<1>6. ASSUME NEW j \in Job, CleanedUp(j) PROVE Minded
  BY <1>6 DEF CleanedUp, SetThr
<1>7. ASSUME NEW j \in Job, Timeout(j) PROVE Minded
  BY <1>7 DEF Timeout
<1>8. ASSUME NEW j \in Job, Dispatch(j) PROVE Minded
  BY <1>8 DEF Dispatch, SetThr, FirstStep
<1>9. ASSUME NEW j \in Job, LoggedIn(j) PROVE Minded
  BY <1>9 DEF LoggedIn, SetState, SetThr
<1>10. ASSUME NEW j \in Job, Tuned(j) PROVE Minded
  BY <1>10 DEF Tuned, SetThr
<1>11. ASSUME NEW j \in Job, ConfigureRaises(j) PROVE Minded
  BY <1>11 DEF ConfigureRaises, SetThr
<1>12. ASSUME NEW j \in Job, StreamEnabled(j) PROVE Minded
  BY <1>12 DEF StreamEnabled, SetThr
<1>13. ASSUME NEW j \in Job, StreamUnanswered(j) PROVE Minded
  BY <1>13 DEF StreamUnanswered, SetThr
<1>14. ASSUME NEW j \in Job, Listen(j) PROVE Minded
  BY <1>14 DEF Listen, SetThr
<1>15. ASSUME NEW j \in Job, Attached(j) PROVE Minded
  BY <1>15 DEF Attached, SetThr
<1>16. ASSUME NEW j \in Job, AttachFails(j) PROVE Minded
  BY <1>16 DEF AttachFails, SetThr
<1>17. ASSUME NEW j \in Job, PullStops(j) PROVE Minded
  BY <1>17 DEF PullStops, SetThr
<1>18. ASSUME NEW j \in Job, Quiesce(j) PROVE Minded
  <2>1. CASE i = j
    BY <1>18, <2>1
  <2>2. CASE i # j
    BY <1>18, <2>2 DEF Quiesce, SetThr
  <2>3. QED
    BY <2>1, <2>2
<1>19. ASSUME NEW j \in Job, QuiesceLost(j) PROVE Minded
  BY <1>19 DEF QuiesceLost, SetThr
<1>20. ASSUME NEW j \in Job, Start(j) PROVE Minded
  BY <1>20 DEF Start, SetState
<1>21. ASSUME NEW j \in Job, Stop(j) PROVE Minded
  BY <1>21 DEF Stop
<1>22. ASSUME NEW j \in Job, FrameArrives(j) PROVE Minded
  BY <1>22 DEF FrameArrives
<1>23. ASSUME NEW j \in Job, PullCapped(j) PROVE Minded
  BY <1>23 DEF PullCapped, SetThr
<1>24. ASSUME NEW j \in Job, PullBreaks(j) PROVE Minded
  BY <1>24 DEF PullBreaks, SetThr
<1>25. ASSUME NEW a \in Ap, ApRestart(a) PROVE Minded
  BY <1>25 DEF ApRestart
<1>26. CASE Shutdown
  BY <1>26 DEF Shutdown
<1>27. CASE UNCHANGED vars
  BY <1>27
<1>28. QED
  BY <1>1, <1>2, <1>3, <1>4, <1>5, <1>6, <1>7, <1>8, <1>9, <1>10, <1>11,
     <1>12, <1>13, <1>14, <1>15, <1>16, <1>17, <1>18, <1>19, <1>20,
     <1>21, <1>22, <1>23, <1>24, <1>25, <1>26, <1>27
  DEF Next, CoroutineStep, ThreadStep, OptionalStep, Terminated

(* What may change an access point's stream; radios are chosen once.       *)
LEMMA StreamChanges ==
  ASSUME [Next]_vars
  PROVE  /\ iface' = iface
         /\ \/ stream' = stream
            \/ \E j \in Job : StreamEnabled(j) \/ Quiesce(j)
            \/ \E a \in Ap : ApRestart(a)
<1> USE DEF lifeVars, readerVars, apVars, setup, vars
<1>1. iface' = iface
  BY DEF Next, CoroutineStep, ThreadStep, OptionalStep, Terminated, Begin,
     EnterCapturing, ReaderDone, Complete, RunFails, CleanedUp, Timeout,
     Dispatch, LoggedIn, Tuned, ConfigureRaises, StreamUnanswered,
     StreamEnabled, Quiesce, ApRestart,
     Listen, Attached, AttachFails, PullStops, QuiesceLost, Start, Stop,
     FrameArrives, PullCapped, PullBreaks, Shutdown
<1>2. \/ stream' = stream
      \/ \E j \in Job : StreamEnabled(j) \/ Quiesce(j)
      \/ \E a \in Ap : ApRestart(a)
  BY DEF Next, CoroutineStep, ThreadStep, OptionalStep, Terminated, Begin,
     EnterCapturing, ReaderDone, Complete, RunFails, CleanedUp, Timeout,
     Dispatch, LoggedIn, Tuned, ConfigureRaises, StreamUnanswered,
     Listen, Attached, AttachFails, PullStops, QuiesceLost, Start, Stop,
     FrameArrives, PullCapped, PullBreaks, Shutdown
<1>3. QED
  BY <1>1, <1>2

(* A radio that streams has somebody who minds it: who switched it on, or  *)
(* the one who minded it before.                                           *)
LEMMA StreamInvStep == StreamInv /\ [Next]_vars => StreamInv'
<1> SUFFICES ASSUME StreamInv, [Next]_vars PROVE StreamInv'
  OBVIOUS
<1>0. EngineInv /\ EngineInv' /\ TypeOK /\ \A i \in Job : StreamAccounted(i)
  BY EngineInvStep DEF StreamInv, EngineInv
<1> SUFFICES ASSUME NEW i \in Job, OwnStream(i)'
             PROVE  \E k \in SameRadio(i) : Minds(k)'
  <2>1. \A i \in Job : SameRadio(i)' = SameRadio(i)
    BY StreamChanges DEF SameRadio
  <2>2. QED
    BY <1>0, <2>1, StreamChanges DEF StreamInv, StreamAccounted, SameRadio
<1>1. CASE OwnStream(i)
  <2>1. PICK k \in SameRadio(i) : Minds(k)
    BY <1>0, <1>1 DEF StreamAccounted
  <2>2. CASE Quiesce(k)
    <3>1. OwnStream(k) /\ stream' = [stream EXCEPT ![ApOf[k]] = Idle]
      BY <1>1, <2>1, <2>2 DEF Quiesce, OwnStream, SameRadio
    <3>2. stream'[ApOf[i]] = Idle
      BY <1>0, <2>1, <3>1, RadioAssumption DEF SameRadio, TypeOK
    <3>3. iface'[i] # Idle
      BY <1>0, IdleAssumption DEF EngineInv, TypeOK
    <3>4. QED
      BY <3>2, <3>3 DEF OwnStream
  <2>3. CASE ~Quiesce(k)
    BY <1>0, <2>1, <2>3, MindsUntilIdled DEF SameRadio
  <2>4. QED
    BY <2>2, <2>3
<1>2. CASE ~OwnStream(i)
  <2>1. stream' # stream
    BY <1>2, StreamChanges DEF OwnStream
  <2>2. iface'[i] = iface[i] /\ iface[i] \in Iface /\ ApOf[i] \in Ap
    BY <1>0, StreamChanges, RadioAssumption DEF TypeOK
  <2>3. ASSUME NEW j \in Job, StreamEnabled(j)
        PROVE  \E k \in SameRadio(i) : Minds(k)'
    <3>1. j \in SameRadio(i)
      BY <1>0, <1>2, <2>2, <2>3 DEF StreamEnabled, OwnStream, SameRadio, TypeOK
    <3>2. pc[j] = "configure" /\ pc'[j] = "configure"
      BY <1>0, <2>3 DEF EngineInv, StreamEnabled, ThreadMatchesPc, TypeOK,
         PcStates, Finished
    <3>3. QED
      BY <3>1, <3>2 DEF Minds
  <2>4. ASSUME NEW j \in Job, Quiesce(j) PROVE FALSE
    BY <1>0, <1>2, <2>2, <2>4, IdleAssumption DEF Quiesce, OwnStream, TypeOK
  <2>5. ASSUME NEW a \in Ap, ApRestart(a) PROVE FALSE
    BY <1>0, <1>2, <2>2, <2>5, IdleAssumption DEF ApRestart, OwnStream, TypeOK
  <2>6. QED
    BY <2>1, <2>3, <2>4, <2>5, StreamChanges
<1>3. QED
  BY <1>1, <1>2

(* On every exit path the radio is idled, unless the AP could not be told, *)
(* whichever captures share radios.                                        *)
THEOREM IdledOnExit == Spec => []IdleOnExit
<1>1. StreamInv => IdleOnExit
  BY DEF StreamInv, StreamAccounted, Minds, IdleOnExit
<1>2. QED
  BY <1>1, StreamInvStep, StreamInvInit, PTL DEF Spec

(* No start, refusal or clean-up of a capture takes the stream of another  *)
(* radio away.                                                             *)
THEOREM OnlyOwnExit == Spec => OnlyOwnExitIdles
<1>1. TypeOK /\ [Next]_vars => [OwnExitIdles]_vars
  <2> SUFFICES ASSUME TypeOK, [Next]_vars, NEW i \in Job,
                      OwnStream(i), ~OwnStream(i)',
                      ~ \E a \in Ap : ApRestart(a)
               PROVE  \E k \in SameRadio(i) : thr[k] = "quiesce"
    BY DEF OwnExitIdles
  <2>1. iface' = iface /\ stream' # stream
    BY StreamChanges DEF OwnStream
  <2>2. PICK j \in Job : StreamEnabled(j) \/ Quiesce(j)
    BY <2>1, StreamChanges
  <2>3. CASE StreamEnabled(j)
    BY <2>1, <2>3, IdleAssumption, RadioAssumption
    DEF StreamEnabled, OwnStream, TypeOK
  <2>4. CASE Quiesce(j)
    <3>1. j \in SameRadio(i)
      BY <2>1, <2>4, RadioAssumption DEF Quiesce, OwnStream, SameRadio, TypeOK
    <3>2. QED
      BY <2>4, <3>1 DEF Quiesce
  <2>5. QED
    BY <2>2, <2>3, <2>4
<1>2. QED
  BY <1>1, TypeCorrect, PTL DEF Spec, OnlyOwnExitIdles

-----------------------------------------------------------------------------
LEMMA LifecycleStep ==
  EngineInv /\ [Next]_vars =>
    [Lifecycle!LifecycleNext]_(Lifecycle!lifecycleVars)
<1> SUFFICES ASSUME EngineInv, [Next]_vars
             PROVE  [Lifecycle!LifecycleNext]_(Lifecycle!lifecycleVars)
  OBVIOUS
<1> DEFINE Promised == [Lifecycle!LifecycleNext]_(Lifecycle!lifecycleVars)
<1> USE DEF EngineInv, StateMatchesPc, TypeOK, Terminal,
        Lifecycle!LifecycleNext, Lifecycle!lifecycleVars,
        Lifecycle!Progress, Lifecycle!End, Lifecycle!Record, Lifecycle!Succ,
        Lifecycle!Endings, Lifecycle!Terminal, lifeVars, readerVars, apVars, setup, vars
<1>1. ASSUME NEW j \in Job, Begin(j) PROVE Promised
  BY <1>1 DEF Begin, Submit, SetState, SetThr
<1>2. ASSUME NEW j \in Job, EnterCapturing(j) PROVE Promised
  BY <1>2 DEF EnterCapturing, Submit, SetState, SetThr
<1>3. ASSUME NEW j \in Job, ReaderDone(j) PROVE Promised
  BY <1>3 DEF ReaderDone, Submit, SetState, SetThr
<1>4. ASSUME NEW j \in Job, Complete(j) PROVE Promised
  BY <1>4 DEF Complete, Outcome, SetState, SetThr
<1>5. ASSUME NEW j \in Job, RunFails(j) PROVE Promised
  BY <1>5 DEF RunFails, Submit, SetState, SetThr
<1>6. ASSUME NEW j \in Job, CleanedUp(j) PROVE Promised
  BY <1>6 DEF CleanedUp, SetThr
<1>7. ASSUME NEW j \in Job, Timeout(j) PROVE Promised
  BY <1>7 DEF Timeout
<1>8. ASSUME NEW j \in Job, Dispatch(j) PROVE Promised
  BY <1>8 DEF Dispatch, SetThr, FirstStep
<1>9. ASSUME NEW j \in Job, LoggedIn(j) PROVE Promised
  <2>1. pc[j] = "configure" /\ state[j] = "configuring"
    BY <1>9 DEF LoggedIn, ThreadMatchesPc, PcStates, Finished
  <2>2. QED
    BY <2>1, <1>9 DEF LoggedIn, SetState, SetThr
<1>10. ASSUME NEW j \in Job, Tuned(j) PROVE Promised
  BY <1>10 DEF Tuned, SetThr
<1>11. ASSUME NEW j \in Job, ConfigureRaises(j) PROVE Promised
  BY <1>11 DEF ConfigureRaises, SetThr
<1>12. ASSUME NEW j \in Job, StreamEnabled(j) PROVE Promised
  BY <1>12 DEF StreamEnabled, SetThr
<1>13. ASSUME NEW j \in Job, StreamUnanswered(j) PROVE Promised
  BY <1>13 DEF StreamUnanswered, SetThr
<1>14. ASSUME NEW j \in Job, Listen(j) PROVE Promised
  BY <1>14 DEF Listen, SetThr
<1>15. ASSUME NEW j \in Job, Attached(j) PROVE Promised
  BY <1>15 DEF Attached, SetThr
<1>16. ASSUME NEW j \in Job, AttachFails(j) PROVE Promised
  BY <1>16 DEF AttachFails, SetThr
<1>17. ASSUME NEW j \in Job, PullStops(j) PROVE Promised
  BY <1>17 DEF PullStops, SetThr
<1>18. ASSUME NEW j \in Job, Quiesce(j) PROVE Promised
  BY <1>18 DEF Quiesce, SetThr
<1>19. ASSUME NEW j \in Job, QuiesceLost(j) PROVE Promised
  BY <1>19 DEF QuiesceLost, SetThr
<1>20. ASSUME NEW j \in Job, Start(j) PROVE Promised
  BY <1>20 DEF Start, SetState
<1>21. ASSUME NEW j \in Job, Stop(j) PROVE Promised
  BY <1>21 DEF Stop
<1>22. ASSUME NEW j \in Job, FrameArrives(j) PROVE Promised
  BY <1>22 DEF FrameArrives
<1>23. ASSUME NEW j \in Job, PullCapped(j) PROVE Promised
  BY <1>23 DEF PullCapped, SetThr
<1>24. ASSUME NEW j \in Job, PullBreaks(j) PROVE Promised
  BY <1>24 DEF PullBreaks, SetThr
<1>25. ASSUME NEW a \in Ap, ApRestart(a) PROVE Promised
  BY <1>25 DEF ApRestart
<1>26. CASE Shutdown
  BY <1>26 DEF Shutdown
<1>27. CASE UNCHANGED vars
  BY <1>27
<1>28. QED
  BY <1>1, <1>2, <1>3, <1>4, <1>5, <1>6, <1>7, <1>8, <1>9, <1>10, <1>11,
     <1>12, <1>13, <1>14, <1>15, <1>16, <1>17, <1>18, <1>19, <1>20,
     <1>21, <1>22, <1>23, <1>24, <1>25, <1>26, <1>27
  DEF Next, CoroutineStep, ThreadStep, OptionalStep, Terminated

(* The SSH back end implements the abstract life cycle.                    *)
THEOREM Refinement == Spec => ImplementsLifecycle
<1>1. Init => Lifecycle!LifecycleInit
  BY DEF Init, Lifecycle!LifecycleInit
<1>2. QED
  BY <1>1, LifecycleStep, EngineInvariant, PTL
  DEF Spec, ImplementsLifecycle, Lifecycle!LifecycleSpec
=============================================================================
