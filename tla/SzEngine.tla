------------------------------- MODULE SzEngine -------------------------------
(***************************************************************************)
(* The SmartZone back end of the capture engine: Engine._run_sz, which     *)
(* drives a capture through the controller's HTTP API in one of three      *)
(* modes, and reads the frames itself only in stream_inapp.                *)
(*                                                                         *)
(* The controller and the access point are outside the repository: an      *)
(* access point has one capture slot, a stop turns a running file capture  *)
(* into the file it offers for download, and any request may fail with or  *)
(* without having taken effect. The wait for a pool thread is SshEngine's  *)
(* subject and is left out here.                                           *)
(***************************************************************************)
EXTENDS Naturals

CONSTANTS Job,          \* capture ids
          Ap,           \* access points
          Nobody,       \* owner of an empty slot, of no file
          ApOf,         \* sz_ap_mac
          ModeOf,       \* sz_mode
          Timed         \* captures with a duration_s

ASSUME NobodyAssumption == Nobody \notin Job
ASSUME SzAssumption ==
  /\ ApOf \in [Job -> Ap]
  /\ ModeOf \in [Job -> {"file", "stream_wireshark", "stream_inapp"}]
  /\ Timed \subseteq Job

VARIABLES
  state, ended, sidecar,  \* CaptureJob.state, .ended_at, <id>.json
  pc,        \* the await the capture's coroutine is suspended at
  stop,      \* CaptureJob.stop_event
  armed,     \* CaptureJob.arm_event
  thr,       \* the in-app reader thread
  file,      \* whose frames are in <id>.pcap
  slot,      \* the capture each access point is running for
  ready,     \* the capture whose file each access point offers
  down,      \* the process is shutting down
  shared     \* history: captures that were on one access point with another

lifeVars == <<state, ended, sidecar>>
apVars   == <<slot, ready>>
vars == <<lifeVars, pc, stop, armed, thr, file, apVars, down, shared>>

Terminal == {"done", "failed"}

PcStates == {"none", "created", "prestop", "start", "window", "discover",
             "scan", "arm", "read", "drain", "poststop", "download", "ended"}

Finished  == {"returned", "raised"}
ThrStates == {"none", "attach", "accept", "pull"} \cup Finished

Streams(j) == ModeOf[j] # "file"

(* The other captures under way on the access point of j.                  *)
Rivals(j) == {k \in Job \ {j} : ApOf[k] = ApOf[j] /\ pc[k] \notin {"none", "ended"}}

-----------------------------------------------------------------------------
Init ==
  /\ state   = [j \in Job |-> "absent"]
  /\ ended   = [j \in Job |-> FALSE]
  /\ sidecar = [j \in Job |-> "none"]
  /\ pc      = [j \in Job |-> "none"]
  /\ stop    = [j \in Job |-> FALSE]
  /\ armed   = [j \in Job |-> FALSE]
  /\ thr     = [j \in Job |-> "none"]
  /\ file    = [j \in Job |-> Nobody]
  /\ slot    = [a \in Ap |-> Nobody]
  /\ ready   = [a \in Ap |-> Nobody]
  /\ down    = FALSE
  /\ shared  = {}

SetState(j, s) == state' = [state EXCEPT ![j] = s]
SetPc(j, p)    == pc' = [pc EXCEPT ![j] = p]
SetThr(j, t)   == thr' = [thr EXCEPT ![j] = t]

(* The controller's side of stop_capture and of both start requests.       *)
StopSlot(a) ==
  /\ slot'  = [slot EXCEPT ![a] = Nobody]
  /\ ready' = IF slot[a] # Nobody /\ ~Streams(slot[a])
                THEN [ready EXCEPT ![a] = slot[a]] ELSE ready

StartSlot(j) == slot' = [slot EXCEPT ![ApOf[j]] = j] /\ UNCHANGED ready

(* The end of _run_sz: the outcome, then the sidecar, if it can be written. *)
End(j, outcome) ==
  /\ SetState(j, outcome)
  /\ ended' = [ended EXCEPT ![j] = TRUE]
  /\ \/ sidecar' = [sidecar EXCEPT ![j] = outcome]
     \/ UNCHANGED sidecar
  /\ SetPc(j, "ended")

-----------------------------------------------------------------------------
(* The public operations. *)

(* Nothing keeps two sessions, or an ad-hoc capture, off one access point. *)
Start(j) ==
  /\ ~down
  /\ pc[j] = "none"
  /\ shared' = IF Rivals(j) = {} THEN shared ELSE shared \cup Rivals(j) \cup {j}
  /\ SetPc(j, "created")
  /\ SetState(j, "pending")
  /\ UNCHANGED <<ended, sidecar, stop, armed, thr, file, apVars, down>>

Stop(j) ==
  /\ ~down
  /\ pc[j] # "none" /\ state[j] \notin Terminal
  /\ stop' = [stop EXCEPT ![j] = TRUE]
  /\ UNCHANGED <<lifeVars, pc, armed, thr, file, apVars, down, shared>>

Arm(j) ==
  /\ ~down
  /\ state[j] = "awaiting_wireshark"
  /\ armed' = [armed EXCEPT ![j] = TRUE]
  /\ UNCHANGED <<lifeVars, pc, stop, thr, file, apVars, down, shared>>

Shutdown ==
  /\ ~down
  /\ down' = TRUE
  /\ stop' = [j \in Job |-> stop[j] \/ pc[j] # "none"]
  /\ UNCHANGED <<lifeVars, pc, armed, thr, file, apVars, shared>>

-----------------------------------------------------------------------------
(* The coroutine, from one await to the next. *)

Begin(j) ==
  /\ pc[j] = "created"
  /\ SetState(j, "configuring")
  /\ SetPc(j, "prestop")
  /\ UNCHANGED <<ended, sidecar, stop, armed, thr, file, apVars, down, shared>>

(* The pre-emptive stop: whatever it meets, the capture goes on.           *)
PreStopped(j) ==
  /\ pc[j] = "prestop"
  /\ StopSlot(ApOf[j]) \/ UNCHANGED apVars
  /\ SetPc(j, "start")
  /\ UNCHANGED <<lifeVars, stop, armed, thr, file, down, shared>>

Started(j) ==
  /\ pc[j] = "start"
  /\ StartSlot(j)
  /\ \/ ~Streams(j) /\ SetState(j, "capturing") /\ SetPc(j, "window")
     \/ Streams(j) /\ SetPc(j, "discover") /\ UNCHANGED state
  /\ UNCHANGED <<ended, sidecar, stop, armed, thr, file, down, shared>>

StartFails(j) ==
  /\ pc[j] = "start"
  /\ StartSlot(j) \/ UNCHANGED apVars
  /\ End(j, "failed")
  /\ UNCHANGED <<stop, armed, thr, file, down, shared>>

(* One of the eight rounds of discovery: the stop flag is read before the  *)
(* scan, not after it.                                                     *)
Scan(j) ==
  /\ pc[j] = "discover" /\ ~stop[j]
  /\ SetPc(j, "scan")
  /\ UNCHANGED <<lifeVars, stop, armed, thr, file, apVars, down, shared>>

(* Mutant of Found: the in-app branch never announces capturing.           *)
FoundUnannounced(j) ==
  /\ pc[j] = "scan"
  /\ slot[ApOf[j]] # Nobody /\ Streams(slot[ApOf[j]])
  /\ \/ /\ ModeOf[j] = "stream_wireshark"
        /\ SetState(j, "awaiting_wireshark")
        /\ SetPc(j, "arm")
        /\ UNCHANGED thr
     \/ /\ ModeOf[j] # "stream_wireshark"
        /\ SetPc(j, "read")
        /\ SetThr(j, "attach")
        /\ UNCHANGED state
  /\ UNCHANGED <<ended, sidecar, stop, armed, file, apVars, down, shared>>

Found(j) ==
  /\ pc[j] = "scan"
  /\ slot[ApOf[j]] # Nobody /\ Streams(slot[ApOf[j]])
  /\ \/ /\ ModeOf[j] = "stream_wireshark"
        /\ SetState(j, "awaiting_wireshark")
        /\ SetPc(j, "arm")
        /\ UNCHANGED thr
     \/ /\ ModeOf[j] # "stream_wireshark"
        /\ SetState(j, "capturing")
        /\ SetPc(j, "read")
        /\ SetThr(j, "attach")
  /\ UNCHANGED <<ended, sidecar, stop, armed, file, apVars, down, shared>>

(* No monitor interface in eight rounds, or stopped: the RuntimeError      *)
(* leaves the access point streaming.                                      *)
DiscoveryFails(j) ==
  /\ pc[j] \in {"discover", "scan"}
  /\ End(j, "failed")
  /\ UNCHANGED <<stop, armed, thr, file, apVars, down, shared>>

(* Mutant of ArmWaitOver: no safety cap, only the analyst or a stop.       *)
ArmWaitUncapped(j) ==
  /\ pc[j] = "arm"
  /\ \/ stop[j] /\ SetState(j, "finalizing") /\ SetPc(j, "poststop")
     \/ ~stop[j] /\ armed[j] /\ SetState(j, "capturing") /\ SetPc(j, "window")
  /\ UNCHANGED <<ended, sidecar, stop, armed, thr, file, apVars, down, shared>>

(* _await_arm ends on stop, on arm, or when arm_timeout_s is over.         *)
ArmWaitOver(j) ==
  /\ pc[j] = "arm"
  /\ \/ stop[j] /\ SetState(j, "finalizing") /\ SetPc(j, "poststop")
     \/ ~stop[j] /\ SetState(j, "capturing") /\ SetPc(j, "window")
  /\ UNCHANGED <<ended, sidecar, stop, armed, thr, file, apVars, down, shared>>

(* _sz_wait ends on stop or after duration_s, or default_max_duration_s.   *)
WindowOver(j) ==
  /\ pc[j] = "window"
  /\ SetState(j, "finalizing")
  /\ SetPc(j, "poststop")
  /\ UNCHANGED <<ended, sidecar, stop, armed, thr, file, apVars, down, shared>>

Timeout(j) ==
  /\ pc[j] = "read" /\ j \in Timed
  /\ stop' = [stop EXCEPT ![j] = TRUE]
  /\ SetPc(j, "drain")
  /\ UNCHANGED <<lifeVars, armed, thr, file, apVars, down, shared>>

(* What the reader recorded in stats.error is not looked at.               *)
ReaderDone(j) ==
  /\ pc[j] \in {"read", "drain"} /\ thr[j] = "returned"
  /\ SetState(j, "finalizing")
  /\ SetPc(j, "poststop")
  /\ SetThr(j, "none")
  /\ UNCHANGED <<ended, sidecar, stop, armed, file, apVars, down, shared>>

ReaderRaised(j) ==
  /\ pc[j] \in {"read", "drain"} /\ thr[j] = "raised"
  /\ SetThr(j, "none")
  /\ End(j, "failed")
  /\ UNCHANGED <<stop, armed, file, apVars, down, shared>>

(* Mutants of PostStopped: only the file mode sends the stop request; a    *)
(* failed request is ignored, as the pre-emptive one is.                   *)
PostStoppedFileOnly(j) ==
  /\ pc[j] = "poststop"
  /\ \/ Streams(j) /\ End(j, "done") /\ UNCHANGED apVars
     \/ ~Streams(j) /\ StopSlot(ApOf[j]) /\ SetPc(j, "download")
                   /\ UNCHANGED lifeVars
  /\ UNCHANGED <<stop, armed, thr, file, down, shared>>

PostStopIgnored(j) ==
  /\ pc[j] = "poststop"
  /\ StopSlot(ApOf[j]) \/ UNCHANGED apVars
  /\ \/ Streams(j) /\ End(j, "done")
     \/ ~Streams(j) /\ SetPc(j, "download") /\ UNCHANGED lifeVars
  /\ UNCHANGED <<stop, armed, thr, file, down, shared>>

PostStopped(j) ==
  /\ pc[j] = "poststop"
  /\ StopSlot(ApOf[j])
  /\ \/ Streams(j) /\ End(j, "done")
     \/ ~Streams(j) /\ SetPc(j, "download") /\ UNCHANGED lifeVars
  /\ UNCHANGED <<stop, armed, thr, file, down, shared>>

PostStopFails(j) ==
  /\ pc[j] = "poststop"
  /\ StopSlot(ApOf[j]) \/ UNCHANGED apVars
  /\ End(j, "failed")
  /\ UNCHANGED <<stop, armed, thr, file, down, shared>>

(* The archive may hold no pcap: then there is no file, and still done.    *)
Downloaded(j) ==
  /\ pc[j] = "download"
  /\ \/ file' = [file EXCEPT ![j] = ready[ApOf[j]]]
     \/ UNCHANGED file
  /\ End(j, "done")
  /\ UNCHANGED <<stop, armed, thr, apVars, down, shared>>

DownloadFails(j) ==
  /\ pc[j] = "download"
  /\ End(j, "failed")
  /\ UNCHANGED <<stop, armed, thr, file, apVars, down, shared>>

-----------------------------------------------------------------------------
(* RpcapReader.run on the discovered interface (SshEngine has the same     *)
(* thread in detail).                                                      *)

Listen(j) ==
  /\ thr[j] = "attach" /\ ~stop[j]
  /\ SetThr(j, "accept")
  /\ UNCHANGED <<lifeVars, pc, stop, armed, file, apVars, down, shared>>

Attached(j) ==
  /\ thr[j] = "accept"
  /\ slot[ApOf[j]] # Nobody /\ Streams(slot[ApOf[j]])
  /\ file' = [file EXCEPT ![j] = slot[ApOf[j]]]
  /\ SetThr(j, "pull")
  /\ UNCHANGED <<lifeVars, pc, stop, armed, apVars, down, shared>>

AttachFails(j) ==
  /\ thr[j] \in {"attach", "accept"}
  /\ SetThr(j, "returned")
  /\ UNCHANGED <<lifeVars, pc, stop, armed, file, apVars, down, shared>>

(* Mutant of PullStops: the reader is handed an event that only the        *)
(* duration timer sets.                                                    *)
PullStopsTimedOnly(j) ==
  /\ thr[j] = "pull" /\ stop[j] /\ j \in Timed
  /\ SetThr(j, "returned")
  /\ UNCHANGED <<lifeVars, pc, stop, armed, file, apVars, down, shared>>

PullStops(j) ==
  /\ thr[j] = "pull" /\ stop[j]
  /\ SetThr(j, "returned")
  /\ UNCHANGED <<lifeVars, pc, stop, armed, file, apVars, down, shared>>

(* The size cap, a broken connection, or an unwritable file.               *)
PullBreaks(j) ==
  /\ thr[j] = "pull"
  /\ \E t \in Finished : SetThr(j, t)
  /\ UNCHANGED <<lifeVars, pc, stop, armed, file, apVars, down, shared>>

(* An access point reboots: its captures and its file are gone.            *)
ApRestart(a) ==
  /\ slot[a] # Nobody \/ ready[a] # Nobody
  /\ slot'  = [slot EXCEPT ![a] = Nobody]
  /\ ready' = [ready EXCEPT ![a] = Nobody]
  /\ UNCHANGED <<lifeVars, pc, stop, armed, thr, file, down, shared>>

Terminated ==
  /\ down /\ \A j \in Job : pc[j] \in {"none", "ended"}
  /\ UNCHANGED vars

-----------------------------------------------------------------------------
CoroutineStep(j) ==
  \/ Begin(j) \/ PreStopped(j) \/ Started(j) \/ StartFails(j)
  \/ Scan(j) \/ Found(j) \/ DiscoveryFails(j)
  \/ ArmWaitOver(j) \/ WindowOver(j)
  \/ ReaderDone(j) \/ ReaderRaised(j)
  \/ PostStopped(j) \/ PostStopFails(j) \/ Downloaded(j) \/ DownloadFails(j)

ThreadStep(j) ==
  Listen(j) \/ Attached(j) \/ AttachFails(j) \/ PullStops(j)

Next ==
  \/ \E j \in Job : \/ Start(j) \/ Stop(j) \/ Arm(j)
                    \/ CoroutineStep(j) \/ Timeout(j)
                    \/ ThreadStep(j) \/ PullBreaks(j)
  \/ \E a \in Ap : ApRestart(a)
  \/ Shutdown
  \/ Terminated

Spec == Init /\ [][Next]_vars

(* Every HTTP request, sleep and socket of the engine has a time limit.    *)
Fairness ==
  \A j \in Job : /\ WF_vars(CoroutineStep(j)) /\ WF_vars(Timeout(j))
                 /\ WF_vars(ThreadStep(j))

FairSpec == Spec /\ Fairness

-----------------------------------------------------------------------------
(* Every variable ranges over what the code can store in it.               *)
TypeOK ==
  /\ state \in [Job -> {"absent", "pending", "configuring", "capturing",
                        "awaiting_wireshark", "finalizing"} \cup Terminal]
  /\ ended \in [Job -> BOOLEAN]
  /\ sidecar \in [Job -> {"none"} \cup Terminal]
  /\ pc \in [Job -> PcStates]
  /\ stop \in [Job -> BOOLEAN]
  /\ armed \in [Job -> BOOLEAN]
  /\ thr \in [Job -> ThrStates]
  /\ file \in [Job -> Job \cup {Nobody}]
  /\ slot \in [Ap -> Job \cup {Nobody}]
  /\ ready \in [Ap -> Job \cup {Nobody}]
  /\ down \in BOOLEAN
  /\ shared \subseteq Job

(* A capture reported done no longer occupies its access point, whichever  *)
(* mode and whichever of the three ways to its end it took.                *)
DoneReleasesAp ==
  \A j \in Job : state[j] = "done" => slot[ApOf[j]] # j

(* A capture that never overlapped another on its access point has a file  *)
(* of its own frames, whatever earlier captures, overlapping ones and ones *)
(* whose stop failed included, left in the slot or ready to download.      *)
FileIsOwn == \A j \in Job \ shared : file[j] \in {j, Nobody}

(* The back end implements the life cycle its readers rely on.             *)
Lifecycle == INSTANCE CaptureLifecycle
ImplementsLifecycle == Lifecycle!LifecycleSpec

(* A stop request or a shutdown ends the capture whatever it was doing.    *)
StopEnds == \A j \in Job : stop[j] ~> pc[j] = "ended"

(* Without any request, every capture ends that has a duration or that the *)
(* engine caps: only an open-ended stream_inapp may run on.                *)
Bounded == {j \in Job : j \in Timed \/ ModeOf[j] # "stream_inapp"}
BoundedEnds == \A j \in Bounded : pc[j] = "created" ~> pc[j] = "ended"

-----------------------------------------------------------------------------
(* The inductive invariants of the proofs (SzEngineProofs).                *)

(* Where the coroutine waits fixes what its readers see, which modes get   *)
(* there, and whether a reader thread exists.                              *)
StateMatchesPc(j) ==
  /\ pc[j] = "none"     => state[j] = "absent"
  /\ pc[j] = "created"  => state[j] = "pending"
  /\ pc[j] \in {"prestop", "start", "discover", "scan"} =>
       state[j] = "configuring"
  /\ pc[j] = "arm" => state[j] = "awaiting_wireshark"
  /\ pc[j] \in {"window", "read", "drain"} => state[j] = "capturing"
  /\ pc[j] \in {"poststop", "download"} => state[j] = "finalizing"
  /\ pc[j] = "ended" => state[j] \in Terminal
  /\ pc[j] # "ended" => sidecar[j] = "none"

ModeMatchesPc(j) ==
  /\ pc[j] \in {"discover", "scan", "arm", "read", "drain"} => Streams(j)
  /\ pc[j] = "download" => ~Streams(j)
  /\ thr[j] # "none" => pc[j] \in {"read", "drain"}

Released(j) ==
  pc[j] = "download" \/ state[j] = "done" => slot[ApOf[j]] # j

EngineInv ==
  /\ TypeOK
  /\ \A j \in Job : StateMatchesPc(j) /\ ModeMatchesPc(j) /\ Released(j)

(* A capture that was never shared is alone on its access point, and from  *)
(* its start request on, slot and file are its own or gone.                *)
Alone(j) == j \notin shared /\ pc[j] \notin {"none", "ended"} => Rivals(j) = {}

SlotIsOwn(j) ==
  j \notin shared =>
    /\ pc[j] \in {"discover", "scan", "arm", "read", "drain", "window",
                  "poststop"} =>
         \/ slot[ApOf[j]] = j
         \/ slot[ApOf[j]] = Nobody /\ (Streams(j) \/ ready[ApOf[j]] = Nobody)
    /\ pc[j] = "download" => ready[ApOf[j]] \in {j, Nobody}
    /\ file[j] \in {j, Nobody}

FileInv == EngineInv /\ \A j \in Job : Alone(j) /\ SlotIsOwn(j)
=============================================================================
