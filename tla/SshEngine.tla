------------------------------ MODULE SshEngine ------------------------------
(***************************************************************************)
(* The direct-SSH back end of the capture engine: Engine.start/stop/       *)
(* shutdown, one asyncio coroutine per capture (Engine._run), the worker   *)
(* threads it hands its blocking steps to (_configure, RpcapReader.run,    *)
(* _finalize_ap), and the access points those threads talk to.             *)
(*                                                                         *)
(* A coroutine step is atomic: the event loop runs it to its next await.   *)
(* Thread steps of different captures, and coroutine steps, interleave.    *)
(* The access point (rkscli, rpcapd) is outside the repository and is      *)
(* modelled from how the engine uses it: it streams one radio at a time.   *)
(***************************************************************************)
EXTENDS Naturals, Sequences, FiniteSets

CONSTANTS Job,          \* capture ids
          Ap,           \* access points
          Iface,        \* radio interfaces
          Radios,       \* choices of CaptureSpec.iface for the captures
          Idle,         \* what an access point that streams nothing streams
          ApOf,         \* CaptureSpec.ap_host
          Timed,        \* captures with a duration_s
          Pinned,       \* captures with a target_channel
          Workers       \* bound on the threads of asyncio's default executor

ASSUME IdleAssumption   == Idle \notin Iface
ASSUME RadioAssumption  == ApOf \in [Job -> Ap] /\ Radios \subseteq [Job -> Iface]
ASSUME OptionAssumption == Timed \subseteq Job /\ Pinned \subseteq Job
ASSUME PoolAssumption   == Workers \in Nat \ {0}

VARIABLES
  state, ended, sidecar,  \* CaptureJob.state, .ended_at, <id>.json
  pc,        \* the await the capture's coroutine is suspended at
  stop,      \* CaptureJob.stop_event
  thr,       \* what the capture's current worker thread is doing
  queue,     \* captures whose blocking step waits for a free worker
  frames,    \* CaptureStats.frames > 0
  err,       \* CaptureStats.error is set
  pcap,      \* <id>.pcap exists
  stream,    \* the radio each access point streams, or Idle
  lost,      \* history: the capture's `set capture idle` did not reach its AP
  down,      \* the process is shutting down
  iface,     \* CaptureJob.iface, chosen once
  pool       \* how many threads the executor has on this machine

lifeVars   == <<state, ended, sidecar>>
readerVars == <<frames, err, pcap>>
apVars     == <<stream, lost>>
setup    == <<iface, pool>>
vars == <<lifeVars, pc, stop, thr, queue, readerVars, apVars, down, setup>>

Terminal == {"done", "failed"}

PcStates == {"none", "created", "configure", "read", "drain",
             "finalize", "cleanup", "ended"}

Running   == {"login", "tune", "arm", "attach", "accept", "pull", "quiesce"}
Finished  == {"returned", "raised"}
ThrStates == {"none", "queued"} \cup Running \cup Finished

OwnStream(j) == stream[ApOf[j]] = iface[j]
SameRadio(j) == {k \in Job : ApOf[k] = ApOf[j] /\ iface[k] = iface[j]}

-----------------------------------------------------------------------------
Init ==
  /\ state   = [j \in Job |-> "absent"]
  /\ ended   = [j \in Job |-> FALSE]
  /\ sidecar = [j \in Job |-> "none"]
  /\ pc      = [j \in Job |-> "none"]
  /\ stop    = [j \in Job |-> FALSE]
  /\ thr     = [j \in Job |-> "none"]
  /\ queue   = << >>
  /\ frames  = [j \in Job |-> FALSE]
  /\ err     = [j \in Job |-> FALSE]
  /\ pcap    = [j \in Job |-> FALSE]
  /\ stream  = [a \in Ap |-> Idle]
  /\ lost    = [j \in Job |-> FALSE]
  /\ down    = FALSE
  /\ iface \in Radios
  /\ pool \in 1..Workers

SetState(j, s) == state' = [state EXCEPT ![j] = s]
SetThr(j, t)   == thr' = [thr EXCEPT ![j] = t]

(* `await asyncio.to_thread(step)`: the executor's queue is first in,      *)
(* first out, and unbounded.                                               *)
Submit(j, step) ==
  /\ pc'    = [pc EXCEPT ![j] = step]
  /\ queue' = Append(queue, j)
  /\ SetThr(j, "queued")

FirstStep(step) ==
  CASE step = "configure"            -> "login"
    [] step \in {"read", "drain"}    -> "attach"
    [] OTHER                         -> "quiesce"

Dispatch(j) ==
  /\ queue # << >> /\ Head(queue) = j /\ thr[j] = "queued"
  /\ Cardinality({k \in Job : thr[k] \in Running}) < pool
  /\ queue' = Tail(queue)
  /\ SetThr(j, FirstStep(pc[j]))
  /\ UNCHANGED <<lifeVars, pc, stop, readerVars, apVars, down, setup>>

-----------------------------------------------------------------------------
(* The public operations. *)

Start(j) ==
  /\ ~down
  /\ pc[j] = "none"
  /\ pc' = [pc EXCEPT ![j] = "created"]
  /\ SetState(j, "pending")
  /\ UNCHANGED <<ended, sidecar, stop, thr, queue, readerVars, apVars, down, setup>>

Stop(j) ==
  /\ ~down
  /\ pc[j] # "none" /\ state[j] \notin Terminal
  /\ stop' = [stop EXCEPT ![j] = TRUE]
  /\ UNCHANGED <<lifeVars, pc, thr, queue, readerVars, apVars, down, setup>>

Shutdown ==
  /\ ~down
  /\ down' = TRUE
  /\ stop' = [j \in Job |-> stop[j] \/ pc[j] # "none"]
  /\ UNCHANGED <<lifeVars, pc, thr, queue, readerVars, apVars, setup>>

-----------------------------------------------------------------------------
(* The coroutine, from one await to the next. *)

Begin(j) ==
  /\ pc[j] = "created"
  /\ SetState(j, "configuring")
  /\ Submit(j, "configure")
  /\ UNCHANGED <<ended, sidecar, stop, readerVars, apVars, down, setup>>

EnterCapturing(j) ==
  /\ pc[j] = "configure" /\ thr[j] = "returned"
  /\ SetState(j, "capturing")
  /\ Submit(j, "read")
  /\ UNCHANGED <<ended, sidecar, stop, readerVars, apVars, down, setup>>

(* Mutant of Timeout: the expiry does not set the stop flag.               *)
TimeoutKeepsReading(j) ==
  /\ pc[j] = "read" /\ j \in Timed
  /\ pc' = [pc EXCEPT ![j] = "drain"]
  /\ UNCHANGED <<lifeVars, stop, thr, queue, readerVars, apVars, down, setup>>

(* wait_for(shield(reader_task), duration_s) expires, whether or not the   *)
(* reader got a thread by then.                                            *)
Timeout(j) ==
  /\ pc[j] = "read" /\ j \in Timed
  /\ pc'   = [pc EXCEPT ![j] = "drain"]
  /\ stop' = [stop EXCEPT ![j] = TRUE]
  /\ UNCHANGED <<lifeVars, thr, queue, readerVars, apVars, down, setup>>

ReaderDone(j) ==
  /\ pc[j] \in {"read", "drain"} /\ thr[j] = "returned"
  /\ SetState(j, "finalizing")
  /\ Submit(j, "finalize")
  /\ UNCHANGED <<ended, sidecar, stop, readerVars, apVars, down, setup>>

(* The last step: the outcome, then the sidecar, whose write may fail.     *)
Outcome(j) == IF err[j] /\ ~frames[j] THEN "failed" ELSE "done"

Complete(j) ==
  /\ pc[j] = "finalize" /\ thr[j] = "returned"
  /\ ended' = [ended EXCEPT ![j] = TRUE]
  /\ SetState(j, Outcome(j))
  /\ \/ sidecar' = [sidecar EXCEPT ![j] = Outcome(j)]
     \/ UNCHANGED sidecar
  /\ pc' = [pc EXCEPT ![j] = "ended"]
  /\ SetThr(j, "none")
  /\ UNCHANGED <<stop, queue, readerVars, apVars, down, setup>>

(* Mutants of RunFails: no clean-up of the AP; ended_at forgotten.         *)
RunFailsUncleaned(j) ==
  /\ pc[j] \in {"configure", "read", "drain"} /\ thr[j] = "raised"
  /\ SetState(j, "failed")
  /\ stop'  = [stop EXCEPT ![j] = TRUE]
  /\ ended' = [ended EXCEPT ![j] = TRUE]
  /\ pc'    = [pc EXCEPT ![j] = "ended"]
  /\ SetThr(j, "none")
  /\ UNCHANGED <<sidecar, queue, readerVars, apVars, down, setup>>

RunFailsUnended(j) ==
  /\ pc[j] \in {"configure", "read", "drain"} /\ thr[j] = "raised"
  /\ SetState(j, "failed")
  /\ stop' = [stop EXCEPT ![j] = TRUE]
  /\ Submit(j, "cleanup")
  /\ UNCHANGED <<ended, sidecar, readerVars, apVars, down, setup>>

(* The except branch: failed is published before the AP is idled.          *)
RunFails(j) ==
  /\ pc[j] \in {"configure", "read", "drain"} /\ thr[j] = "raised"
  /\ SetState(j, "failed")
  /\ stop'  = [stop EXCEPT ![j] = TRUE]
  /\ ended' = [ended EXCEPT ![j] = TRUE]
  /\ Submit(j, "cleanup")
  /\ UNCHANGED <<sidecar, readerVars, apVars, down, setup>>

CleanedUp(j) ==
  /\ pc[j] = "cleanup" /\ thr[j] = "returned"
  /\ \/ sidecar' = [sidecar EXCEPT ![j] = state[j]]
     \/ UNCHANGED sidecar
  /\ pc' = [pc EXCEPT ![j] = "ended"]
  /\ SetThr(j, "none")
  /\ UNCHANGED <<state, ended, stop, queue, readerVars, apVars, down, setup>>

-----------------------------------------------------------------------------
(* _configure, in a worker thread. *)

LoggedIn(j) ==
  /\ thr[j] = "login"
  /\ \/ j \in Pinned /\ SetState(j, "confirming_radio") /\ SetThr(j, "tune")
     \/ j \notin Pinned /\ SetThr(j, "arm") /\ UNCHANGED state
  /\ UNCHANGED <<ended, sidecar, pc, stop, queue, readerVars, apVars, down, setup>>

Tuned(j) ==
  /\ thr[j] = "tune"
  /\ SetThr(j, "arm")
  /\ UNCHANGED <<lifeVars, pc, stop, queue, readerVars, apVars, down, setup>>

(* No login, no retune, radio inactive, or "running on" another radio.     *)
ConfigureRaises(j) ==
  /\ thr[j] \in {"login", "tune", "arm"}
  /\ SetThr(j, "raised")
  /\ UNCHANGED <<lifeVars, pc, stop, queue, readerVars, apVars, down, setup>>

(* Mutant of StreamEnabled: the AP is told to idle its other radio first,  *)
(* as its reply suggests ("please set it to idle").                        *)
StreamTakenOver(j) ==
  /\ thr[j] = "arm"
  /\ stream' = [stream EXCEPT ![ApOf[j]] = iface[j]]
  /\ \E t \in Finished : SetThr(j, t)
  /\ UNCHANGED <<lifeVars, pc, stop, queue, readerVars, lost, down, setup>>

(* `set capture <iface> stream` takes effect; closing the SSH channel      *)
(* afterwards may still raise.                                             *)
StreamEnabled(j) ==
  /\ thr[j] = "arm"
  /\ stream[ApOf[j]] \in {Idle, iface[j]}
  /\ stream' = [stream EXCEPT ![ApOf[j]] = iface[j]]
  /\ \E t \in Finished : SetThr(j, t)
  /\ UNCHANGED <<lifeVars, pc, stop, queue, readerVars, lost, down, setup>>

(* The command went unanswered and had no effect: RkscliClient.run returns *)
(* an empty string at its timeout, which _configure takes for success.     *)
StreamUnanswered(j) ==
  /\ thr[j] = "arm"
  /\ SetThr(j, "returned")
  /\ UNCHANGED <<lifeVars, pc, stop, queue, readerVars, apVars, down, setup>>

-----------------------------------------------------------------------------
(* RpcapReader.run, in a worker thread. *)

(* The rpcap handshake is through and the stop flag was seen clear: the    *)
(* thread blocks in listener.accept().                                     *)
Listen(j) ==
  /\ thr[j] = "attach" /\ ~stop[j]
  /\ SetThr(j, "accept")
  /\ UNCHANGED <<lifeVars, pc, stop, queue, readerVars, apVars, down, setup>>

(* The AP opens the data connection and the pcap file is created; a stop   *)
(* that arrived during accept() is only seen by the read loop.             *)
Attached(j) ==
  /\ thr[j] = "accept" /\ OwnStream(j)
  /\ pcap' = [pcap EXCEPT ![j] = TRUE]
  /\ SetThr(j, "pull")
  /\ UNCHANGED <<lifeVars, pc, stop, queue, frames, err, apVars, down, setup>>

(* Mutant of AttachFails: the reader gives up without recording why.       *)
AttachFailsSilently(j) ==
  /\ thr[j] \in {"attach", "accept"}
  /\ SetThr(j, "returned")
  /\ UNCHANGED <<lifeVars, pc, stop, queue, readerVars, apVars, down, setup>>

(* Connection refused, rpcapd error, stop, or 15 seconds without data.     *)
AttachFails(j) ==
  /\ thr[j] \in {"attach", "accept"}
  /\ err' = [err EXCEPT ![j] = TRUE]
  /\ SetThr(j, "returned")
  /\ UNCHANGED <<lifeVars, pc, stop, queue, frames, pcap, apVars, down, setup>>

FrameArrives(j) ==
  /\ thr[j] = "pull" /\ ~frames[j] /\ OwnStream(j)
  /\ frames' = [frames EXCEPT ![j] = TRUE]
  /\ UNCHANGED <<lifeVars, pc, stop, thr, queue, err, pcap, apVars, down, setup>>

(* Mutant of PullStops: no socket timeout, so the flag is only seen once a *)
(* frame has come in.                                                      *)
PullStopsAfterFrame(j) ==
  /\ thr[j] = "pull" /\ stop[j] /\ frames[j]
  /\ SetThr(j, "returned")
  /\ UNCHANGED <<lifeVars, pc, stop, queue, readerVars, apVars, down, setup>>

(* The read loop, at most a second later, sees the stop flag.              *)
PullStops(j) ==
  /\ thr[j] = "pull" /\ stop[j]
  /\ SetThr(j, "returned")
  /\ UNCHANGED <<lifeVars, pc, stop, queue, readerVars, apVars, down, setup>>

(* A frame took the file to max_bytes.                                     *)
PullCapped(j) ==
  /\ thr[j] = "pull" /\ frames[j]
  /\ SetThr(j, "returned")
  /\ UNCHANGED <<lifeVars, pc, stop, queue, readerVars, apVars, down, setup>>

(* The peer closed or the file could not be written: the exception is kept *)
(* in stats.error, and only one raised while closing the file escapes.     *)
PullBreaks(j) ==
  /\ thr[j] = "pull"
  /\ err' = [err EXCEPT ![j] = TRUE]
  /\ \E t \in Finished : SetThr(j, t)
  /\ UNCHANGED <<lifeVars, pc, stop, queue, frames, pcap, apVars, down, setup>>

-----------------------------------------------------------------------------
(* _finalize_ap, in a worker thread: best effort, it never raises. *)

Quiesce(j) ==
  /\ thr[j] = "quiesce"
  /\ stream' = IF OwnStream(j) THEN [stream EXCEPT ![ApOf[j]] = Idle]
                               ELSE stream
  /\ SetThr(j, "returned")
  /\ UNCHANGED <<lifeVars, pc, stop, queue, readerVars, lost, down, setup>>

QuiesceLost(j) ==
  /\ thr[j] = "quiesce"
  /\ lost' = [lost EXCEPT ![j] = TRUE]
  /\ SetThr(j, "returned")
  /\ UNCHANGED <<lifeVars, pc, stop, queue, readerVars, stream, down, setup>>

(* An access point reboots: it comes back with capture idle.               *)
ApRestart(a) ==
  /\ stream[a] # Idle
  /\ stream' = [stream EXCEPT ![a] = Idle]
  /\ UNCHANGED <<lifeVars, pc, stop, thr, queue, readerVars, lost, down, setup>>

(* Engine.shutdown has gathered every task: the process may exit.          *)
Terminated ==
  /\ down /\ \A j \in Job : pc[j] \in {"none", "ended"}
  /\ UNCHANGED vars

-----------------------------------------------------------------------------
CoroutineStep(j) ==
  Begin(j) \/ EnterCapturing(j) \/ ReaderDone(j) \/ Complete(j)
    \/ RunFails(j) \/ CleanedUp(j)

(* The thread steps that are bound to come: every blocking call of a       *)
(* worker has a timeout. Waiting for frames has none but the stop flag.    *)
ThreadStep(j) ==
  \/ LoggedIn(j) \/ Tuned(j) \/ ConfigureRaises(j)
  \/ StreamEnabled(j) \/ StreamUnanswered(j)
  \/ Listen(j) \/ Attached(j) \/ AttachFails(j)
  \/ PullStops(j)
  \/ Quiesce(j) \/ QuiesceLost(j)

(* Steps that may come: requests, frames, the size cap, broken pipes.      *)
OptionalStep(j) ==
  \/ Start(j) \/ Stop(j)
  \/ FrameArrives(j) \/ PullCapped(j) \/ PullBreaks(j)

Next ==
  \/ \E j \in Job : \/ CoroutineStep(j) \/ Timeout(j) \/ Dispatch(j)
                    \/ ThreadStep(j) \/ OptionalStep(j)
  \/ \E a \in Ap : ApRestart(a)
  \/ Shutdown
  \/ Terminated

Spec == Init /\ [][Next]_vars

Fairness ==
  \A j \in Job : /\ WF_vars(CoroutineStep(j)) /\ WF_vars(Timeout(j))
                 /\ WF_vars(Dispatch(j)) /\ WF_vars(ThreadStep(j))

FairSpec == Spec /\ Fairness

-----------------------------------------------------------------------------
(* Every variable ranges over what the code can store in it.               *)
TypeOK ==
  /\ state \in [Job -> {"absent", "pending", "configuring", "confirming_radio",
                        "capturing", "finalizing"} \cup Terminal]
  /\ ended \in [Job -> BOOLEAN]
  /\ sidecar \in [Job -> {"none"} \cup Terminal]
  /\ pc \in [Job -> PcStates]
  /\ stop \in [Job -> BOOLEAN]
  /\ thr \in [Job -> ThrStates]
  /\ queue \in Seq(Job)
  /\ frames \in [Job -> BOOLEAN]
  /\ err \in [Job -> BOOLEAN]
  /\ pcap \in [Job -> BOOLEAN]
  /\ stream \in [Ap -> Iface \cup {Idle}]
  /\ lost \in [Job -> BOOLEAN]
  /\ down \in BOOLEAN
  /\ iface \in [Job -> Iface]
  /\ pool \in Nat

(* A capture reported done left a pcap file: whichever way the reader was  *)
(* cut short (stop before the data connection, handshake failure, broken   *)
(* pipe, timeout while queued), done is never claimed without one.         *)
DoneHasFile == \A j \in Job : state[j] = "done" => pcap[j]

(* A radio streams only while the task of a capture of that radio is not   *)
(* over, unless one of them could not tell the AP to stop: on every exit   *)
(* path, the failure paths and a stream enabled just before an exception   *)
(* included, and whether or not captures share a radio.                    *)
IdleOnExit ==
  \A j \in Job : OwnStream(j) =>
    \E k \in SameRadio(j) : lost[k] \/ pc[k] \notin {"none", "created", "ended"}

(* A radio goes quiet only because a capture of that radio is leaving or   *)
(* the AP restarted: no start, refusal or clean-up of a capture of another *)
(* radio takes it away. (Captures of one radio do idle it for each other.) *)
OwnExitIdles ==
  \A j \in Job : OwnStream(j) /\ ~OwnStream(j)' =>
    \/ \E k \in SameRadio(j) : thr[k] = "quiesce"
    \/ \E a \in Ap : ApRestart(a)

OnlyOwnExitIdles == [][OwnExitIdles]_vars

(* The back end implements the life cycle its readers rely on.             *)
Lifecycle == INSTANCE CaptureLifecycle
ImplementsLifecycle == Lifecycle!LifecycleSpec

(* Every worker thread reads for a capture that has no duration and that   *)
(* nobody stops.                                                           *)
PoolHeld ==
  Cardinality({k \in Job : thr[k] = "pull" /\ k \notin Timed /\ ~stop[k]}) >= pool

(* A capture with a duration ends, waiting for a worker included, unless   *)
(* open-ended readers hold the whole pool for ever.                        *)
DurationStops ==
  \A j \in Timed : <>[]PoolHeld \/ (pc[j] = "created" ~> pc[j] = "ended")

(* A stop request, or a shutdown, ends the capture whatever it was doing,  *)
(* waiting for a worker included, with the same exception.                 *)
StopEnds == \A j \in Job : <>[]PoolHeld \/ (stop[j] ~> pc[j] = "ended")

-----------------------------------------------------------------------------
(* The inductive invariant of the proofs (SshEngineProofs).                *)

(* Where the coroutine waits bounds what its thread may be doing.          *)
ThreadMatchesPc(j) ==
  /\ pc[j] \in {"none", "created", "ended"} => thr[j] = "none"
  /\ pc[j] = "configure" =>
       thr[j] \in {"queued", "login", "tune", "arm"} \cup Finished
  /\ pc[j] \in {"read", "drain"} =>
       thr[j] \in {"queued", "attach", "accept", "pull"} \cup Finished
  /\ pc[j] \in {"finalize", "cleanup"} =>
       thr[j] \in {"queued", "quiesce", "returned"}

(* ... and what its readers see.                                           *)
StateMatchesPc(j) ==
  /\ pc[j] = "none"     => state[j] = "absent"
  /\ pc[j] = "created"  => state[j] = "pending"
  /\ pc[j] = "configure" =>
       /\ state[j] \in {"configuring", "confirming_radio"}
       /\ thr[j] \in {"queued", "login"} => state[j] = "configuring"
  /\ pc[j] \in {"read", "drain"} => state[j] = "capturing"
  /\ pc[j] = "finalize" => state[j] = "finalizing"
  /\ pc[j] = "cleanup"  => state[j] = "failed"
  /\ pc[j] = "ended"    => state[j] \in Terminal
  /\ pc[j] # "ended"    => sidecar[j] = "none"

(* Frames are only ever in a file, and a reader that made none said why.   *)
FileAccounted(j) ==
  /\ frames[j] => pcap[j]
  /\ thr[j] = "pull" => pcap[j]
  /\ pc[j] \in {"read", "drain"} /\ thr[j] = "returned" => err[j] \/ pcap[j]
  /\ pc[j] = "finalize" => err[j] \/ pcap[j]
  /\ state[j] = "done" => pcap[j]

(* Who may have left a radio streaming: a capture from _configure to its   *)
(* own idling, or one whose idling was lost.                               *)
Minds(k) ==
  \/ lost[k]
  \/ pc[k] \in {"configure", "read", "drain"}
  \/ pc[k] \in {"finalize", "cleanup"} /\ thr[k] # "returned"

StreamAccounted(j) == OwnStream(j) => \E k \in SameRadio(j) : Minds(k)

(* What every step preserves of a capture, and of the access points.       *)
EngineInv ==
  /\ TypeOK
  /\ \A j \in Job : ThreadMatchesPc(j) /\ StateMatchesPc(j) /\ FileAccounted(j)

StreamInv == EngineInv /\ \A j \in Job : StreamAccounted(j)
=============================================================================
