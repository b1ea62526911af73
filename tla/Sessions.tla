------------------------------- MODULE Sessions -------------------------------
(***************************************************************************)
(* SessionService over the database and the engine: planning a session     *)
(* (add_assignment, delete_assignment), start_session, stop_session, the   *)
(* sync loop that copies job states into the rows, a crash or a graceful   *)
(* exit of the process, and reconcile_startup.                             *)
(*                                                                         *)
(* The captures themselves are abstract: the states of a job follow one    *)
(* another as CaptureLifecycle allows, which SshEngine and SzEngine are    *)
(* shown to implement, and what its end does to the access point and the   *)
(* sidecar, or fails to do unnoticed, depends on the back end. A service   *)
(* method is split at its awaits: what it reads, its commit, and what it   *)
(* tells the engine afterwards. A commit writes the attributes the method  *)
(* changed, whatever other transactions committed since it read them (no   *)
(* row is locked or versioned).                                            *)
(***************************************************************************)
EXTENDS Naturals, FiniteSets

CONSTANTS Session, Assignment,
          SessOf,         \* Assignment.session_id
          Planned,        \* assignments that are in their draft initially
          Managed,        \* assignments of a SmartZone access point (sz_api)
          Staged,         \* those with a channel to confirm (target_channel)
                          \* or an analyst to wait for (stream_wireshark)
          Request,        \* HTTP requests that can be in progress at a time
          Ops,            \* requests made: start, stop, add, remove
          Faults,         \* what may fail: captures, idling, sidecars
          Exits,          \* ways the process ends: crash, shutdown
          MaxExits        \* bound on how often it does

ASSUME SessionsAssumption ==
  /\ SessOf \in [Assignment -> Session]
  /\ Planned \subseteq Assignment
  /\ Managed \subseteq Assignment
  /\ Staged \subseteq Assignment
  /\ Ops \subseteq {"start", "stop", "add", "remove"}
  /\ Faults \subseteq {"capture", "idle", "sidecar"}
  /\ Exits \subseteq {"crash", "shutdown"}
  /\ MaxExits \in Nat

VARIABLES
  (* the database *)
  sess,      \* CaptureSession.status
  row,       \* Assignment.status, or "absent"
  filed,     \* Assignment.file_path is set
  (* the file system and the access points *)
  side,      \* the state in <aid>.json, or "none"
  stream,    \* the access point streams for the assignment
  unsaved,   \* history: captures whose sidecar could not be written
  left,      \* history: captures whose access point was not told, or told in
             \* vain, to idle: the attempt failed, was cut short, or never made
  (* the process *)
  up,        \* "up", "closing", "down", "idling" (in reconcile_startup)
  job,       \* Engine._jobs[aid].state, or "absent"
  stopf,     \* its stop_event
  cleaning,  \* failed, and _finalize_ap still to run
  loop,      \* the sync loops of each session, by the request that began them
  task,      \* SessionService._tasks: which of them the session has on record
  req,       \* the requests in progress
  edited,    \* history: sessions that an edit changed beside or after a start
  reopened,  \* history: sessions whose outcome a stop request overwrote
  orphans,   \* reconcile_startup: access points still to idle
  exits      \* how often the process ended

dbVars      == <<sess, row, filed>>
outsideVars == <<side, stream, unsaved, left>>
jobVars     == <<job, stopf, cleaning>>
loopVars    == <<loop, task>>
pastVars    == <<edited, reopened>>
runVars     == <<up, orphans, exits>>
vars == <<dbVars, outsideVars, jobVars, loopVars, req, pastVars, runVars>>

Terminal == {"done", "failed"}          \* TERMINAL, less the unused cancelled

Life == INSTANCE CaptureLifecycle WITH
          Job <- Assignment, state <- job,
          ended <- [a \in Assignment |-> job[a] \in Terminal], sidecar <- side

Active    == Life!Active                                    \* ACTIVE
Rows(s)   == {a \in Assignment : SessOf[a] = s /\ row[a] # "absent"}
NoLoop    == [step |-> "none"]
NoRequest == [op |-> "none"]

Init ==
  /\ sess     = [s \in Session |-> "draft"]
  /\ row      = [a \in Assignment |->
                   IF a \in Planned THEN "pending" ELSE "absent"]
  /\ filed    = [a \in Assignment |-> FALSE]
  /\ side     = [a \in Assignment |-> "none"]
  /\ stream   = [a \in Assignment |-> FALSE]
  /\ up       = "up"
  /\ job      = [a \in Assignment |-> "absent"]
  /\ stopf    = [a \in Assignment |-> FALSE]
  /\ cleaning = [a \in Assignment |-> FALSE]
  /\ loop     = [s \in Session |-> [r \in Request |-> NoLoop]]
  /\ task     = [s \in Session |-> {}]
  /\ req      = [r \in Request |-> NoRequest]
  /\ unsaved  = {}
  /\ left     = {}
  /\ edited   = {}
  /\ reopened = {}
  /\ orphans  = {}
  /\ exits    = 0

-----------------------------------------------------------------------------
(* Requests: what the method read, until it answers. *)

Receive(r, op, step, s, as) ==
  /\ up = "up" /\ op \in Ops
  /\ req[r] = NoRequest
  /\ req' = [req EXCEPT ![r] = [op |-> op, step |-> step, s |-> s, as |-> as]]
  /\ UNCHANGED <<dbVars, outsideVars, jobVars, loopVars, pastVars, runVars>>

At(r, op, step) == req[r] # NoRequest /\ req[r].op = op /\ req[r].step = step

Answer(r) == req' = [req EXCEPT ![r] = NoRequest]
NextStep(r, step) == req' = [req EXCEPT ![r].step = step]

(* start_session: draft, with assignments, is what it saw before the       *)
(* controller was asked for the APs' passwords.                            *)
StartRead(r, s) ==
  /\ sess[s] = "draft" /\ Rows(s) # {}
  /\ Receive(r, "start", "commit", s, Rows(s))

(* Mutant of StartCommit: rows keep their status until the first turn of   *)
(* the sync loop, also the failed that a restart gave those of a draft.    *)
StartKeepsRows(r) ==
  /\ At(r, "start", "commit")
  /\ sess' = [sess EXCEPT ![req[r].s] = "running"]
  /\ NextStep(r, "act")
  /\ UNCHANGED <<row, filed, outsideVars, jobVars, loopVars, pastVars, runVars>>

StartCommit(r) ==
  /\ At(r, "start", "commit")
  /\ sess' = [sess EXCEPT ![req[r].s] = "running"]
  /\ row'  = [a \in Assignment |->
                IF a \in req[r].as /\ row[a] # "absent" THEN "pending" ELSE row[a]]
  /\ edited' = IF Rows(req[r].s) = req[r].as THEN edited ELSE edited \cup {req[r].s}
  /\ NextStep(r, "act")
  /\ UNCHANGED <<filed, outsideVars, jobVars, loopVars, reopened, runVars>>

(* A row it has to write was deleted meanwhile: the transaction fails.     *)
StartAborts(r) ==
  /\ At(r, "start", "commit")
  /\ \E a \in req[r].as : row[a] = "absent"
  /\ Answer(r)
  /\ UNCHANGED <<dbVars, outsideVars, jobVars, loopVars, pastVars, runVars>>

(* Mutant of StartLaunch: nobody watches the jobs.                         *)
StartUnwatched(r) ==
  /\ At(r, "start", "act")
  /\ LET as == req[r].as IN
       /\ job'    = [a \in Assignment |-> IF a \in as THEN "pending" ELSE job[a]]
       /\ stopf'  = [a \in Assignment |-> stopf[a] /\ a \notin as]
       /\ left'   = left \ as
  /\ Answer(r)
  /\ UNCHANGED <<dbVars, side, stream, unsaved, cleaning, loopVars, pastVars, runVars>>

(* Engine.start replaces a job that is there; the task it replaces runs on *)
(* unrecorded, and is not followed here.                                   *)
StartLaunch(r) ==
  /\ At(r, "start", "act")
  /\ LET as == req[r].as IN
       /\ job'    = [a \in Assignment |-> IF a \in as THEN "pending" ELSE job[a]]
       /\ stopf'  = [a \in Assignment |-> stopf[a] /\ a \notin as]
       /\ left'   = left \ as
  /\ LET s == req[r].s IN /\ loop' = [loop EXCEPT ![s][r] = [step |-> "sleep"]]
                         /\ task' = [task EXCEPT ![s] = {r}]
  /\ Answer(r)
  /\ UNCHANGED <<dbVars, side, stream, unsaved, cleaning, pastVars, runVars>>

(* stop_session: of a session that it saw stopping it writes nothing.      *)
StopRead(r, s) ==
  \/ sess[s] = "running"  /\ Receive(r, "stop", "commit", s, Rows(s))
  \/ sess[s] = "stopping" /\ Receive(r, "stop", "act", s, Rows(s))

StopCommit(r) ==
  /\ At(r, "stop", "commit")
  /\ sess' = [sess EXCEPT ![req[r].s] = "stopping"]
  /\ reopened' = IF sess[req[r].s] \in Terminal THEN reopened \cup {req[r].s} ELSE reopened
  /\ NextStep(r, "act")
  /\ UNCHANGED <<row, filed, outsideVars, jobVars, loopVars, edited, runVars>>

(* engine.stop does nothing for a job that is not there or has ended.      *)
StopSignal(r) ==
  /\ At(r, "stop", "act")
  /\ stopf' = [a \in Assignment |->
                 stopf[a] \/ (a \in req[r].as /\ job[a] \in Active)]
  /\ Answer(r)
  /\ UNCHANGED <<dbVars, outsideVars, job, cleaning, loopVars, pastVars, runVars>>

(* add_assignment, with a fresh id, and delete_assignment *)
AddRead(r, a) ==
  /\ sess[SessOf[a]] = "draft"
  /\ row[a] = "absent" /\ job[a] = "absent"
  /\ \A q \in Request : req[q] # NoRequest => a \notin req[q].as
  /\ Receive(r, "add", "commit", SessOf[a], {a})

Edits(s) == edited' = IF sess[s] = "draft" THEN edited ELSE edited \cup {s}

AddCommit(r) ==
  /\ At(r, "add", "commit")
  /\ row' = [a \in Assignment |-> IF a \in req[r].as THEN "pending" ELSE row[a]]
  /\ Edits(req[r].s)
  /\ Answer(r)
  /\ UNCHANGED <<sess, filed, outsideVars, jobVars, loopVars, reopened, runVars>>

RemoveRead(r, a) ==
  /\ sess[SessOf[a]] = "draft" /\ row[a] # "absent"
  /\ Receive(r, "remove", "commit", SessOf[a], {a})

RemoveCommit(r) ==
  /\ At(r, "remove", "commit")
  /\ row'   = [a \in Assignment |-> IF a \in req[r].as THEN "absent" ELSE row[a]]
  /\ filed' = [a \in Assignment |-> filed[a] /\ a \notin req[r].as]
  /\ Edits(req[r].s)
  /\ Answer(r)
  /\ UNCHANGED <<sess, outsideVars, jobVars, loopVars, reopened, runVars>>

-----------------------------------------------------------------------------
(* The sync loop: one turn reads the rows and the jobs, and commits what   *)
(* has changed.                                                            *)

Status(a) == IF job[a] = "absent" THEN row[a] ELSE job[a]

(* Mutants of Outcome: the first ended capture ends the session; a failed  *)
(* capture does not show.                                                  *)
OutcomeAny(s) ==
  CASE \A a \in Rows(s) : Status(a) \notin Terminal -> "none"
    [] \E a \in Rows(s) : Status(a) = "failed"      -> "failed"
    [] OTHER                                        -> "done"

OutcomeDone(s) ==
  IF \A a \in Rows(s) : Status(a) \in Terminal THEN "done" ELSE "none"

Outcome(s) ==
  IF \E a \in Rows(s) : Status(a) \notin Terminal THEN "none"
  ELSE IF \E a \in Rows(s) : Status(a) = "failed" THEN "failed"
  ELSE "done"

SyncRead(s, r) ==
  /\ loop[s][r].step = "sleep"
  /\ loop' = [loop EXCEPT ![s][r] =
       [step |-> "commit", outcome |-> Outcome(s),
        new  |-> [a \in {b \in Rows(s) : job[b] # "absent"} |-> job[a]]]]
  /\ UNCHANGED <<dbVars, outsideVars, jobVars, task, req, pastVars, runVars>>

SyncCommit(s, r) ==
  /\ loop[s][r].step = "commit"
  /\ LET new  == loop[s][r].new
         seen == {a \in DOMAIN new : row[a] # "absent"}
     IN  /\ row'   = [a \in Assignment |-> IF a \in seen THEN new[a] ELSE row[a]]
         /\ filed' = [a \in Assignment |->
                        filed[a] \/ (a \in seen /\ new[a] \in Terminal)]
  /\ \/ /\ loop[s][r].outcome = "none"
        /\ loop' = [loop EXCEPT ![s][r] = [step |-> "sleep"]]
        /\ UNCHANGED <<sess, task>>
     \/ /\ loop[s][r].outcome # "none"
        /\ loop' = [loop EXCEPT ![s][r] = NoLoop]
        /\ task' = [task EXCEPT ![s] = {}]
        /\ sess' = [sess EXCEPT ![s] = loop[s][r].outcome]
  /\ UNCHANGED <<outsideVars, jobVars, req, pastVars, runVars>>

(* A row it has to write was deleted meanwhile: the exception ends the     *)
(* loop, and nobody awaits its task.                                       *)
SyncDies(s, r) ==
  /\ loop[s][r].step = "commit"
  /\ \E a \in DOMAIN loop[s][r].new : row[a] = "absent"
  /\ loop' = [loop EXCEPT ![s][r] = NoLoop]
  /\ UNCHANGED <<dbVars, outsideVars, jobVars, task, req, pastVars, runVars>>

-----------------------------------------------------------------------------
(* The jobs, as far as their rows, files and access points see them. *)

(* A channel is confirmed over SSH, an analyst's Wireshark awaited in the  *)
(* SmartZone back end.                                                     *)
JobProgresses(a) ==
  /\ job[a] # "absent"
  /\ \E t \in Life!Succ(job[a]) :
       /\ t = "confirming_radio" => a \in Staged \ Managed
       /\ t = "awaiting_wireshark" => a \in Staged \cap Managed
       /\ a \in Staged => {job[a], t} # {"configuring", "capturing"}
       /\ job' = [job EXCEPT ![a] = t]
  /\ UNCHANGED <<dbVars, outsideVars, stopf, cleaning, loopVars, req, pastVars, runVars>>

(* The access point takes the command that starts its capture, or may have *)
(* left it unanswered: then the capture goes on without.                   *)
JobStreams(a) ==
  /\ job[a] \in {"configuring", "confirming_radio"} /\ ~stream[a]
  /\ stream' = [stream EXCEPT ![a] = TRUE]
  /\ UNCHANGED <<dbVars, side, unsaved, left, jobVars, loopVars, req, pastVars, runVars>>

(* What _finalize_ap, _idle_ap and _write_sidecar attempt may fail, and    *)
(* the exception is swallowed.                                             *)
Idling(a) ==
  \/ stream' = [stream EXCEPT ![a] = FALSE] /\ UNCHANGED left
  \/ "idle" \in Faults /\ left' = left \cup {a} /\ UNCHANGED stream

Recording(a, s) ==
  \/ side' = [side EXCEPT ![a] = s] /\ UNCHANGED unsaved
  \/ "sidecar" \in Faults /\ unsaved' = unsaved \cup {a} /\ UNCHANGED side

(* Mutant of JobDone: done is published first, as failed is.               *)
JobDoneFirst(a) ==
  /\ "done" \in Life!Endings(job[a])
  /\ job'      = [job EXCEPT ![a] = "done"]
  /\ cleaning' = [cleaning EXCEPT ![a] = TRUE]
  /\ UNCHANGED <<dbVars, outsideVars, stopf, loopVars, req, pastVars, runVars>>

(* done: idling is over, over SSH or by the controller's stop request,     *)
(* whose failure would have failed the capture; the sidecar is next.       *)
JobDone(a) ==
  /\ "done" \in Life!Endings(job[a])
  /\ job' = [job EXCEPT ![a] = "done"]
  /\ \/ a \notin Managed /\ Idling(a)
     \/ a \in Managed /\ stream' = [stream EXCEPT ![a] = FALSE] /\ UNCHANGED left
  /\ Recording(a, "done")
  /\ UNCHANGED <<dbVars, stopf, cleaning, loopVars, req, pastVars, runVars>>

(* failed over SSH: by an exception, with idling and sidecar to come; or   *)
(* for what the reader met, once both are over.                            *)
JobFails(a) ==
  /\ "capture" \in Faults /\ a \notin Managed
  /\ "failed" \in Life!Endings(job[a])
  /\ job' = [job EXCEPT ![a] = "failed"]
  /\ \/ /\ job[a] # "finalizing"
        /\ cleaning' = [cleaning EXCEPT ![a] = TRUE]
        /\ UNCHANGED outsideVars
     \/ /\ job[a] = "finalizing"
        /\ Idling(a) /\ Recording(a, "failed")
        /\ UNCHANGED cleaning
  /\ UNCHANGED <<dbVars, stopf, loopVars, req, pastVars, runVars>>

JobCleaned(a) ==
  /\ cleaning[a]
  /\ cleaning' = [cleaning EXCEPT ![a] = FALSE]
  /\ Idling(a) /\ Recording(a, "failed")
  /\ UNCHANGED <<dbVars, job, stopf, loopVars, req, pastVars, runVars>>

(* failed through the controller: nobody idles the access point, which the *)
(* stop request before a failed download may have done.                    *)
ManagedFails(a) ==
  /\ "capture" \in Faults /\ a \in Managed
  /\ "failed" \in Life!Endings(job[a])
  /\ job' = [job EXCEPT ![a] = "failed"]
  /\ \/ left' = left \cup {a} /\ UNCHANGED stream
     \/ /\ job[a] = "finalizing"
        /\ stream' = [stream EXCEPT ![a] = FALSE] /\ UNCHANGED left
  /\ Recording(a, "failed")
  /\ UNCHANGED <<dbVars, stopf, cleaning, loopVars, req, pastVars, runVars>>

-----------------------------------------------------------------------------
(* The process ends and comes back. *)

Forget ==
  /\ job'      = [a \in Assignment |-> "absent"]
  /\ stopf'    = [a \in Assignment |-> FALSE]
  /\ cleaning' = [a \in Assignment |-> FALSE]
  /\ loop'     = [s \in Session |-> [r \in Request |-> NoLoop]]
  /\ task'     = [s \in Session |-> {}]
  /\ req'      = [r \in Request |-> NoRequest]

Crash ==
  /\ "crash" \in Exits /\ exits < MaxExits /\ up # "down"
  /\ exits'   = exits + 1
  /\ up'      = "down"
  /\ orphans' = {}
  /\ left'    = left \cup orphans \cup {a \in Assignment : cleaning[a]}
  /\ Forget
  /\ UNCHANGED <<dbVars, side, stream, unsaved, pastVars>>

(* The server has drained its requests; service.shutdown cancels the sync  *)
(* loops on record before engine.shutdown stops the jobs.                  *)
Shutdown ==
  /\ "shutdown" \in Exits /\ exits < MaxExits /\ up = "up"
  /\ \A r \in Request : req[r] = NoRequest
  /\ exits' = exits + 1
  /\ up'    = "closing"
  /\ loop'  = [s \in Session |->
                [r \in Request |-> IF r \in task[s] THEN NoLoop ELSE loop[s][r]]]
  /\ stopf' = [a \in Assignment |-> stopf[a] \/ job[a] # "absent"]
  /\ UNCHANGED <<dbVars, outsideVars, job, cleaning, task, req, pastVars, orphans>>

(* engine.shutdown has gathered every task.                                *)
Exit ==
  /\ up = "closing"
  /\ \A a \in Assignment : job[a] \notin Active /\ ~cleaning[a]
  /\ up' = "down"
  /\ Forget
  /\ UNCHANGED <<dbVars, outsideVars, pastVars, orphans, exits>>

(* Mutant of Reconcile: sessions being stopped are not looked for.         *)
ReconcileRunning ==
  /\ up = "down"
  /\ orphans' = {a \in Assignment : row[a] \in Active}
  /\ row'  = [a \in Assignment |-> IF row[a] \in Active THEN "failed" ELSE row[a]]
  /\ sess' = [s \in Session |-> IF sess[s] = "running" THEN "failed" ELSE sess[s]]
  /\ up' = "idling"
  /\ UNCHANGED <<filed, outsideVars, jobVars, loopVars, req, pastVars, exits>>

(* Restart and the transaction of reconcile_startup; requests are served   *)
(* once it has returned.                                                   *)
Reconcile ==
  /\ up = "down"
  /\ orphans' = {a \in Assignment : row[a] \in Active}
  /\ row'  = [a \in Assignment |-> IF row[a] \in Active THEN "failed" ELSE row[a]]
  /\ sess' = [s \in Session |->
                IF sess[s] \in {"running", "stopping"} THEN "failed" ELSE sess[s]]
  /\ up' = "idling"
  /\ UNCHANGED <<filed, outsideVars, jobVars, loopVars, req, pastVars, exits>>

(* _idle_ap over SSH, of which nobody knows whether it ends a capture that *)
(* the controller started.                                                 *)
IdleOrphan(a) ==
  /\ up = "idling" /\ a \in orphans
  /\ Idling(a)
  /\ orphans' = orphans \ {a}
  /\ UNCHANGED <<dbVars, side, unsaved, up, exits, jobVars, loopVars, req, pastVars>>

Serve ==
  /\ up = "idling" /\ orphans = {}
  /\ up' = "up"
  /\ UNCHANGED <<dbVars, outsideVars, orphans, exits, jobVars, loopVars, req, pastVars>>

-----------------------------------------------------------------------------
RequestStep(r) ==
  \/ StartCommit(r) \/ StartAborts(r) \/ StartLaunch(r)
  \/ StopCommit(r) \/ StopSignal(r) \/ AddCommit(r) \/ RemoveCommit(r)

SyncStep(s) == \E r \in Request : SyncRead(s, r) \/ SyncCommit(s, r) \/ SyncDies(s, r)
JobStep(a)  ==
  \/ JobProgresses(a) \/ JobStreams(a)
  \/ JobDone(a) \/ JobFails(a) \/ JobCleaned(a) \/ ManagedFails(a)
BootStep    == Exit \/ Reconcile \/ Serve \/ \E a \in Assignment : IdleOrphan(a)

Next ==
  \/ \E r \in Request : \/ \E s \in Session : StartRead(r, s) \/ StopRead(r, s)
                        \/ \E a \in Assignment : AddRead(r, a) \/ RemoveRead(r, a)
                        \/ RequestStep(r)
  \/ \E s \in Session : SyncStep(s)
  \/ \E a \in Assignment : JobStep(a)
  \/ Crash \/ Shutdown \/ BootStep

Spec == Init /\ [][Next]_vars

(* A method runs on once its await returns; a capture ends, having a       *)
(* duration; the container is restarted (restart: unless-stopped).         *)
Fairness ==
  /\ \A r \in Request : WF_vars(RequestStep(r))
  /\ \A s \in Session : WF_vars(SyncStep(s))
  /\ \A a \in Assignment : WF_vars(JobStep(a))
  /\ WF_vars(BootStep)

FairSpec == Spec /\ Fairness

-----------------------------------------------------------------------------
SessStates == {"draft", "running", "stopping"} \cup Terminal
JobStates  == {"absent"} \cup Active \cup Terminal

(* Every row and every job has a state the code can give it.               *)
TypeOK ==
  /\ sess \in [Session -> SessStates]
  /\ row \in [Assignment -> JobStates]
  /\ job \in [Assignment -> JobStates]
  /\ side \in [Assignment -> {"none"} \cup Terminal]
  /\ \A s \in Session : \A r \in Request :
       loop[s][r].step \in {"none", "sleep", "commit"}
  /\ orphans \subseteq Assignment
  /\ left \subseteq Assignment /\ unsaved \subseteq Assignment
  /\ up \in {"up", "closing", "down", "idling"}

(* A session that shows done or failed has no capture under way: neither a *)
(* late turn of the sync loop nor a stop or a restart ends it early.       *)
EndedSessionQuiet ==
  \A a \in Assignment : sess[SessOf[a]] \in Terminal => job[a] \notin Active

(* done means that every assignment is, with its file on record.           *)
DoneSessionComplete ==
  \A s \in Session : sess[s] = "done" =>
    \A a \in Rows(s) : row[a] = "done" /\ filed[a]

(* A row that shows done has its file on record and its sidecar written,   *)
(* unless the attempt to write it failed, under any interleaving of        *)
(* requests, edits and double starts.                                      *)
DoneRowBacked ==
  \A a \in Assignment : row[a] = "done" =>
    filed[a] /\ (side[a] # "none" \/ a \in unsaved)

(* Once a restart has been dealt with, no access point still streams for a *)
(* capture nobody runs, but for what is known to be left: told in vain, as *)
(* _finalize_ap and _idle_ap swallow; cut short by a crash, in a failed    *)
(* capture's clean-up or in reconcile_startup after its commit; or, after  *)
(* a SmartZone capture that failed, never told.                            *)
OrphansIdled ==
  up = "up" => \A a \in Assignment :
    stream[a] => job[a] \in Active \/ cleaning[a] \/ a \in left

(* Whatever requests overlap, two starts included, a capture under way has *)
(* a sync loop that will see its end, unless an edit overlapped the start. *)
CapturesWatched ==
  up = "up" => \A a \in Assignment :
    job[a] \in Active /\ SessOf[a] \notin edited =>
      \E r \in Request : LET t == loop[SessOf[a]][r] IN
        t.step = "sleep" \/ (t.step = "commit" /\ t.outcome = "none")

(* A started session comes to an end, whatever becomes of its captures and *)
(* of the process and whichever requests overlap, unless an edit was among *)
(* them: a row added beside the start has no capture to wait for, one that *)
(* was removed ends the sync loop; or a stop overwrote the outcome.        *)
RunningEnds ==
  \A s \in Session :
    sess[s] \in {"running", "stopping"} ~>
      sess[s] \in Terminal \/ s \in edited \cup reopened

(* A started session comes to an end, stopped or not.                      *)
SessionSettles ==
  \A s \in Session : sess[s] \in {"running", "stopping"} ~> sess[s] \in Terminal
=============================================================================
