---------------------------- MODULE SessionsProofs ----------------------------
(***************************************************************************)
(* What holds of the life of a session for any sessions, assignments and   *)
(* number of requests in progress, and however often the process ends:     *)
(* first whatever interleaves, then where the requests for one session     *)
(* come one at a time, and last of the sync loops whatever interleaves.    *)
(***************************************************************************)
EXTENDS SessionEvents, TLAPS

(***************************************************************************)
(* Whatever interleaves, a row that shows done is backed by a recorded     *)
(* file and a sidecar, unless writing it failed.                           *)
(***************************************************************************)
(* What a turn of a sync loop holds between its read and its commit.       *)
Turns == {NoLoop, [step |-> "sleep"]} \cup
  [step : {"commit"}, outcome : {"none"} \cup Terminal,
   new : UNION {[as -> JobStates] : as \in SUBSET Assignment}]

(* Of the types, only those the argument uses.                             *)
BackedTypes ==
  /\ filed \in [Assignment -> BOOLEAN]
  /\ row \in [Assignment -> JobStates]
  /\ job \in [Assignment -> JobStates]
  /\ side \in [Assignment -> {"none"} \cup Terminal]
  /\ loop \in [Session -> [Request -> Turns]]

(* A capture that is done has its sidecar or failed to write it, and a     *)
(* sync loop that read it as done did so when it had: no sidecar is ever   *)
(* removed.                                                                *)
Recorded(a) == side[a] # "none" \/ a \in unsaved

JobsBacked  == \A a \in Assignment : job[a] = "done" => Recorded(a)
TurnsBacked ==
  \A s \in Session, r \in Request : loop[s][r].step = "commit" =>
    \A a \in Assignment :
      a \in DOMAIN loop[s][r].new /\ loop[s][r].new[a] = "done" => Recorded(a)

BackedInv == BackedTypes /\ JobsBacked /\ TurnsBacked /\ DoneRowBacked

LEMMA BackedInit == Init => BackedInv
<1> SUFFICES ASSUME Init PROVE BackedInv
  OBVIOUS
<1>1. BackedTypes
  BY DEF Init, BackedTypes, Turns, JobStates, Active, Life!Active, Terminal
<1>2. JobsBacked /\ TurnsBacked /\ DoneRowBacked
  BY DEF Init, JobsBacked, TurnsBacked, DoneRowBacked, NoLoop
<1> QED
  BY <1>1, <1>2 DEF BackedInv

(* Steps that touch none of these variables, or only the process's own.    *)
LEMMA BackedFrame ==
  BackedInv /\ UNCHANGED <<row, filed, side, unsaved, job, loop>> => BackedInv'
  BY DEF BackedInv, BackedTypes, JobsBacked, TurnsBacked, DoneRowBacked, Recorded

(* A step of a job records its end or leaves both as they are.             *)
LEMMA RecordedStays ==
  ASSUME BackedTypes, NEW a \in Assignment, JobStep(a)
  PROVE  /\ \A b \in Assignment : Recorded(b) => Recorded(b)'
         /\ side' \in [Assignment -> {"none"} \cup Terminal]
         /\ UNCHANGED <<row, filed, loop>>
<1> USE DEF BackedTypes, dbVars, loopVars
<1>1. CASE JobProgresses(a) \/ JobStreams(a)
  BY <1>1 DEF JobProgresses, JobStreams, outsideVars, Recorded
<1>2. ASSUME NEW s \in Terminal, Recording(a, s)
      PROVE  /\ \A b \in Assignment : Recorded(b) => Recorded(b)'
             /\ side' \in [Assignment -> {"none"} \cup Terminal]
  BY <1>2 DEF Recording, Recorded, Terminal
<1>3. {"done", "failed"} \subseteq Terminal
  BY DEF Terminal
<1>4. CASE JobDone(a) \/ JobCleaned(a) \/ ManagedFails(a)
  BY <1>2, <1>3, <1>4 DEF JobDone, JobCleaned, ManagedFails
<1>5. CASE JobFails(a)
  BY <1>2, <1>3, <1>5 DEF JobFails, outsideVars, Recorded
<1> QED
  BY <1>1, <1>4, <1>5 DEF JobStep

(* Steps of a job: its sidecar is written no later than it is done.        *)
LEMMA JobStepBacked ==
  ASSUME BackedInv, NEW a \in Assignment, JobStep(a)
  PROVE  BackedInv'
<1>1. /\ \A b \in Assignment : Recorded(b) => Recorded(b)'
      /\ side' \in [Assignment -> {"none"} \cup Terminal]
      /\ UNCHANGED <<row, filed, loop>>
  BY RecordedStays DEF BackedInv
<1>2. job \in [Assignment -> JobStates]
  BY DEF BackedInv, BackedTypes
<1>3. \/ \E t \in Active \cup {"failed"} : job' = [job EXCEPT ![a] = t]
      \/ UNCHANGED job
      \/ job' = [job EXCEPT ![a] = "done"] /\ Recorded(a)'
  <2>1. CASE JobProgresses(a)
    BY <2>1 DEF JobProgresses, Life!Succ, Active, Life!Active
  <2>2. CASE JobStreams(a) \/ JobCleaned(a)
    BY <2>2 DEF JobStreams, JobCleaned, jobVars
  <2>3. CASE JobFails(a) \/ ManagedFails(a)
    BY <2>3 DEF JobFails, ManagedFails
  <2>4. CASE JobDone(a)
    BY <2>4 DEF JobDone, Recording, Recorded, BackedInv, BackedTypes, Terminal
  <2> QED
    BY <2>1, <2>2, <2>3, <2>4 DEF JobStep
<1>4. Active \cup {"failed", "done"} \subseteq JobStates /\ "done" \notin Active
  BY DEF JobStates, Terminal, Active, Life!Active
<1>5. job' \in [Assignment -> JobStates] /\ JobsBacked'
  BY <1>1, <1>2, <1>3, <1>4 DEF JobsBacked, BackedInv
<1>6. TurnsBacked'
  BY <1>1 DEF TurnsBacked, BackedInv
<1>7. DoneRowBacked'
  BY <1>1 DEF DoneRowBacked, Recorded, BackedInv
<1> QED
  BY <1>1, <1>5, <1>6, <1>7 DEF BackedInv, BackedTypes

(* A turn of a sync loop writes done, and the file, where it read done.    *)
LEMMA SyncStepBacked ==
  ASSUME BackedInv, NEW s \in Session, SyncStep(s)
  PROVE  BackedInv'
<1> USE DEF BackedInv, BackedTypes, dbVars, outsideVars, jobVars
<1>1. PICK r \in Request : SyncRead(s, r) \/ SyncCommit(s, r) \/ SyncDies(s, r)
  BY DEF SyncStep
<1>2. CASE SyncRead(s, r)
  <2> DEFINE new  == [a \in {b \in Rows(s) : job[b] # "absent"} |-> job[a]]
             turn == [step |-> "commit", outcome |-> Outcome(s), new |-> new]
  <2>1. Rows(s) \subseteq Assignment /\ Outcome(s) \in {"none"} \cup Terminal
    BY DEF Rows, Outcome, Terminal
  <2>2. new \in UNION {[as -> JobStates] : as \in SUBSET Assignment}
    <3> DEFINE seen == {b \in Rows(s) : job[b] # "absent"}
    <3>1. seen \in SUBSET Assignment
      BY <2>1
    <3> HIDE DEF seen
    <3>2. [a \in seen |-> job[a]] \in [seen -> JobStates]
      BY <3>1
    <3>3. [seen -> JobStates] \in {[as -> JobStates] : as \in SUBSET Assignment}
      BY <3>1, Zenon
    <3>4. new = [a \in seen |-> job[a]]
      BY DEF seen
    <3> QED
      BY <3>2, <3>3, <3>4, Zenon
  <2>3. turn \in Turns
    BY <2>1, <2>2 DEF Turns
  <2>4. loop' = [loop EXCEPT ![s][r] = turn]
    BY <1>2 DEF SyncRead
  <2>5. UNCHANGED <<row, filed, side, unsaved, job>>
    BY <1>2 DEF SyncRead
  <2>6. \A a \in Assignment : a \in DOMAIN new /\ new[a] = "done" => Recorded(a)
    BY DEF JobsBacked
  <2> HIDE DEF turn
  <2>7. turn.new = new
    BY DEF turn
  <2> HIDE DEF new
  <2>8. TurnsBacked'
    BY <2>4, <2>5, <2>6, <2>7 DEF TurnsBacked, Recorded
  <2> QED
    BY <2>3, <2>4, <2>5, <2>8 DEF JobsBacked, DoneRowBacked, Recorded
<1>3. CASE SyncCommit(s, r)
  <2> DEFINE turn == loop[s][r]
  <2>1. turn.step = "commit" /\ turn \in Turns
    BY <1>3 DEF SyncCommit
  <2>2. PICK as \in SUBSET Assignment : turn.new \in [as -> JobStates]
    <3>1. PICK t \in [step : {"commit"}, outcome : {"none"} \cup Terminal,
                      new : UNION {[as -> JobStates] : as \in SUBSET Assignment}] :
            turn = t
      BY <2>1 DEF Turns, NoLoop
    <3> HIDE DEF turn
    <3>2. turn.new \in UNION {[as -> JobStates] : as \in SUBSET Assignment}
      BY <3>1
    <3> QED
      BY <3>2, Zenon
  <2>3. UNCHANGED <<side, unsaved, job>>
    BY <1>3 DEF SyncCommit
  <2>4. loop' \in [Session -> [Request -> Turns]] /\ TurnsBacked'
    <3>1. PICK next \in {NoLoop, [step |-> "sleep"]} :
            loop' = [loop EXCEPT ![s][r] = next]
      BY <1>3, Zenon DEF SyncCommit
    <3>2. next \in Turns /\ next.step # "commit"
      BY DEF Turns, NoLoop
    <3> HIDE DEF BackedTypes, BackedInv
    <3>3. loop \in [Session -> [Request -> Turns]] /\ TurnsBacked
      BY DEF BackedInv, BackedTypes
    <3>4. loop' \in [Session -> [Request -> Turns]]
      BY <3>1, <3>2, <3>3
    <3>5. \A u \in Session, q \in Request :
            loop'[u][q].step = "commit" => loop'[u][q] = loop[u][q]
      BY <3>1, <3>2, <3>3
    <3> QED
      BY <3>3, <3>4, <3>5, <2>3 DEF TurnsBacked, Recorded
  <2>5. /\ row'   = [a \in Assignment |->
                       IF a \in DOMAIN turn.new /\ row[a] # "absent"
                         THEN turn.new[a] ELSE row[a]]
        /\ filed' = [a \in Assignment |->
                       filed[a] \/ (/\ a \in DOMAIN turn.new /\ row[a] # "absent"
                                    /\ turn.new[a] \in Terminal)]
    <3> DEFINE seen == {a \in DOMAIN turn.new : row[a] # "absent"}
    <3>1. /\ row'   = [a \in Assignment |-> IF a \in seen THEN turn.new[a] ELSE row[a]]
          /\ filed' = [a \in Assignment |->
                         filed[a] \/ (a \in seen /\ turn.new[a] \in Terminal)]
      BY <1>3 DEF SyncCommit
    <3>2. \A a \in Assignment :
            a \in seen <=> a \in DOMAIN turn.new /\ row[a] # "absent"
      OBVIOUS
    <3> HIDE DEF seen, turn
    <3> QED
      BY <3>1, <3>2, Zenon
  <2>6. row' \in [Assignment -> JobStates] /\ filed' \in [Assignment -> BOOLEAN]
    BY <2>2, <2>5
  <2>7. DoneRowBacked'
    <3> SUFFICES ASSUME NEW a \in Assignment, row'[a] = "done"
                 PROVE  filed'[a] /\ Recorded(a)'
      BY DEF DoneRowBacked, Recorded
    <3>1. CASE a \in DOMAIN turn.new /\ row[a] # "absent"
      BY <3>1, <2>1, <2>3, <2>5 DEF TurnsBacked, Terminal, Recorded
    <3>2. CASE ~(a \in DOMAIN turn.new /\ row[a] # "absent")
      BY <3>2, <2>3, <2>5 DEF DoneRowBacked, Recorded
    <3> QED
      BY <3>1, <3>2
  <2> QED
    BY <2>3, <2>4, <2>6, <2>7 DEF JobsBacked, Recorded
<1>4. CASE SyncDies(s, r)
  BY <1>4 DEF SyncDies, Turns, NoLoop, JobsBacked, TurnsBacked, DoneRowBacked, Recorded
<1> QED
  BY <1>1, <1>2, <1>3, <1>4

(* Requests: what they write to a row is pending or nothing.               *)
LEMMA RequestStepBacked ==
  ASSUME BackedInv, NEW r \in Request, RequestStep(r)
  PROVE  BackedInv'
<1> USE DEF BackedInv, BackedTypes, dbVars, outsideVars, jobVars, loopVars
<1>1. CASE StartCommit(r) \/ AddCommit(r) \/ RemoveCommit(r)
  <2>1. /\ UNCHANGED <<side, unsaved, job, loop>>
        /\ row' \in [Assignment -> JobStates] /\ filed' \in [Assignment -> BOOLEAN]
    <3>1. {"absent", "pending"} \subseteq JobStates
      BY DEF JobStates, Active, Life!Active
    <3> QED
      BY <1>1, <3>1 DEF StartCommit, AddCommit, RemoveCommit
  <2>2. \A a \in Assignment : row'[a] = "done" => row[a] = "done" /\ filed'[a] = filed[a]
    BY <1>1 DEF StartCommit, AddCommit, RemoveCommit
  <2> QED
    BY <2>1, <2>2 DEF JobsBacked, TurnsBacked, DoneRowBacked, Recorded
<1>2. CASE StartAborts(r) \/ StopCommit(r) \/ StopSignal(r)
  BY <1>2, BackedFrame DEF StartAborts, StopCommit, StopSignal
<1>3. CASE StartLaunch(r)
  <2>1. /\ \A a \in Assignment : job'[a] \in {"pending", job[a]}
        /\ job' \in [Assignment -> JobStates]
        /\ UNCHANGED <<row, filed, side, unsaved>>
    BY <1>3 DEF StartLaunch, JobStates, Active, Life!Active
  <2>2. loop' = [loop EXCEPT ![req[r].s][r] = [step |-> "sleep"]]
    BY <1>3, Zenon DEF StartLaunch
  <2> DEFINE next == [step |-> "sleep"]
             s    == req[r].s
  <2>3. next \in Turns /\ next.step # "commit"
    BY DEF Turns
  <2> HIDE DEF next, s, BackedTypes, BackedInv
  <2>4. loop \in [Session -> [Request -> Turns]] /\ TurnsBacked
    BY DEF BackedInv, BackedTypes
  <2>5. loop' = [loop EXCEPT ![s][r] = next]
    BY <2>2 DEF next, s
  <2>6. loop' \in [Session -> [Request -> Turns]]
    BY <2>3, <2>4, <2>5
  <2>7. \A u \in Session, q \in Request :
          loop'[u][q].step = "commit" => loop'[u][q] = loop[u][q]
    BY <2>3, <2>4, <2>5
  <2>8. TurnsBacked'
    BY <2>1, <2>4, <2>6, <2>7 DEF TurnsBacked, Recorded
  <2> QED
    BY <2>1, <2>6, <2>8 DEF BackedInv, BackedTypes, JobsBacked, DoneRowBacked, Recorded
<1> QED
  BY <1>1, <1>2, <1>3 DEF RequestStep

(* The end of the process forgets jobs and loops; the reconciler writes    *)
(* failed and only ever idles access points.                               *)
LEMMA ExitStepBacked ==
  ASSUME BackedInv, Crash \/ Shutdown \/ BootStep
  PROVE  BackedInv'
<1> USE DEF BackedInv, BackedTypes, dbVars, outsideVars, jobVars, loopVars
<1>1. CASE Crash \/ Exit
  BY <1>1 DEF Crash, Exit, Forget, Turns, JobStates, JobsBacked, TurnsBacked,
              DoneRowBacked, NoLoop, Recorded
<1>2. CASE Shutdown
  <2>1. /\ UNCHANGED <<row, filed, side, unsaved, job>>
        /\ loop' = [s \in Session |->
                     [r \in Request |-> IF r \in task[s] THEN NoLoop ELSE loop[s][r]]]
    BY <1>2 DEF Shutdown
  <2>2. loop' \in [Session -> [Request -> Turns]] /\ TurnsBacked'
    BY <2>1 DEF Turns, TurnsBacked, NoLoop, Recorded
  <2> QED
    BY <2>1, <2>2 DEF JobsBacked, DoneRowBacked, Recorded
<1>3. CASE Reconcile
  BY <1>3 DEF Reconcile, JobStates, Terminal, JobsBacked, TurnsBacked, DoneRowBacked, Recorded
<1>4. CASE Serve \/ \E a \in Assignment : IdleOrphan(a)
  BY <1>4, BackedFrame DEF Serve, IdleOrphan
<1> QED
  BY <1>1, <1>2, <1>3, <1>4 DEF BootStep

LEMMA BackedStep == BackedInv /\ [Next]_vars => BackedInv'
<1> SUFFICES ASSUME BackedInv, [Next]_vars PROVE BackedInv'
  OBVIOUS
<1>1. ASSUME NEW r \in Request,
             \/ \E s \in Session : StartRead(r, s) \/ StopRead(r, s)
             \/ \E a \in Assignment : AddRead(r, a) \/ RemoveRead(r, a)
      PROVE  BackedInv'
  BY <1>1, BackedFrame DEF StartRead, StopRead, AddRead, RemoveRead, Receive,
                           dbVars, outsideVars, jobVars, loopVars
<1>2. CASE UNCHANGED vars
  BY <1>2, BackedFrame DEF vars, dbVars, outsideVars, jobVars, loopVars
<1> QED
  BY <1>1, <1>2, JobStepBacked, SyncStepBacked, RequestStepBacked, ExitStepBacked
     DEF Next

(* A row that shows done has its file on record and its sidecar written,   *)
(* unless the attempt to write it failed, whatever requests, edits, double *)
(* starts and exits interleave.                                            *)
THEOREM DoneRowsAreBacked == Spec => []DoneRowBacked
<1>1. BackedInv => DoneRowBacked
  BY DEF BackedInv
<1> QED
  BY <1>1, BackedInit, BackedStep, PTL DEF Spec

(* The types the argument above does not use: what a session may show, and *)
(* where the process is.                                                   *)
OtherTypes ==
  /\ sess \in [Session -> SessStates]
  /\ up \in {"up", "closing", "down", "idling"}
  /\ orphans \subseteq Assignment
  /\ left \subseteq Assignment /\ unsaved \subseteq Assignment

LEMMA SessTyped ==
  ASSUME BackedInv, OtherTypes, [Next]_vars
  PROVE  sess' \in [Session -> SessStates]
<1> USE DEF OtherTypes, dbVars
<1>1. {"running", "stopping", "failed"} \subseteq SessStates
  BY DEF SessStates, Terminal
<1>2. ASSUME NEW r \in Request, StartCommit(r) \/ StopCommit(r)
      PROVE  sess' \in [Session -> SessStates]
  BY <1>1, <1>2 DEF StartCommit, StopCommit
<1>3. ASSUME NEW s \in Session, NEW r \in Request, SyncCommit(s, r)
      PROVE  sess' \in [Session -> SessStates]
  <2>1. loop[s][r] \in Turns /\ loop[s][r].step = "commit"
    BY <1>3 DEF SyncCommit, BackedInv, BackedTypes
  <2>2. loop[s][r].outcome \in {"none"} \cup Terminal
    <3>1. PICK t \in [step : {"commit"}, outcome : {"none"} \cup Terminal,
                      new : UNION {[as -> JobStates] : as \in SUBSET Assignment}] :
            loop[s][r] = t
      BY <2>1 DEF Turns, NoLoop
    <3> QED
      BY <3>1
  <2>3. \/ UNCHANGED sess
        \/ loop[s][r].outcome # "none" /\ sess' = [sess EXCEPT ![s] = loop[s][r].outcome]
    BY <1>3, Zenon DEF SyncCommit
  <2> QED
    BY <2>2, <2>3 DEF SessStates
<1>4. CASE Reconcile
  BY <1>1, <1>4 DEF Reconcile
<1>5. CASE UNCHANGED sess
  BY <1>5
<1>6. ASSUME NEW r \in Request, RequestStep(r), ~StartCommit(r), ~StopCommit(r)
      PROVE  UNCHANGED sess
  BY <1>6 DEF RequestStep, StartAborts, StartLaunch, StopSignal, AddCommit, RemoveCommit
<1>7. ASSUME NEW s \in Session, NEW r \in Request, SyncRead(s, r) \/ SyncDies(s, r)
      PROVE  UNCHANGED sess
  BY <1>7 DEF SyncRead, SyncDies
<1>8. ASSUME NEW a \in Assignment, JobStep(a) \/ IdleOrphan(a) PROVE UNCHANGED sess
  BY <1>8 DEF JobStep, JobProgresses, JobStreams, JobDone, JobFails, JobCleaned,
              ManagedFails, IdleOrphan
<1>9. ASSUME NEW r \in Request,
             \/ \E s \in Session : StartRead(r, s) \/ StopRead(r, s)
             \/ \E a \in Assignment : AddRead(r, a) \/ RemoveRead(r, a)
      PROVE  UNCHANGED sess
  BY <1>9 DEF StartRead, StopRead, AddRead, RemoveRead, Receive
<1>10. CASE Crash \/ Shutdown \/ Exit \/ Serve \/ UNCHANGED vars
  BY <1>10 DEF Crash, Shutdown, Exit, Serve, vars
<1> QED
  BY <1>2, <1>3, <1>4, <1>5, <1>6, <1>7, <1>8, <1>9, <1>10
     DEF Next, SyncStep, BootStep

LEMMA RunTyped ==
  ASSUME OtherTypes, [Next]_vars
  PROVE  /\ up' \in {"up", "closing", "down", "idling"}
         /\ orphans' \subseteq Assignment
         /\ left' \subseteq Assignment /\ unsaved' \subseteq Assignment
<1> USE DEF OtherTypes, runVars
<1>1. CASE Crash \/ Shutdown \/ Exit \/ Reconcile \/ Serve
  BY <1>1 DEF Crash, Shutdown, Exit, Reconcile, Serve, outsideVars
<1>2. ASSUME NEW a \in Assignment, IdleOrphan(a)
      PROVE  UNCHANGED <<up, unsaved>> /\ orphans' \subseteq orphans /\ left' \subseteq Assignment
  BY <1>2 DEF IdleOrphan, Idling
<1>3. ASSUME NEW r \in Request,
             \/ RequestStep(r)
             \/ \E s \in Session : StartRead(r, s) \/ StopRead(r, s)
             \/ \E a \in Assignment : AddRead(r, a) \/ RemoveRead(r, a)
      PROVE  UNCHANGED <<runVars, unsaved>> /\ left' \subseteq left
  BY <1>3 DEF RequestStep, StartCommit, StartAborts, StartLaunch, StopCommit, StopSignal,
              AddCommit, RemoveCommit, StartRead, StopRead, AddRead, RemoveRead, Receive,
              outsideVars
<1>4. ASSUME NEW s \in Session, SyncStep(s) PROVE UNCHANGED <<runVars, unsaved, left>>
  BY <1>4 DEF SyncStep, SyncRead, SyncCommit, SyncDies, outsideVars
<1>5. ASSUME NEW a \in Assignment, JobStep(a)
      PROVE  UNCHANGED runVars /\ left' \subseteq Assignment /\ unsaved' \subseteq Assignment
  BY <1>5 DEF JobStep, JobProgresses, JobStreams, JobDone, JobFails, JobCleaned, ManagedFails,
              Idling, Recording, outsideVars
<1>6. CASE UNCHANGED vars
  BY <1>6 DEF vars, outsideVars
<1> QED
  BY <1>1, <1>2, <1>3, <1>4, <1>5, <1>6 DEF Next, BootStep

(* Every row, job, session and loop has a state the code can give it.      *)
THEOREM TypeCorrect == Spec => []TypeOK
<1>1. Init => OtherTypes
  BY DEF Init, OtherTypes, SessStates
<1>2. BackedInv /\ OtherTypes /\ [Next]_vars => OtherTypes'
  BY SessTyped, RunTyped DEF OtherTypes
<1>3. BackedInv /\ OtherTypes => TypeOK
  <2>1. \A t \in Turns : t.step \in {"none", "sleep", "commit"}
    BY DEF Turns, NoLoop
  <2> QED
    BY <2>1 DEF BackedInv, BackedTypes, OtherTypes, TypeOK
<1> QED
  BY <1>1, <1>2, <1>3, BackedInit, BackedStep, PTL DEF Spec

-----------------------------------------------------------------------------
(* The types of the rest, and with them of requests in progress.           *)

Captures(s) == {a \in Assignment : SessOf[a] = s}

Requests ==
  [op : {"start", "stop", "add", "remove"}, step : {"commit", "act"},
   s : Session, as : SUBSET Assignment]

RunTypes ==
  /\ stream \in [Assignment -> BOOLEAN]
  /\ stopf \in [Assignment -> BOOLEAN]
  /\ cleaning \in [Assignment -> BOOLEAN]
  /\ task \in [Session -> SUBSET Request]
  /\ req \in [Request -> Requests \cup {NoRequest}]

AllTypes == BackedInv /\ OtherTypes /\ RunTypes


LEMMA RequestTyped ==
  ASSUME AllTypes, NEW r \in Request, req[r] # NoRequest
  PROVE  req[r] \in Requests
  BY DEF AllTypes, RunTypes

LEMMA RunTypesStep == AllTypes /\ [Next]_vars => RunTypes'
<1> SUFFICES ASSUME AllTypes, [Next]_vars PROVE RunTypes'
  OBVIOUS
<1>1. RunTypes
  BY DEF AllTypes
<1> USE DEF dbVars, outsideVars, jobVars, loopVars, runVars
<1>2. ASSUME NEW r \in Request, NEW s \in Session, StartRead(r, s) \/ StopRead(r, s)
      PROVE  RunTypes'
  <2>1. Rows(s) \in SUBSET Assignment
    BY DEF Rows
  <2> QED
    BY <1>1, <1>2, <2>1 DEF RunTypes, StartRead, StopRead, Receive, Requests
<1>3. ASSUME NEW r \in Request, NEW a \in Assignment, AddRead(r, a) \/ RemoveRead(r, a)
      PROVE  RunTypes'
  <2>1. SessOf[a] \in Session
    BY SessionsAssumption
  <2> QED
    BY <1>1, <1>3, <2>1 DEF RunTypes, AddRead, RemoveRead, Receive, Requests
<1>4. ASSUME NEW r \in Request, RequestStep(r) PROVE RunTypes'
  <2>1. CASE StartCommit(r) \/ StopCommit(r)
    BY <1>1, <2>1 DEF RunTypes, StartCommit, StopCommit, At, NextStep, Requests
  <2>2. CASE StartAborts(r) \/ AddCommit(r) \/ RemoveCommit(r)
    BY <1>1, <2>2 DEF RunTypes, StartAborts, AddCommit, RemoveCommit, Answer
  <2>3. CASE StartLaunch(r)
    <3>1. req[r].s \in Session
      BY <1>1, <2>3 DEF RunTypes, StartLaunch, At, Requests
    <3> DEFINE s  == req[r].s
               as == req[r].as
    <3>2. /\ stopf' = [a \in Assignment |-> stopf[a] /\ a \notin as]
          /\ task' = [task EXCEPT ![s] = {r}]
          /\ req' = [req EXCEPT ![r] = NoRequest]
          /\ UNCHANGED <<stream, cleaning>>
      BY <2>3 DEF StartLaunch, Answer
    <3> HIDE DEF s, as
    <3>3. stopf' \in [Assignment -> BOOLEAN]
      BY <3>2, Zenon
    <3> QED
      BY <1>1, <3>1, <3>2, <3>3 DEF RunTypes, s
  <2>4. CASE StopSignal(r)
    <3>1. req[r].s \in Session
      BY <1>1, <2>4 DEF RunTypes, StopSignal, At, Requests
    <3>2. stopf' \in [Assignment -> BOOLEAN]
      BY <2>4, Zenon DEF StopSignal
    <3> QED
      BY <1>1, <2>4, <3>1, <3>2 DEF RunTypes, StopSignal, Answer
  <2> QED
    BY <1>4, <2>1, <2>2, <2>3, <2>4 DEF RequestStep
<1>5. ASSUME NEW s \in Session, SyncStep(s) PROVE RunTypes'
  BY <1>1, <1>5 DEF RunTypes, SyncStep, SyncRead, SyncCommit, SyncDies
<1>6. ASSUME NEW a \in Assignment, JobStep(a) PROVE RunTypes'
  BY <1>1, <1>6 DEF RunTypes, JobStep, JobProgresses, JobStreams, JobDone, JobFails, JobCleaned,
                    ManagedFails, Idling
<1>7. CASE Crash \/ Exit
  BY <1>1, <1>7 DEF RunTypes, Crash, Exit, Forget
<1>8. CASE Shutdown
  <2>1. stopf' \in [Assignment -> BOOLEAN]
    BY <1>8, Zenon DEF Shutdown
  <2> QED
    BY <1>1, <1>8, <2>1 DEF RunTypes, Shutdown
<1>9. CASE Reconcile \/ Serve \/ \E a \in Assignment : IdleOrphan(a)
  BY <1>1, <1>9 DEF RunTypes, Reconcile, Serve, IdleOrphan, Idling
<1>10. CASE UNCHANGED vars
  BY <1>1, <1>10 DEF vars, RunTypes
<1> QED
  BY <1>2, <1>3, <1>4, <1>5, <1>6, <1>7, <1>8, <1>9, <1>10 DEF Next, BootStep

LEMMA AllTyped == AllTypes /\ [Next]_vars => AllTypes'
  BY BackedStep, SessTyped, RunTyped, RunTypesStep DEF AllTypes, OtherTypes

(***************************************************************************)
(* What the repository says of a session, in every behaviour in which no   *)
(* two requests for one session are in progress together. Requests for     *)
(* different sessions overlap as they please.                              *)
(***************************************************************************)
(* No two requests for one session are in progress together.               *)
OneAtATime ==
  \A q, r \in Request :
    req[q] # NoRequest /\ req[r] # NoRequest /\ req[q].s = req[r].s => q = r

(* Nothing of the session has reached the engine.                          *)
Unlaunched(s) ==
  /\ \A a \in Captures(s) : job[a] = "absent"
  /\ \A r \in Request : loop[s][r].step = "none"

(* Between the commit of start_session and its Engine.start.               *)
Launching(s) ==
  /\ sess[s] = "running" /\ Unlaunched(s)
  /\ \A a \in Rows(s) : row[a] \in Active

(* What a request read still holds when it goes on.                        *)
RequestRight(r) == req[r] # NoRequest =>
  /\ up = "up"
  /\ req[r].as \subseteq Captures(req[r].s)
  /\ req[r].op \in {"start", "stop"} => req[r].as = Rows(req[r].s)
  /\ req[r].op = "stop" => sess[req[r].s] # "draft"
  /\ req[r].op # "stop" /\ req[r].step = "commit" => sess[req[r].s] = "draft"
  /\ req[r].op # "stop" /\ req[r].step = "act" =>
       req[r].op = "start" /\ Launching(req[r].s)

DraftRight(s) == sess[s] = "draft" => Unlaunched(s)

(* A capture under way has its row, which lags behind it but is never      *)
(* ahead, and its session is neither a draft nor over.                     *)
JobRight(a) ==
  /\ job[a] # "absent" => row[a] # "absent" /\ up \in {"up", "closing"}
  /\ job[a] \in Active =>
       /\ row[a] \in Active
       /\ sess[SessOf[a]] \in {"running", "stopping"}
  /\ cleaning[a] => job[a] = "failed"

(* A sync loop watches captures that are all launched; of those that ended *)
(* it knows no more than the truth.                                        *)
TurnRight(s, r) == loop[s][r].step # "none" =>
  /\ up = "up" /\ sess[s] \in {"running", "stopping"} /\ task[s] = {r}
  /\ \A a \in Rows(s) : job[a] # "absent"
  /\ loop[s][r].step = "commit" =>
       /\ DOMAIN loop[s][r].new = Rows(s)
       /\ loop[s][r].outcome \in {"none"} \cup Terminal
       /\ \A a \in Rows(s) :
            /\ loop[s][r].new[a] \in Active \cup Terminal
            /\ loop[s][r].new[a] \in Terminal => job[a] = loop[s][r].new[a]
            /\ loop[s][r].outcome # "none" => loop[s][r].new[a] \in Terminal
            /\ loop[s][r].outcome = "done" => loop[s][r].new[a] = "done"

EndedRight(s) == sess[s] \in Terminal =>
  \A a \in Rows(s) : row[a] \in Terminal /\ (sess[s] = "done" => row[a] = "done")

(* Who will idle an access point that streams.                             *)
StreamRight(a) == stream[a] =>
  \/ a \in left
  \/ up \in {"up", "closing"} /\ (job[a] \in Active \/ cleaning[a])
  \/ up = "down" /\ row[a] \in Active
  \/ up = "idling" /\ a \in orphans

SessionsRight    == \A s \in Session : DraftRight(s) /\ EndedRight(s)
RequestsRight    == \A r \in Request : RequestRight(r)
TurnsRight       == \A s \in Session, r \in Request : TurnRight(s, r)
AssignmentsRight == \A a \in Assignment : JobRight(a) /\ StreamRight(a)

Rights    == SessionsRight /\ RequestsRight /\ TurnsRight /\ AssignmentsRight
SerialInv == AllTypes /\ Rights

LEMMA SerialInit == Init => SerialInv
<1> SUFFICES ASSUME Init PROVE SerialInv
  OBVIOUS
<1>1. AllTypes
  <2>1. BackedInv
    BY BackedInit
  <2>2. OtherTypes
    BY DEF Init, OtherTypes, SessStates
  <2> QED
    BY <2>1, <2>2 DEF Init, AllTypes, RunTypes
<1>2. SessionsRight /\ RequestsRight /\ TurnsRight /\ AssignmentsRight
  BY SessionsAssumption
     DEF Init, SessionsRight, RequestsRight, TurnsRight, AssignmentsRight, DraftRight,
         EndedRight, RequestRight, TurnRight, JobRight, StreamRight, Unlaunched, Captures,
         Active, Life!Active, Terminal, NoLoop
<1> QED
  BY <1>1, <1>2 DEF SerialInv, Rights

(* Steps that leave a session as its requests and its draft see it.        *)
Kept(s) ==
  /\ \A a \in Captures(s) : row'[a] = "absent" <=> row[a] = "absent"
  /\ sess'[s] = "draft" <=> sess[s] = "draft"
  /\ Unlaunched(s) => /\ Unlaunched(s)' /\ sess'[s] = sess[s]
                      /\ \A a \in Captures(s) : row'[a] = row[a]

LEMMA RequestKept ==
  ASSUME NEW r \in Request, RequestRight(r), req'[r] = req[r], up' = up, Kept(req[r].s)
  PROVE  RequestRight(r)'
<1>1. Rows(req[r].s)' = Rows(req[r].s)
  BY DEF Kept, Captures, Rows
<1>2. Launching(req[r].s) => Launching(req[r].s)'
  BY <1>1 DEF Kept, Launching, Captures, Rows
<1> QED
  BY <1>1, <1>2 DEF RequestRight, Kept, Captures

LEMMA DraftKept ==
  ASSUME NEW s \in Session, DraftRight(s), Kept(s)
  PROVE  DraftRight(s)'
  BY DEF DraftRight, Kept

-----------------------------------------------------------------------------
(* Requests. *)

(* Only the request r goes on, and the sessions of the others are kept.    *)
LEMMA RequestsKept ==
  ASSUME RequestsRight, NEW r \in Request, up' = up,
         \A q \in Request : q # r => req'[q] = req[q],
         \A q \in Request : q # r /\ req[q] # NoRequest => Kept(req[q].s),
         RequestRight(r)'
  PROVE  RequestsRight'
<1> SUFFICES ASSUME NEW q \in Request PROVE RequestRight(q)'
  BY DEF RequestsRight
<1>1. CASE q # r /\ req[q] = NoRequest
  BY <1>1 DEF RequestRight
<1>2. CASE q # r /\ req[q] # NoRequest
  BY <1>2, RequestKept DEF RequestsRight
<1> QED
  BY <1>1, <1>2

LEMMA AnsweredRight ==
  ASSUME AllTypes, NEW r \in Request, Answer(r)
  PROVE  /\ RequestRight(r)'
         /\ \A q \in Request : q # r => req'[q] = req[q]
  BY DEF AllTypes, RunTypes, Answer, RequestRight

LEMMA NextStepRight ==
  ASSUME AllTypes, NEW r \in Request, NEW step, req[r] # NoRequest, NextStep(r, step)
  PROVE  /\ req'[r] = [op |-> req[r].op, step |-> step, s |-> req[r].s, as |-> req[r].as]
         /\ \A q \in Request : q # r => req'[q] = req[q]
  BY RequestTyped DEF AllTypes, RunTypes, NextStep, Requests

(* A step that keeps the database, the process and the engine.             *)
Quiet == UNCHANGED <<sess, row, stream, left, jobVars, loop, task, up, orphans>>

LEMMA QuietRight ==
  ASSUME Rights, Quiet
  PROVE  SessionsRight' /\ TurnsRight' /\ AssignmentsRight' /\ \A s \in Session : Kept(s)
  BY DEF Quiet, Rights, jobVars, SessionsRight, TurnsRight, AssignmentsRight, DraftRight,
         EndedRight, TurnRight, JobRight, StreamRight, Unlaunched, Kept, Rows

LEMMA ReceiveRight ==
  ASSUME SerialInv, NEW r \in Request, NEW op \in {"start", "stop", "add", "remove"},
         NEW step \in {"commit", "act"}, NEW s \in Session,
         NEW as \in SUBSET Captures(s), Receive(r, op, step, s, as),
         op \in {"start", "stop"} => as = Rows(s),
         op = "stop" => sess[s] # "draft",
         op # "stop" => sess[s] = "draft" /\ step = "commit"
  PROVE  Rights'
<1> USE DEF dbVars, outsideVars, jobVars, loopVars, runVars
<1>1. Quiet
  BY DEF Receive, Quiet
<1>2. /\ up = "up" /\ up' = up
      /\ \A q \in Request : q # r => req'[q] = req[q]
      /\ req'[r] = [op |-> op, step |-> step, s |-> s, as |-> as]
  BY DEF SerialInv, AllTypes, RunTypes, Receive
<1>3. RequestRight(r)'
  <2> DEFINE rows == Rows(s)
  <2>1. Rows(s)' = rows /\ sess' = sess
    BY <1>1 DEF Quiet, Rows
  <2>2. Captures(s)' = Captures(s) /\ as \subseteq Captures(s)
    BY DEF Captures
  <2>3. /\ req'[r].op = op /\ req'[r].step = step
        /\ req'[r].s = s /\ req'[r].as = as
    BY <1>2
  <2>4. op = "stop" \/ step = "commit"
    OBVIOUS
  <2>5. Rows(req[r].s)' = rows
    BY <2>1, <2>3 DEF Rows
  <2> HIDE DEF rows
  <2>6. as = rows \/ op \notin {"start", "stop"}
    BY DEF rows
  <2> QED
    BY <1>2, <2>1, <2>2, <2>3, <2>4, <2>5, <2>6 DEF RequestRight, Captures
<1>4. RequestsRight'
  <2>1. \A q \in Request : req[q] # NoRequest => req[q].s \in Session
    BY RequestTyped DEF SerialInv, Requests
  <2> QED
    BY <1>1, <1>2, <1>3, <2>1, QuietRight, RequestsKept DEF SerialInv, Rights
<1> QED
  BY <1>1, <1>4, QuietRight DEF SerialInv, Rights

LEMMA ReadRight ==
  ASSUME SerialInv, NEW r \in Request,
         \/ \E s \in Session : StartRead(r, s) \/ StopRead(r, s)
         \/ \E a \in Assignment : AddRead(r, a) \/ RemoveRead(r, a)
  PROVE  Rights'
<1>1. ASSUME NEW s \in Session, StartRead(r, s) \/ StopRead(r, s) PROVE Rights'
  <2>1. Rows(s) \in SUBSET Captures(s)
    BY DEF Rows, Captures
  <2>2. CASE StartRead(r, s)
    BY <2>1, <2>2, ReceiveRight DEF StartRead
  <2>3. CASE StopRead(r, s)
    BY <2>1, <2>3, ReceiveRight DEF StopRead
  <2> QED
    BY <1>1, <2>2, <2>3
<1>2. ASSUME NEW a \in Assignment, AddRead(r, a) \/ RemoveRead(r, a) PROVE Rights'
  <2>1. SessOf[a] \in Session /\ {a} \in SUBSET Captures(SessOf[a])
    BY SessionsAssumption DEF Captures
  <2> QED
    BY <1>2, <2>1, ReceiveRight DEF AddRead, RemoveRead
<1> QED
  BY <1>1, <1>2

(* With one request at a time, the others are for other sessions.          *)
LEMMA OthersElsewhere ==
  ASSUME AllTypes, OneAtATime, NEW r \in Request, req[r] # NoRequest,
         \A u \in Session : u # req[r].s => Kept(u)
  PROVE  \A q \in Request : q # r /\ req[q] # NoRequest => Kept(req[q].s)
  BY RequestTyped DEF OneAtATime, Requests

LEMMA StartCommitRight ==
  ASSUME SerialInv, OneAtATime, NEW r \in Request, StartCommit(r)
  PROVE  Rights'
<1> USE DEF outsideVars, jobVars, loopVars, runVars
<1>0. PICK s \in Session : s = req[r].s
  BY RequestTyped DEF SerialInv, StartCommit, At, Requests
<1>1. /\ req[r] # NoRequest /\ req[r].as = Rows(s) /\ up = "up"
      /\ sess[s] = "draft" /\ Unlaunched(s)
  BY <1>0 DEF SerialInv, Rights, SessionsRight, RequestsRight, RequestRight, DraftRight,
              StartCommit, At
<1>2. /\ sess' = [sess EXCEPT ![s] = "running"]
      /\ NextStep(r, "act")
      /\ UNCHANGED <<stream, left, job, cleaning, loop, task, up, orphans>>
  BY <1>0 DEF StartCommit
<1>3. \A a \in Assignment :
        row'[a] = IF SessOf[a] = s /\ row[a] # "absent" THEN "pending" ELSE row[a]
  BY <1>1, SessionsAssumption DEF StartCommit, Rows
<1>4. /\ req'[r].s = s /\ req'[r].as = req[r].as
      /\ req'[r].op = "start" /\ req'[r].step = "act"
      /\ \A q \in Request : q # r => req'[q] = req[q]
  <2>1. req[r] # NoRequest /\ req[r].op = "start"
    BY DEF StartCommit, At
  <2>2. /\ req'[r] = [op |-> req[r].op, step |-> "act", s |-> req[r].s, as |-> req[r].as]
        /\ \A q \in Request : q # r => req'[q] = req[q]
    BY <1>2, <2>1, NextStepRight, Zenon DEF SerialInv
  <2> QED
    BY <1>0, <2>1, <2>2
<1>5. /\ sess \in [Session -> SessStates] /\ SessOf \in [Assignment -> Session]
      /\ "pending" \in Active /\ "running" \notin Terminal
  BY SessionsAssumption DEF SerialInv, AllTypes, OtherTypes, Active, Life!Active, Terminal
<1>6. \A u \in Session : Rows(u)' = Rows(u)
  BY <1>3 DEF Rows
<1>7. \A u \in Session : u # s => Kept(u)
  BY <1>2, <1>3, <1>5 DEF Kept, Captures, Unlaunched
<1>8. Launching(s)'
  BY <1>1, <1>2, <1>3, <1>5 DEF Launching, Unlaunched, Captures, Rows
<1>9. RequestsRight'
  <2>1. RequestRight(r)'
    <3>1. Captures(req[r].s)' = Captures(s) /\ Rows(req[r].s)' = Rows(s)
      BY <1>4, <1>6 DEF Captures, Rows
    <3>2. Launching(req[r].s)'
      BY <1>8, <1>4 DEF Launching, Unlaunched, Captures, Rows
    <3>3. Rows(s) \subseteq Captures(s)
      BY DEF Rows, Captures
    <3> QED
      BY <1>1, <1>2, <1>4, <3>1, <3>2, <3>3 DEF RequestRight
  <2> QED
    BY <1>1, <1>2, <1>4, <1>7, <2>1, OthersElsewhere, RequestsKept, <1>0 DEF SerialInv, Rights
<1>10. SessionsRight'
  <2> SUFFICES ASSUME NEW u \in Session PROVE DraftRight(u)' /\ EndedRight(u)'
    BY DEF SessionsRight
  <2>1. CASE u = s
    BY <1>1, <1>2, <1>5, <2>1 DEF DraftRight, EndedRight
  <2>2. CASE u # s
    BY <1>2, <1>3, <1>6, <1>7, <2>2, DraftKept
       DEF SerialInv, Rights, SessionsRight, EndedRight, Rows
  <2> QED
    BY <2>1, <2>2
<1>11. TurnsRight'
  <2> SUFFICES ASSUME NEW u \in Session, NEW q \in Request PROVE TurnRight(u, q)'
    BY DEF TurnsRight
  <2>1. TurnRight(u, q)
    BY DEF SerialInv, Rights, TurnsRight
  <2>2. CASE u = s
    BY <1>1, <1>2, <2>2 DEF TurnRight, Unlaunched
  <2>3. CASE u # s
    BY <1>2, <1>5, <1>6, <2>1, <2>3 DEF TurnRight
  <2> QED
    BY <2>2, <2>3
<1>12. AssignmentsRight'
  BY <1>1, <1>2, <1>3, <1>5
     DEF SerialInv, Rights, AssignmentsRight, JobRight, StreamRight, Unlaunched, Captures
<1> QED
  BY <1>9, <1>10, <1>11, <1>12 DEF Rights

LEMMA StartLaunchRight ==
  ASSUME SerialInv, OneAtATime, NEW r \in Request, StartLaunch(r)
  PROVE  Rights'
<1> USE DEF outsideVars, dbVars, loopVars, runVars
<1>0. PICK s \in Session : s = req[r].s
  BY RequestTyped DEF SerialInv, StartLaunch, At, Requests
<1>1. req[r] # NoRequest /\ req[r].as = Rows(s) /\ up = "up" /\ Launching(s)
  BY <1>0 DEF SerialInv, Rights, RequestsRight, RequestRight, Launching, StartLaunch, At
<1>2. /\ UNCHANGED <<sess, row, stream, cleaning, up, orphans>>
      /\ left' = left \ Rows(s)
      /\ Answer(r)
      /\ loop' = [loop EXCEPT ![s][r] = [step |-> "sleep"]]
      /\ task' = [task EXCEPT ![s] = {r}]
  BY <1>0, <1>1 DEF StartLaunch
<1>3. \A a \in Assignment :
        /\ a \in Rows(s) => job'[a] = "pending" /\ job[a] = "absent" /\ ~cleaning[a]
        /\ a \notin Rows(s) => job'[a] = job[a]
  <2>1. \A a \in Rows(s) : job[a] = "absent" /\ ~cleaning[a] /\ job[a] \notin Active
    BY <1>1 DEF SerialInv, Rights, AssignmentsRight, JobRight, Launching, Unlaunched,
                Captures, Rows, Active, Life!Active
  <2>2. job' = [a \in Assignment |-> IF a \in Rows(s) THEN "pending" ELSE job[a]]
    BY <1>1 DEF StartLaunch
  <2> QED
    BY <2>1, <2>2
<1>4. /\ loop \in [Session -> [Request -> Turns]] /\ task \in [Session -> SUBSET Request]
      /\ SessOf \in [Assignment -> Session]
      /\ "pending" \in Active /\ "pending" \notin Terminal /\ "absent" \notin Active
      /\ "running" \notin {"draft"} \cup Terminal
  BY SessionsAssumption
     DEF SerialInv, AllTypes, RunTypes, BackedInv, BackedTypes, Active, Life!Active, Terminal
<1>5. \A u \in Session : Rows(u)' = Rows(u) /\ Rows(u) \subseteq Captures(u)
  BY <1>2 DEF Rows, Captures
<1>6. /\ \A u \in Session : u # s => loop'[u] = loop[u] /\ task'[u] = task[u]
      /\ task'[s] = {r} /\ loop'[s][r] = [step |-> "sleep"]
      /\ \A q \in Request : q # r => loop'[s][q] = loop[s][q]
  BY <1>2, <1>4
<1>7. \A u \in Session : \A a \in Captures(u) : u # s => job'[a] = job[a]
  BY <1>3, <1>5 DEF Captures
<1>8. \A u \in Session : u # s => Kept(u)
  BY <1>2, <1>6, <1>7 DEF Kept, Captures, Unlaunched
<1>9. RequestsRight'
  <2>1. RequestRight(r)' /\ \A q \in Request : q # r => req'[q] = req[q]
    BY <1>2, AnsweredRight DEF SerialInv
  <2> QED
    BY <1>0, <1>1, <1>2, <1>8, <2>1, OthersElsewhere, RequestsKept DEF SerialInv, Rights
<1>10. SessionsRight'
  <2> SUFFICES ASSUME NEW u \in Session PROVE DraftRight(u)' /\ EndedRight(u)'
    BY DEF SessionsRight
  <2>1. CASE u = s
    BY <1>1, <1>2, <1>4, <2>1 DEF DraftRight, EndedRight, Launching
  <2>2. CASE u # s
    BY <1>2, <1>5, <1>8, <2>2, DraftKept DEF SerialInv, Rights, SessionsRight, EndedRight
  <2> QED
    BY <2>1, <2>2
<1>11. TurnsRight'
  <2> SUFFICES ASSUME NEW u \in Session, NEW q \in Request PROVE TurnRight(u, q)'
    BY DEF TurnsRight
  <2>1. TurnRight(u, q)
    BY DEF SerialInv, Rights, TurnsRight
  <2>2. CASE u = s /\ q # r
    BY <1>1, <1>6, <2>2 DEF TurnRight, Launching, Unlaunched
  <2>3. CASE u = s /\ q = r
    <3>1. \A a \in Rows(s) : job'[a] # "absent"
      BY <1>3 DEF Rows
    <3> QED
      BY <1>1, <1>2, <1>5, <1>6, <2>3, <3>1 DEF TurnRight, Launching
  <2>4. CASE u # s
    <3>1. \A a \in Rows(u) : job'[a] = job[a]
      BY <1>5, <1>7, <2>4
    <3> QED
      BY <1>2, <1>5, <1>6, <2>1, <2>4, <3>1 DEF TurnRight
  <2> QED
    BY <2>2, <2>3, <2>4
<1>12. AssignmentsRight'
  <2> SUFFICES ASSUME NEW a \in Assignment PROVE JobRight(a)' /\ StreamRight(a)'
    BY DEF AssignmentsRight
  <2>1. JobRight(a) /\ StreamRight(a)
    BY DEF SerialInv, Rights, AssignmentsRight
  <2>2. CASE a \in Rows(s)
    <3>1. SessOf[a] = s /\ row[a] # "absent" /\ row[a] \in Active
      BY <1>1, <2>2 DEF Rows, Launching, Unlaunched
    <3> QED
      BY <1>1, <1>2, <1>3, <1>4, <2>1, <2>2, <3>1 DEF JobRight, StreamRight, Launching
  <2>3. CASE a \notin Rows(s)
    BY <1>2, <1>3, <2>1, <2>3 DEF JobRight, StreamRight
  <2> QED
    BY <2>2, <2>3
<1> QED
  BY <1>9, <1>10, <1>11, <1>12 DEF Rights

LEMMA StopCommitRight ==
  ASSUME SerialInv, OneAtATime, NEW r \in Request, StopCommit(r)
  PROVE  Rights'
<1> USE DEF outsideVars, jobVars, loopVars, runVars
<1>0. PICK s \in Session : s = req[r].s
  BY RequestTyped DEF SerialInv, StopCommit, At, Requests
<1>1. req[r] # NoRequest /\ req[r].as = Rows(s) /\ up = "up" /\ sess[s] # "draft"
      /\ Rows(s) \subseteq Captures(s)
  BY <1>0 DEF SerialInv, Rights, RequestsRight, RequestRight, StopCommit, At
<1>2. /\ sess' = [sess EXCEPT ![s] = "stopping"]
      /\ UNCHANGED <<row, stream, left, job, cleaning, loop, task, up, orphans>>
  BY <1>0 DEF StopCommit
<1>3. sess \in [Session -> SessStates] /\ SessOf \in [Assignment -> Session]
      /\ "stopping" \notin {"draft"} \cup Terminal
  BY SessionsAssumption DEF SerialInv, AllTypes, OtherTypes, Terminal
<1>4. /\ req'[r].s = s /\ req'[r].as = Rows(s)
      /\ req'[r].op = "stop" /\ req'[r].step = "act"
      /\ \A q \in Request : q # r => req'[q] = req[q]
  <2>1. NextStep(r, "act") /\ req[r].op = "stop"
    BY DEF StopCommit, At
  <2>2. /\ req'[r] = [op |-> req[r].op, step |-> "act", s |-> req[r].s, as |-> req[r].as]
        /\ \A q \in Request : q # r => req'[q] = req[q]
    BY <1>1, <2>1, NextStepRight, Zenon DEF SerialInv
  <2> QED
    BY <1>0, <1>1, <2>1, <2>2
<1>5. \A u \in Session : Rows(u)' = Rows(u)
  BY <1>2 DEF Rows
<1>6. \A u \in Session : u # s => Kept(u)
  BY <1>2, <1>3 DEF Kept, Captures, Unlaunched
<1>7. RequestsRight'
  <2>1. Captures(req[r].s)' = Captures(s) /\ Rows(req[r].s)' = Rows(s)
    BY <1>4, <1>5 DEF Captures, Rows
  <2>2. RequestRight(r)'
    BY <1>1, <1>2, <1>3, <1>4, <2>1 DEF RequestRight
  <2> QED
    BY <1>0, <1>1, <1>2, <1>4, <1>6, <2>2, OthersElsewhere, RequestsKept DEF SerialInv, Rights
<1>8. SessionsRight'
  <2> SUFFICES ASSUME NEW u \in Session PROVE DraftRight(u)' /\ EndedRight(u)'
    BY DEF SessionsRight
  <2>1. CASE u = s
    BY <1>2, <1>3, <2>1 DEF DraftRight, EndedRight
  <2>2. CASE u # s
    BY <1>2, <1>5, <1>6, <2>2, DraftKept DEF SerialInv, Rights, SessionsRight, EndedRight
  <2> QED
    BY <2>1, <2>2
<1>9. TurnsRight'
  BY <1>2, <1>3, <1>5 DEF SerialInv, Rights, TurnsRight, TurnRight
<1>10. AssignmentsRight'
  BY <1>2, <1>3 DEF SerialInv, Rights, AssignmentsRight, JobRight, StreamRight
<1> QED
  BY <1>7, <1>8, <1>9, <1>10 DEF Rights

LEMMA StopSignalRight ==
  ASSUME SerialInv, OneAtATime, NEW r \in Request, StopSignal(r)
  PROVE  Rights'
<1> USE DEF outsideVars, dbVars, loopVars, runVars
<1>0. PICK s \in Session : s = req[r].s
  BY RequestTyped DEF SerialInv, StopSignal, At, Requests
<1>1. req[r] # NoRequest /\ req[r].as = Rows(s) /\ up = "up" /\ sess[s] # "draft"
  BY <1>0 DEF SerialInv, Rights, RequestsRight, RequestRight, StopSignal, At
<1>2. /\ UNCHANGED <<sess, row, stream, left, job, cleaning, loop, task, up, orphans>>
      /\ Answer(r)
  BY <1>0 DEF StopSignal
<1>3. SessOf \in [Assignment -> Session]
  BY SessionsAssumption
<1>4. \A u \in Session : Rows(u)' = Rows(u)
  BY <1>2 DEF Rows
<1>5. \A u \in Session : u # s => Kept(u)
  BY <1>2, <1>3 DEF Kept, Captures, Unlaunched
<1>6. RequestsRight'
  <2>1. RequestRight(r)' /\ \A q \in Request : q # r => req'[q] = req[q]
    BY <1>2, AnsweredRight DEF SerialInv
  <2> QED
    BY <1>0, <1>1, <1>2, <1>5, <2>1, OthersElsewhere, RequestsKept DEF SerialInv, Rights
<1>7. SessionsRight'
  <2> SUFFICES ASSUME NEW u \in Session PROVE DraftRight(u)' /\ EndedRight(u)'
    BY DEF SessionsRight
  <2>1. CASE u = s
    BY <1>1, <1>2, <1>4, <2>1 DEF SerialInv, Rights, SessionsRight, DraftRight, EndedRight
  <2>2. CASE u # s
    BY <1>2, <1>4, <1>5, <2>2, DraftKept DEF SerialInv, Rights, SessionsRight, EndedRight
  <2> QED
    BY <2>1, <2>2
<1>8. TurnsRight'
  BY <1>2, <1>4 DEF SerialInv, Rights, TurnsRight, TurnRight
<1>9. AssignmentsRight'
  BY <1>2 DEF SerialInv, Rights, AssignmentsRight, JobRight, StreamRight
<1> QED
  BY <1>6, <1>7, <1>8, <1>9 DEF Rights

(* An edit, of the rows of a draft.                                        *)
LEMMA EditRight ==
  ASSUME SerialInv, OneAtATime, NEW r \in Request, AddCommit(r) \/ RemoveCommit(r)
  PROVE  Rights'
<1> USE DEF outsideVars, jobVars, loopVars, runVars
<1>0. PICK s \in Session : s = req[r].s
  BY RequestTyped DEF SerialInv, AddCommit, RemoveCommit, At, Requests
<1>1. /\ req[r] # NoRequest /\ req[r].as \subseteq Captures(s) /\ up = "up"
      /\ sess[s] = "draft" /\ Unlaunched(s)
  BY <1>0 DEF SerialInv, Rights, SessionsRight, RequestsRight, RequestRight, DraftRight,
              AddCommit, RemoveCommit, At
<1>2. /\ UNCHANGED <<sess, stream, left, job, cleaning, loop, task, up, orphans>>
      /\ Answer(r)
  BY DEF AddCommit, RemoveCommit
<1>3. \A a \in Assignment : SessOf[a] # s => row'[a] = row[a]
  BY <1>1 DEF AddCommit, RemoveCommit, Captures
<1>4. SessOf \in [Assignment -> Session] /\ "draft" \notin Terminal
  BY SessionsAssumption DEF Terminal
<1>5. \A u \in Session : u # s => Rows(u)' = Rows(u)
  BY <1>3 DEF Rows
<1>6. \A u \in Session : u # s => Kept(u)
  BY <1>2, <1>3 DEF Kept, Captures, Unlaunched
<1>7. RequestsRight'
  <2>1. RequestRight(r)' /\ \A q \in Request : q # r => req'[q] = req[q]
    BY <1>2, AnsweredRight DEF SerialInv
  <2> QED
    BY <1>0, <1>1, <1>2, <1>6, <2>1, OthersElsewhere, RequestsKept DEF SerialInv, Rights
<1>8. SessionsRight'
  <2> SUFFICES ASSUME NEW u \in Session PROVE DraftRight(u)' /\ EndedRight(u)'
    BY DEF SessionsRight
  <2>1. CASE u = s
    BY <1>1, <1>2, <1>4, <2>1 DEF DraftRight, EndedRight, Unlaunched, Captures
  <2>2. CASE u # s
    BY <1>2, <1>3, <1>5, <1>6, <2>2, DraftKept
       DEF SerialInv, Rights, SessionsRight, EndedRight, Rows
  <2> QED
    BY <2>1, <2>2
<1>9. TurnsRight'
  <2> SUFFICES ASSUME NEW u \in Session, NEW q \in Request PROVE TurnRight(u, q)'
    BY DEF TurnsRight
  <2>1. CASE u = s
    BY <1>1, <1>2, <2>1 DEF TurnRight, Unlaunched
  <2>2. CASE u # s
    BY <1>2, <1>5, <2>2 DEF SerialInv, Rights, TurnsRight, TurnRight
  <2> QED
    BY <2>1, <2>2
<1>10. AssignmentsRight'
  BY <1>1, <1>2, <1>3
     DEF SerialInv, Rights, AssignmentsRight, JobRight, StreamRight, Unlaunched, Captures,
         Active, Life!Active
<1> QED
  BY <1>7, <1>8, <1>9, <1>10 DEF Rights

LEMMA RequestStepRight ==
  ASSUME SerialInv, OneAtATime, NEW r \in Request, RequestStep(r)
  PROVE  Rights'
<1>1. CASE StartAborts(r)
  <2>1. Quiet /\ Answer(r) /\ req[r] # NoRequest
    BY <1>1 DEF StartAborts, Quiet, At, dbVars, outsideVars, jobVars, loopVars, runVars
  <2>2. RequestsRight'
    BY <2>1, AnsweredRight, QuietRight, RequestsKept, RequestTyped
       DEF SerialInv, Rights, Quiet, Requests
  <2> QED
    BY <2>1, <2>2, QuietRight DEF SerialInv, Rights
<1> QED
  BY <1>1, StartCommitRight, StartLaunchRight, StopCommitRight, StopSignalRight, EditRight
     DEF RequestStep

-----------------------------------------------------------------------------
(* The sync loop. *)

LEMMA AllKept ==
  ASSUME SerialInv, UNCHANGED <<up, req>>, \A s \in Session : Kept(s)
  PROVE  RequestsRight' /\ \A s \in Session : DraftRight(s)'
<1>1. ASSUME NEW r \in Request PROVE RequestRight(r)'
  <2>1. CASE req[r] = NoRequest
    BY <2>1 DEF RequestRight
  <2>2. CASE req[r] # NoRequest
    <3>1. req[r].s \in Session
      BY <2>2, RequestTyped DEF SerialInv, Requests
    <3> QED
      BY <3>1, RequestKept DEF SerialInv, Rights, RequestsRight
  <2> QED
    BY <2>1, <2>2
<1> QED
  BY <1>1, DraftKept DEF RequestsRight, SerialInv, Rights, SessionsRight

(* The loop of a session is one, and knows what it watches.                *)
LEMMA WatchedKept ==
  ASSUME SerialInv, NEW s \in Session, NEW r \in Request, loop[s][r].step # "none"
  PROVE  /\ \A q \in Request : q # r => loop[s][q].step = "none"
         /\ sess[s] # "draft" /\ ~Unlaunched(s)
  BY DEF SerialInv, Rights, TurnsRight, TurnRight, Unlaunched

LEMMA SyncReadRight ==
  ASSUME SerialInv, NEW s \in Session, NEW r \in Request, SyncRead(s, r)
  PROVE  Rights'
<1> USE DEF outsideVars, dbVars, jobVars, runVars
<1>1. /\ TurnRight(s, r) /\ loop[s][r].step = "sleep"
      /\ UNCHANGED <<sess, row, stream, left, job, cleaning, task, req, up, orphans>>
  BY DEF SyncRead, SerialInv, Rights, TurnsRight
<1> DEFINE new == [a \in {b \in Rows(s) : job[b] # "absent"} |-> job[a]]
           turn == [step |-> "commit", outcome |-> Outcome(s), new |-> new]
<1>2. loop' = [loop EXCEPT ![s][r] = turn]
  BY DEF SyncRead
<1>3. /\ DOMAIN new = Rows(s)
      /\ \A a \in Rows(s) : new[a] = job[a] /\ job[a] \in Active \cup Terminal
  <2>1. \A a \in Rows(s) : a \in Assignment /\ job[a] # "absent"
    BY <1>1 DEF TurnRight, Rows
  <2>2. job \in [Assignment -> JobStates]
    BY DEF SerialInv, AllTypes, BackedInv, BackedTypes
  <2>3. {b \in Rows(s) : job[b] # "absent"} = Rows(s)
    BY <2>1
  <2> QED
    BY <2>1, <2>2, <2>3 DEF JobStates
<1>4. /\ Outcome(s) \in {"none"} \cup Terminal
      /\ Outcome(s) # "none" => \A a \in Rows(s) : job[a] \in Terminal
      /\ Outcome(s) = "done" => \A a \in Rows(s) : job[a] = "done"
  <2>1. \A a \in Rows(s) : Status(a) = job[a]
    BY <1>1 DEF TurnRight, Status
  <2> QED
    BY <1>3, <2>1 DEF Outcome, Terminal, Active, Life!Active
<1> HIDE DEF new
<1>5. /\ turn.step = "commit" /\ turn.new = new /\ turn.outcome = Outcome(s)
  OBVIOUS
<1> HIDE DEF turn
<1>6. /\ loop'[s][r] = turn
      /\ \A q \in Request : q # r => loop'[s][q] = loop[s][q]
      /\ \A u \in Session : u # s => loop'[u] = loop[u]
  BY <1>2 DEF SerialInv, AllTypes, BackedInv, BackedTypes
<1>7. \A u \in Session : Rows(u)' = Rows(u)
  BY <1>1 DEF Rows
<1>8. \A u \in Session : Kept(u)
  BY <1>1, <1>6, WatchedKept DEF Kept, Unlaunched, Captures
<1>9. SessionsRight' /\ RequestsRight'
  BY <1>1, <1>7, <1>8, AllKept DEF SerialInv, Rights, SessionsRight, EndedRight
<1>10. TurnsRight'
  <2> SUFFICES ASSUME NEW u \in Session, NEW q \in Request PROVE TurnRight(u, q)'
    BY DEF TurnsRight
  <2>1. TurnRight(u, q)
    BY DEF SerialInv, Rights, TurnsRight
  <2>2. CASE u = s /\ q = r
    BY <1>1, <1>3, <1>4, <1>5, <1>6, <1>7, <2>2 DEF TurnRight
  <2>3. CASE u # s \/ q # r
    BY <1>1, <1>6, <1>7, <2>1, <2>3 DEF TurnRight
  <2> QED
    BY <2>2, <2>3
<1>11. AssignmentsRight'
  BY <1>1 DEF SerialInv, Rights, AssignmentsRight, JobRight, StreamRight
<1> QED
  BY <1>9, <1>10, <1>11 DEF Rights

LEMMA SyncCommitRight ==
  ASSUME SerialInv, NEW s \in Session, NEW r \in Request, SyncCommit(s, r)
  PROVE  Rights'
<1> USE DEF outsideVars, jobVars, runVars
<1> DEFINE new     == loop[s][r].new
           outcome == loop[s][r].outcome
<1>1. /\ TurnRight(s, r) /\ loop[s][r].step = "commit"
      /\ UNCHANGED <<stream, left, job, cleaning, req, up, orphans>>
  BY DEF SyncCommit, SerialInv, Rights, TurnsRight
<1>2. /\ up = "up" /\ sess[s] \in {"running", "stopping"}
      /\ \A a \in Rows(s) :
           /\ a \in Assignment /\ row[a] # "absent" /\ SessOf[a] = s
           /\ new[a] \in Active \cup Terminal
           /\ new[a] \in Terminal => job[a] = new[a]
           /\ outcome # "none" => new[a] \in Terminal
           /\ outcome = "done" => new[a] = "done"
  BY <1>1 DEF TurnRight, Rows
<1>3. \A a \in Assignment : row'[a] = IF a \in Rows(s) THEN new[a] ELSE row[a]
  <2>1. {a \in DOMAIN new : row[a] # "absent"} = Rows(s)
    BY <1>1, <1>2 DEF TurnRight
  <2> QED
    BY <2>1 DEF SyncCommit
<1>4. \/ /\ outcome = "none" /\ UNCHANGED <<sess, task>>
         /\ loop' = [loop EXCEPT ![s][r] = [step |-> "sleep"]]
      \/ /\ outcome # "none" /\ outcome \in Terminal
         /\ sess' = [sess EXCEPT ![s] = outcome]
         /\ task' = [task EXCEPT ![s] = {}]
         /\ loop' = [loop EXCEPT ![s][r] = NoLoop]
  BY <1>1 DEF SyncCommit, TurnRight
<1>5. /\ loop \in [Session -> [Request -> Turns]] /\ sess \in [Session -> SessStates]
      /\ task \in [Session -> SUBSET Request] /\ SessOf \in [Assignment -> Session]
      /\ \A t \in Active : t \notin Terminal
      /\ "absent" \notin Active /\ "absent" \notin Terminal
      /\ \A t \in Terminal : t \notin {"draft", "none", "running", "stopping"}
  BY SessionsAssumption
     DEF SerialInv, AllTypes, RunTypes, OtherTypes, BackedInv, BackedTypes, Terminal,
         Active, Life!Active
<1> HIDE DEF new, outcome
<1>6. /\ \A u \in Session : u # s => loop'[u] = loop[u] /\ task'[u] = task[u] /\ sess'[u] = sess[u]
      /\ \A q \in Request : q # r => loop'[s][q] = loop[s][q]
      /\ \/ outcome = "none" /\ loop'[s][r] = [step |-> "sleep"] /\ task'[s] = task[s]
            /\ sess'[s] = sess[s]
         \/ outcome # "none" /\ loop'[s][r] = NoLoop /\ sess'[s] = outcome
            /\ outcome \in Terminal
  BY <1>4, <1>5
<1>7. /\ \A a \in Assignment : row'[a] = "absent" <=> row[a] = "absent"
      /\ \A u \in Session : Rows(u)' = Rows(u)
  <2>1. \A a \in Rows(s) : row'[a] # "absent" /\ row[a] # "absent"
    BY <1>2, <1>3, <1>5
  <2>2. \A a \in Assignment : row'[a] = "absent" <=> row[a] = "absent"
    BY <1>3, <2>1
  <2> QED
    BY <2>2 DEF Rows
<1>8. \A u \in Session : Kept(u)
  <2> SUFFICES ASSUME NEW u \in Session PROVE Kept(u)
    OBVIOUS
  <2>1. CASE u = s
    BY <1>1, <1>2, <1>5, <1>6, <1>7, <2>1, WatchedKept DEF Kept, Captures
  <2>2. CASE u # s
    BY <1>1, <1>2, <1>3, <1>6, <1>7, <2>2 DEF Kept, Captures, Unlaunched
  <2> QED
    BY <2>1, <2>2
<1>9. SessionsRight' /\ RequestsRight'
  <2>1. ASSUME NEW u \in Session PROVE EndedRight(u)'
    <3>1. CASE u = s
      BY <1>2, <1>3, <1>5, <1>6, <1>7, <3>1 DEF EndedRight
    <3>2. CASE u # s
      BY <1>2, <1>3, <1>6, <1>7, <3>2
         DEF EndedRight, SerialInv, Rights, SessionsRight, Rows
    <3> QED
      BY <3>1, <3>2
  <2> QED
    BY <1>1, <1>8, <2>1, AllKept DEF SessionsRight
<1>10. TurnsRight'
  <2> SUFFICES ASSUME NEW u \in Session, NEW q \in Request PROVE TurnRight(u, q)'
    BY DEF TurnsRight
  <2>1. TurnRight(u, q)
    BY DEF SerialInv, Rights, TurnsRight
  <2>2. CASE u = s /\ q = r
    BY <1>1, <1>6, <1>7, <2>1, <2>2 DEF TurnRight, NoLoop
  <2>3. CASE u = s /\ q # r
    BY <1>1, <1>6, <2>3, WatchedKept DEF TurnRight
  <2>4. CASE u # s
    BY <1>1, <1>6, <1>7, <2>1, <2>4 DEF TurnRight
  <2> QED
    BY <2>2, <2>3, <2>4
<1>11. AssignmentsRight'
  <2> SUFFICES ASSUME NEW a \in Assignment PROVE JobRight(a)' /\ StreamRight(a)'
    BY DEF AssignmentsRight
  <2>1. JobRight(a) /\ StreamRight(a)
    BY DEF SerialInv, Rights, AssignmentsRight
  <2>2. StreamRight(a)'
    BY <1>1, <1>2, <2>1 DEF StreamRight
  <2>3. CASE a \in Rows(s)
    BY <1>1, <1>2, <1>3, <1>5, <1>6, <2>1, <2>3, <2>2 DEF JobRight
  <2>4. CASE a \notin Rows(s) /\ SessOf[a] = s
    <3>1. job[a] = "absent"
      BY <2>1, <2>4 DEF JobRight, Rows
    <3> QED
      BY <1>1, <1>5, <2>1, <3>1, <2>2 DEF JobRight
  <2>5. CASE SessOf[a] # s
    BY <1>1, <1>2, <1>3, <1>5, <1>6, <2>1, <2>5, <2>2 DEF JobRight
  <2> QED
    BY <2>3, <2>4, <2>5
<1> QED
  BY <1>9, <1>10, <1>11 DEF Rights

(* No row is deleted under a sync loop, so that none dies.                 *)
LEMMA SyncStepRight ==
  ASSUME SerialInv, NEW s \in Session, SyncStep(s)
  PROVE  Rights'
<1>1. ASSUME NEW r \in Request, SyncDies(s, r) PROVE FALSE
  <2>1. TurnRight(s, r)
    BY DEF SerialInv, Rights, TurnsRight
  <2> QED
    BY <1>1, <2>1 DEF SyncDies, TurnRight, Rows
<1> QED
  BY <1>1, SyncReadRight, SyncCommitRight DEF SyncStep

-----------------------------------------------------------------------------
(* The jobs, and the end of the process. *)

(* A job of a launched session moves on, or its clean-up ends.             *)
LEMMA JobMoveRight ==
  ASSUME SerialInv, NEW a \in Assignment, job[a] # "absent", job'[a] # "absent",
         \A b \in Assignment : b # a =>
           job'[b] = job[b] /\ cleaning'[b] = cleaning[b] /\ stream'[b] = stream[b],
         UNCHANGED <<sess, row, loop, task, req, up, orphans>>, left \subseteq left',
         job[a] \in Terminal => job'[a] = job[a],
         job'[a] \in Active => job[a] \in Active,
         cleaning'[a] => job'[a] = "failed",
         stream'[a] => job'[a] \in Active \/ (stream[a] /\ cleaning'[a]) \/ a \in left'
  PROVE  Rights'
<1>1. \A u \in Session : Rows(u)' = Rows(u) /\ Rows(u) \subseteq Assignment
  BY DEF Rows
<1>2. \A u \in Session : Kept(u)
  BY DEF Kept, Unlaunched, Captures
<1>3. SessionsRight' /\ RequestsRight'
  BY <1>1, <1>2, AllKept DEF SerialInv, Rights, SessionsRight, EndedRight
<1>4. TurnsRight'
  <2>1. \A b \in Assignment : job[b] # "absent" => job'[b] # "absent"
    OBVIOUS
  <2>2. \A b \in Assignment : job[b] \in Terminal => job'[b] = job[b]
    OBVIOUS
  <2> SUFFICES ASSUME NEW u \in Session, NEW q \in Request PROVE TurnRight(u, q)'
    BY DEF TurnsRight
  <2>3. TurnRight(u, q)
    BY DEF SerialInv, Rights, TurnsRight
  <2> QED
    BY <1>1, <2>1, <2>2, <2>3 DEF TurnRight
<1>5. AssignmentsRight'
  <2> SUFFICES ASSUME NEW b \in Assignment PROVE JobRight(b)' /\ StreamRight(b)'
    BY DEF AssignmentsRight
  <2>1. JobRight(b) /\ StreamRight(b)
    BY DEF SerialInv, Rights, AssignmentsRight
  <2>2. CASE b = a
    BY <2>1, <2>2 DEF JobRight, StreamRight
  <2>3. CASE b # a
    BY <2>1, <2>3 DEF JobRight, StreamRight
  <2> QED
    BY <2>2, <2>3
<1> QED
  BY <1>3, <1>4, <1>5 DEF Rights

LEMMA JobStepRight ==
  ASSUME SerialInv, NEW a \in Assignment, JobStep(a)
  PROVE  Rights'
<1> USE DEF dbVars, outsideVars, loopVars, runVars
<1>1. /\ job \in [Assignment -> JobStates] /\ cleaning \in [Assignment -> BOOLEAN]
      /\ stream \in [Assignment -> BOOLEAN]
  BY DEF SerialInv, AllTypes, RunTypes, BackedInv, BackedTypes
<1>2. JobRight(a) /\ StreamRight(a)
  BY DEF SerialInv, Rights, AssignmentsRight
<1>3. ASSUME NEW t \in Life!Succ(job[a]), job[a] # "absent"
      PROVE  t \in Active /\ job[a] \in Active /\ job[a] \notin Terminal /\ t # "absent"
  BY <1>3 DEF Life!Succ, Active, Life!Active, Terminal
<1>4. ASSUME NEW t \in Life!Endings(job[a])
      PROVE  t \in Terminal /\ job[a] \in Active /\ job[a] \notin Terminal /\ job[a] # "absent"
  BY <1>4 DEF Life!Endings, Active, Life!Active, Terminal
<1>5. {"done", "failed"} \cap Active = {} /\ "absent" \notin Active
  BY DEF Active, Life!Active
<1>6. CASE JobProgresses(a)
  <2>1. PICK t \in Life!Succ(job[a]) : job' = [job EXCEPT ![a] = t]
    BY <1>6 DEF JobProgresses
  <2>2. /\ job[a] # "absent"
        /\ UNCHANGED <<sess, row, stream, left, cleaning, loop, task, req, up, orphans>>
    BY <1>6 DEF JobProgresses
  <2>3. t \in Active /\ job[a] \in Active /\ job[a] \notin Terminal /\ t # "absent"
    BY <1>3, <2>2
  <2>4. ~cleaning[a]
    BY <1>2, <1>5, <2>3 DEF JobRight
  <2> QED
    BY <1>1, <2>1, <2>2, <2>3, <2>4, JobMoveRight
<1>7. CASE JobStreams(a)
  <2>1. /\ stream' = [stream EXCEPT ![a] = TRUE] /\ job[a] \in Active
        /\ UNCHANGED <<sess, row, job, left, cleaning, loop, task, req, up, orphans>>
    BY <1>7 DEF JobStreams, jobVars, Active, Life!Active
  <2>2. job[a] # "absent"
    BY <1>5, <2>1
  <2> QED
    BY <1>1, <1>2, <2>1, <2>2, JobMoveRight DEF JobRight
<1>8. CASE JobDone(a) \/ JobFails(a) \/ ManagedFails(a)
  <2>1. PICK t \in Life!Endings(job[a]) : job' = [job EXCEPT ![a] = t]
    BY <1>8 DEF JobDone, JobFails, ManagedFails
  <2>2. t \in Terminal /\ job[a] \in Active /\ job[a] \notin Terminal /\ job[a] # "absent"
    BY <1>4
  <2>3. ~cleaning[a]
    BY <1>2, <1>5, <2>2 DEF JobRight
  <2>4. /\ UNCHANGED <<sess, row, loop, task, req, up, orphans>> /\ left \subseteq left'
        /\ \A b \in Assignment : b # a => stream'[b] = stream[b]
        /\ \A b \in Assignment : b # a => cleaning'[b] = cleaning[b]
        /\ cleaning'[a] => t = "failed"
        /\ stream'[a] => (stream[a] /\ cleaning'[a]) \/ a \in left'
    <3>1. CASE JobDone(a)
      BY <1>1, <2>3, <3>1 DEF JobDone, Idling
    <3>2. CASE JobFails(a)
      <4>1. t = "failed"
        BY <1>1, <2>1, <3>2 DEF JobFails
      <4> QED
        BY <1>1, <2>3, <3>2, <4>1 DEF JobFails, Idling
    <3>3. CASE ManagedFails(a)
      BY <1>1, <2>3, <3>3 DEF ManagedFails
    <3> QED
      BY <1>8, <3>1, <3>2, <3>3
  <2>5. t # "absent" /\ t \notin Active
    BY <1>5, <2>2 DEF Terminal
  <2> QED
    BY <1>1, <2>1, <2>2, <2>4, <2>5, JobMoveRight
<1>9. CASE JobCleaned(a)
  <2>1. /\ cleaning[a] /\ cleaning' = [cleaning EXCEPT ![a] = FALSE]
        /\ UNCHANGED <<sess, row, job, loop, task, req, up, orphans>> /\ left \subseteq left'
        /\ \A b \in Assignment : b # a => stream'[b] = stream[b]
        /\ stream'[a] => a \in left'
    BY <1>1, <1>9 DEF JobCleaned, Idling
  <2>2. job[a] = "failed"
    BY <1>2, <2>1 DEF JobRight
  <2> QED
    BY <1>1, <1>5, <2>1, <2>2, JobMoveRight
<1> QED
  BY <1>6, <1>7, <1>8, <1>9 DEF JobStep

(* Of what a process that ends was idling, a crash leaves it to no one; of *)
(* what still ran, the rows tell the next reconcile_startup.               *)
LEMMA EndRight ==
  ASSUME SerialInv, Crash \/ Exit
  PROVE  Rights'
<1> USE DEF dbVars, outsideVars
<1>1. /\ UNCHANGED <<sess, row, stream>> /\ up' = "down"
      /\ \A a \in Assignment : job'[a] = "absent" /\ ~cleaning'[a]
      /\ \A r \in Request : req'[r] = NoRequest
      /\ \A s \in Session, r \in Request : loop'[s][r].step = "none"
  BY DEF Crash, Exit, Forget, NoLoop
<1>2. "absent" \notin Active
  BY DEF Active, Life!Active
<1>3. SessionsRight'
  BY <1>1 DEF SerialInv, Rights, SessionsRight, DraftRight, EndedRight, Unlaunched, Captures, Rows
<1>4. RequestsRight' /\ TurnsRight'
  BY <1>1 DEF RequestsRight, RequestRight, TurnsRight, TurnRight
<1>5. AssignmentsRight'
  <2> SUFFICES ASSUME NEW a \in Assignment PROVE JobRight(a)' /\ StreamRight(a)'
    BY DEF AssignmentsRight
  <2>1. JobRight(a) /\ StreamRight(a)
    BY DEF SerialInv, Rights, AssignmentsRight
  <2>2. JobRight(a)'
    BY <1>1, <1>2, <2>1 DEF JobRight
  <2>3. CASE Crash
    <3>1. left' = left \cup orphans \cup {b \in Assignment : cleaning[b]} /\ up # "down"
      BY <2>3 DEF Crash
    <3> QED
      BY <1>1, <2>1, <2>2, <3>1 DEF JobRight, StreamRight
  <2>4. CASE Exit
    BY <1>1, <2>1, <2>2, <2>4 DEF Exit, StreamRight
  <2> QED
    BY <2>3, <2>4
<1> QED
  BY <1>3, <1>4, <1>5 DEF Rights

LEMMA ShutdownRight ==
  ASSUME SerialInv, Shutdown
  PROVE  Rights'
<1> USE DEF dbVars, outsideVars
<1>1. /\ UNCHANGED <<sess, row, stream, left, job, cleaning, req, orphans>>
      /\ up = "up" /\ up' = "closing"
      /\ \A r \in Request : req[r] = NoRequest
      /\ loop' = [s \in Session |->
                   [r \in Request |-> IF r \in task[s] THEN NoLoop ELSE loop[s][r]]]
  BY DEF Shutdown
<1>2. \A s \in Session, r \in Request : loop'[s][r].step = "none"
  <2> SUFFICES ASSUME NEW s \in Session, NEW r \in Request PROVE loop'[s][r].step = "none"
    OBVIOUS
  <2>1. loop[s][r].step # "none" => r \in task[s]
    BY DEF SerialInv, Rights, TurnsRight, TurnRight
  <2> QED
    BY <1>1, <2>1 DEF NoLoop
<1>3. SessionsRight'
  BY <1>1, <1>2
     DEF SerialInv, Rights, SessionsRight, DraftRight, EndedRight, Unlaunched, Captures, Rows
<1>4. RequestsRight' /\ TurnsRight'
  BY <1>1, <1>2 DEF RequestsRight, RequestRight, TurnsRight, TurnRight
<1>5. AssignmentsRight'
  BY <1>1 DEF SerialInv, Rights, AssignmentsRight, JobRight, StreamRight
<1> QED
  BY <1>3, <1>4, <1>5 DEF Rights

(* reconcile_startup: nothing runs beside it.                              *)
LEMMA StartupQuiet ==
  ASSUME SerialInv, up \in {"down", "idling"}
  PROVE  /\ \A a \in Assignment : job[a] = "absent"
         /\ \A r \in Request : req[r] = NoRequest
         /\ \A s \in Session, r \in Request : loop[s][r].step = "none"
  BY DEF SerialInv, Rights, AssignmentsRight, JobRight, RequestsRight, RequestRight,
         TurnsRight, TurnRight

LEMMA ReconcileRight ==
  ASSUME SerialInv, Reconcile
  PROVE  Rights'
<1> USE DEF outsideVars, jobVars, loopVars
<1>1. /\ UNCHANGED <<stream, left, job, cleaning, loop, req>>
      /\ up = "down" /\ up' = "idling"
      /\ orphans' = {a \in Assignment : row[a] \in Active}
  BY DEF Reconcile
<1>2. /\ \A a \in Assignment : job[a] = "absent"
      /\ \A r \in Request : req[r] = NoRequest
      /\ \A s \in Session, r \in Request : loop[s][r].step = "none"
  BY <1>1, StartupQuiet
<1>3. /\ \A a \in Assignment : row'[a] = IF row[a] \in Active THEN "failed" ELSE row[a]
      /\ \A s \in Session :
           sess'[s] = IF sess[s] \in {"running", "stopping"} THEN "failed" ELSE sess[s]
  BY DEF Reconcile
<1>4. /\ row \in [Assignment -> JobStates] /\ sess \in [Session -> SessStates]
      /\ "failed" \in Terminal /\ "absent" \notin Active
      /\ \A t \in JobStates : t \in Active \/ t \in Terminal \/ t = "absent"
      /\ \A t \in Terminal : t \notin Active
  BY DEF SerialInv, AllTypes, BackedInv, BackedTypes, OtherTypes, Terminal, Active,
         Life!Active, JobStates
<1>5. SessionsRight'
  <2> SUFFICES ASSUME NEW s \in Session PROVE DraftRight(s)' /\ EndedRight(s)'
    BY DEF SessionsRight
  <2>1. DraftRight(s) /\ EndedRight(s)
    BY DEF SerialInv, Rights, SessionsRight
  <2>2. DraftRight(s)'
    BY <1>1, <1>3, <2>1 DEF DraftRight, Unlaunched, Captures
  <2>3. \A a \in Rows(s)' : row'[a] \in Terminal
    BY <1>3, <1>4 DEF Rows
  <2>4. sess'[s] = "done" => \A a \in Rows(s)' : row'[a] = "done"
    <3> SUFFICES ASSUME sess'[s] = "done", NEW a \in Rows(s)' PROVE row'[a] = "done"
      OBVIOUS
    <3>1. sess[s] = "done"
      BY <1>3
    <3>2. a \in Rows(s)
      BY <1>3, <1>4 DEF Rows
    <3> QED
      BY <1>3, <1>4, <2>1, <3>1, <3>2 DEF EndedRight, Terminal, Active, Life!Active, Rows
  <2> QED
    BY <2>2, <2>3, <2>4 DEF EndedRight
<1>6. RequestsRight' /\ TurnsRight'
  BY <1>1, <1>2 DEF RequestsRight, RequestRight, TurnsRight, TurnRight
<1>7. AssignmentsRight'
  BY <1>1, <1>2, <1>4 DEF SerialInv, Rights, AssignmentsRight, JobRight, StreamRight
<1> QED
  BY <1>5, <1>6, <1>7 DEF Rights

LEMMA IdlingRight ==
  ASSUME SerialInv, Serve \/ \E a \in Assignment : IdleOrphan(a)
  PROVE  Rights'
<1> USE DEF dbVars, outsideVars, jobVars, loopVars
<1>1. /\ UNCHANGED <<sess, row, job, cleaning, loop, req>>
      /\ up = "idling"
  BY DEF Serve, IdleOrphan
<1>2. /\ \A a \in Assignment : job[a] = "absent"
      /\ \A r \in Request : req[r] = NoRequest
      /\ \A s \in Session, r \in Request : loop[s][r].step = "none"
  BY <1>1, StartupQuiet
<1>3. \A a \in Assignment : stream'[a] =>
        \/ a \in left'
        \/ stream[a] /\ a \notin left /\ (a \in orphans => a \in orphans' /\ up' = up)
  <2>1. stream \in [Assignment -> BOOLEAN]
    BY DEF SerialInv, AllTypes, RunTypes
  <2> QED
    BY <2>1 DEF Serve, IdleOrphan, Idling
<1>4. SessionsRight'
  BY <1>1 DEF SerialInv, Rights, SessionsRight, DraftRight, EndedRight, Unlaunched, Captures, Rows
<1>5. RequestsRight' /\ TurnsRight'
  BY <1>1, <1>2 DEF RequestsRight, RequestRight, TurnsRight, TurnRight
<1>6. AssignmentsRight'
  BY <1>1, <1>2, <1>3
     DEF SerialInv, Rights, AssignmentsRight, JobRight, StreamRight, Active, Life!Active
<1> QED
  BY <1>4, <1>5, <1>6 DEF Rights

LEMMA SerialStep == SerialInv /\ OneAtATime /\ [Next]_vars => SerialInv'
<1> SUFFICES ASSUME SerialInv, OneAtATime, [Next]_vars PROVE SerialInv'
  OBVIOUS
<1>1. AllTypes'
  BY AllTyped DEF SerialInv
<1>2. CASE UNCHANGED vars
  <2>1. Quiet /\ UNCHANGED <<up, req>>
    BY <1>2 DEF vars, Quiet, dbVars, outsideVars, jobVars, loopVars, runVars
  <2> QED
    BY <1>1, <2>1, QuietRight, AllKept DEF SerialInv, Rights
<1>3. CASE Next
  <2>1. Rights'
    BY <1>3, ReadRight, RequestStepRight, SyncStepRight, JobStepRight, EndRight, ShutdownRight,
       ReconcileRight, IdlingRight DEF Next, BootStep
  <2> QED
    BY <1>1, <2>1 DEF SerialInv
<1> QED
  BY <1>2, <1>3

LEMMA SerialHolds == Spec /\ []OneAtATime => []SerialInv
  BY SerialInit, SerialStep, PTL DEF Spec

-----------------------------------------------------------------------------
(* While requests do not overlap ...                                       *)

(* A session that shows done or failed has no capture under way: no late   *)
(* turn of the sync loop, no stop and no restart ends it early.            *)
THEOREM EndedSessionsAreQuiet == Spec /\ []OneAtATime => []EndedSessionQuiet
<1>1. SerialInv => EndedSessionQuiet
  BY DEF SerialInv, Rights, AssignmentsRight, JobRight, EndedSessionQuiet, Terminal
<1> QED
  BY <1>1, SerialHolds, PTL

(* done means that every assignment is, with its file on record.           *)
THEOREM DoneSessionsAreComplete == Spec /\ []OneAtATime => []DoneSessionComplete
<1>1. SerialInv => DoneSessionComplete
  BY DEF SerialInv, AllTypes, BackedInv, DoneRowBacked, Rights, SessionsRight, EndedRight,
         DoneSessionComplete, Terminal, Rows
<1> QED
  BY <1>1, SerialHolds, PTL

(* Once reconcile_startup has returned, an access point that still streams *)
(* does so for a capture under way or in its clean-up, or it is known to   *)
(* be left: idling failed unnoticed, was cut short, or was never tried.    *)
THEOREM OrphansAreIdled == Spec /\ []OneAtATime => []OrphansIdled
<1>1. SerialInv => OrphansIdled
  BY DEF SerialInv, Rights, AssignmentsRight, StreamRight, OrphansIdled
<1> QED
  BY <1>1, SerialHolds, PTL

-----------------------------------------------------------------------------
(* The event stream. *)

(* The captures of a session that has ended stay so, also when a stop      *)
(* request that saw it running turns it back to stopping.                  *)
Over(s) ==
  /\ sess[s] \in Terminal \cup {"stopping"}
  /\ \A a \in Captures(s) : job[a] \notin Active

LEMMA OverStays ==
  ASSUME SerialInv, [Next]_vars, NEW s \in Session, Over(s)
  PROVE  Over(s)'
<1> USE DEF dbVars, jobVars
<1>1. /\ sess \in [Session -> SessStates] /\ job \in [Assignment -> JobStates]
      /\ "absent" \notin Active /\ "done" \notin Active /\ "failed" \notin Active
      /\ "failed" \in Terminal /\ "draft" \notin Terminal /\ "running" \notin Terminal
  BY DEF SerialInv, AllTypes, OtherTypes, BackedInv, BackedTypes, Active, Life!Active, Terminal
<1>2. UNCHANGED <<sess, job>> => Over(s)'
  BY DEF Over, Captures
<1>3. ASSUME NEW r \in Request, RequestStep(r) PROVE Over(s)'
  <2>1. CASE StartCommit(r) \/ StopCommit(r)
    <3>1. StartCommit(r) => req[r].s # s
      BY <1>1 DEF Over, StartCommit, At, SerialInv, Rights, RequestsRight, RequestRight
    <3> QED
      BY <1>1, <2>1, <3>1 DEF StartCommit, StopCommit, Over, Captures
  <2>2. CASE StartLaunch(r)
    <3>1. req[r].s # s /\ req[r].as \subseteq Captures(req[r].s)
      BY <1>1, <2>2 DEF Over, StartLaunch, At, SerialInv, Rights, RequestsRight, RequestRight,
                        Launching
    <3>2. \A a \in Captures(s) : job'[a] = job[a]
      BY <2>2, <3>1 DEF StartLaunch, Captures
    <3> QED
      BY <2>2, <3>2 DEF StartLaunch, Over, Captures
  <2>3. CASE StartAborts(r) \/ StopSignal(r) \/ AddCommit(r) \/ RemoveCommit(r)
    BY <1>2, <2>3 DEF StartAborts, StopSignal, AddCommit, RemoveCommit
  <2> QED
    BY <1>3, <2>1, <2>2, <2>3 DEF RequestStep
<1>4. ASSUME NEW u \in Session, SyncStep(u) PROVE Over(s)'
  <2>1. PICK r \in Request : SyncRead(u, r) \/ SyncCommit(u, r) \/ SyncDies(u, r)
    BY <1>4 DEF SyncStep
  <2>2. CASE SyncRead(u, r) \/ SyncDies(u, r)
    BY <1>2, <2>2 DEF SyncRead, SyncDies
  <2>3. CASE SyncCommit(u, r)
    <3>1. loop[u][r].outcome \in {"none"} \cup Terminal
      BY <2>3 DEF SyncCommit, SerialInv, Rights, TurnsRight, TurnRight
    <3>2. /\ UNCHANGED job
          /\ \/ UNCHANGED sess
             \/ loop[u][r].outcome # "none" /\ sess' = [sess EXCEPT ![u] = loop[u][r].outcome]
      BY <2>3, Zenon DEF SyncCommit
    <3> QED
      BY <1>1, <3>1, <3>2 DEF Over, Captures
  <2> QED
    BY <2>1, <2>2, <2>3
<1>5. ASSUME NEW a \in Assignment, JobStep(a) PROVE Over(s)'
  <2>1. \A t \in Life!Succ(job[a]) : job[a] # "absent" => job[a] \in Active
    BY DEF Life!Succ, Active, Life!Active
  <2>2. \A t \in Life!Endings(job[a]) : t \notin Active
    BY DEF Life!Endings, Active, Life!Active
  <2>3. CASE JobProgresses(a)
    BY <1>1, <2>1, <2>3 DEF JobProgresses, Over, Captures
  <2>4. CASE JobDone(a) \/ JobFails(a) \/ ManagedFails(a)
    BY <1>1, <2>4 DEF JobDone, JobFails, ManagedFails, Over, Captures
  <2>5. CASE JobStreams(a) \/ JobCleaned(a)
    BY <1>2, <2>5 DEF JobStreams, JobCleaned
  <2> QED
    BY <1>5, <2>3, <2>4, <2>5 DEF JobStep
<1>6. CASE Crash \/ Exit
  BY <1>1, <1>6 DEF Crash, Exit, Forget, Over, Captures
<1>7. CASE Shutdown \/ Serve \/ \E a \in Assignment : IdleOrphan(a)
  BY <1>2, <1>7 DEF Shutdown, Serve, IdleOrphan
<1>8. CASE Reconcile
  BY <1>1, <1>8 DEF Reconcile, Over, Captures
<1>9. ASSUME NEW r \in Request,
             \/ \E u \in Session : StartRead(r, u) \/ StopRead(r, u)
             \/ \E a \in Assignment : AddRead(r, a) \/ RemoveRead(r, a)
      PROVE  Over(s)'
  BY <1>2, <1>9 DEF StartRead, StopRead, AddRead, RemoveRead, Receive
<1>10. CASE UNCHANGED vars
  BY <1>2, <1>10 DEF vars
<1> QED
  BY <1>3, <1>4, <1>5, <1>6, <1>7, <1>8, <1>9, <1>10 DEF Next, BootStep

(* What a stream is about to send of a session it read as ended, and what  *)
(* it did send last.                                                       *)
EventTypes ==
  /\ watch \in [Session -> {"none", "sleep", "compose", "closed"}]
  /\ read = [s \in Session |-> read[s]]
  /\ last = [s \in Session |-> last[s]]

ComposeRight(s) ==
  watch[s] = "compose" /\ read[s].status \in Terminal =>
    Over(s) /\ read[s].rows \subseteq Captures(s) /\ read[s].act = {}

EventInv ==
  /\ SerialInv /\ EventTypes /\ LastEventQuiet
  /\ \A s \in Session : ComposeRight(s)

LEMMA EventStepQuiet ==
  ASSUME EventInv, NEW s \in Session, EventStep(s)
  PROVE  EventTypes' /\ LastEventQuiet' /\ \A u \in Session : ComposeRight(u)'
<1>1. UNCHANGED <<sess, row, job>>
  BY DEF EventStep, Poll, Send, vars, dbVars, jobVars
<1>2. \A u \in Session : ComposeRight(u) /\ (watch[u] = "closed" => last[u] = {})
  BY DEF EventInv, LastEventQuiet
<1>3. \A u \in Session : Over(u)' = Over(u)
  BY <1>1 DEF Over, Captures
<1>4. CASE Poll(s)
  <2>1. /\ watch' = [watch EXCEPT ![s] = "compose"]
        /\ read'  = [read EXCEPT ![s] = FromDatabase(s)] /\ last' = last
    BY <1>4 DEF Poll
  <2>2. sess[s] \in Terminal => Over(s) /\ FromDatabase(s).act = {}
    <3>1. \A a \in Captures(s) : sess[s] \in Terminal => job[a] \notin Active
      BY DEF EventInv, SerialInv, Rights, AssignmentsRight, JobRight, Captures, Terminal
    <3>2. \A a \in Rows(s) : sess[s] \in Terminal => row[a] \notin Active
      BY DEF EventInv, SerialInv, Rights, SessionsRight, EndedRight, Terminal, Active, Life!Active
    <3> QED
      BY <3>1, <3>2 DEF Over, FromDatabase
  <2>3. FromDatabase(s).status = sess[s] /\ FromDatabase(s).rows \subseteq Captures(s)
    BY DEF FromDatabase, Rows, Captures
  <2>4. /\ read'[s] = FromDatabase(s) /\ \A u \in Session : u # s => read'[u] = read[u]
        /\ EventTypes'
    BY <2>1 DEF EventInv, EventTypes
  <2>5. ComposeRight(s)'
    BY <1>3, <2>2, <2>3, <2>4 DEF ComposeRight, Captures
  <2>6. \A u \in Session : u # s => ComposeRight(u)'
    BY <1>2, <1>3, <2>1, <2>4 DEF ComposeRight, EventInv, EventTypes, Captures
  <2>7. LastEventQuiet'
    BY <1>2, <2>1 DEF LastEventQuiet, EventInv, EventTypes
  <2> QED
    BY <2>4, <2>5, <2>6, <2>7
<1>5. CASE Send(s)
  <2>1. /\ watch[s] = "compose" /\ read' = [read EXCEPT ![s] = NothingRead]
        /\ \/ /\ read[s].status \in Terminal
              /\ watch' = [watch EXCEPT ![s] = "closed"]
              /\ last'  = [last EXCEPT ![s] = UnderWay(s)]
           \/ watch' = [watch EXCEPT ![s] = "sleep"] /\ UNCHANGED last
    BY <1>5 DEF Send
  <2>2. read[s].status \in Terminal => UnderWay(s) = {}
    BY <1>2, <2>1 DEF ComposeRight, Over, UnderWay
  <2>3. EventTypes'
    BY <2>1 DEF EventInv, EventTypes
  <2>4. LastEventQuiet'
    BY <1>2, <2>1, <2>2 DEF LastEventQuiet, EventInv, EventTypes
  <2>5. ASSUME NEW u \in Session PROVE ComposeRight(u)'
    BY <1>2, <1>3, <2>1 DEF ComposeRight, EventInv, EventTypes, Captures
  <2> QED
    BY <2>3, <2>4, <2>5
<1> QED
  BY <1>4, <1>5 DEF EventStep

LEMMA EventNextQuiet == EventInv /\ OneAtATime /\ [EventNext]_allVars => EventInv'
<1> SUFFICES ASSUME EventInv, OneAtATime, [EventNext]_allVars PROVE EventInv'
  OBVIOUS
<1>1. [Next]_vars
  BY DEF EventNext, ServiceStep, Follow, EventStep, Poll, Send, allVars
<1>2. SerialInv'
  BY <1>1, SerialStep DEF EventInv
<1>3. \A s \in Session : Over(s) => Over(s)'
  BY <1>1, OverStays DEF EventInv
<1>4. ASSUME NEW s \in Session, EventStep(s)
      PROVE  EventTypes' /\ LastEventQuiet' /\ \A u \in Session : ComposeRight(u)'
  BY <1>4, EventStepQuiet
<1>5. ASSUME UNCHANGED eventVars
      PROVE  EventTypes' /\ LastEventQuiet' /\ \A u \in Session : ComposeRight(u)'
  BY <1>3, <1>5 DEF EventInv, EventTypes, LastEventQuiet, ComposeRight, eventVars, Captures
<1>6. ASSUME ServiceStep
      PROVE  EventTypes' /\ LastEventQuiet' /\ \A u \in Session : ComposeRight(u)'
  <2>1. CASE /\ watch' = [s \in Session |-> "none"]
             /\ read'  = [s \in Session |-> NothingRead]
             /\ last'  = [s \in Session |-> {}]
    BY <2>1 DEF EventTypes, LastEventQuiet, ComposeRight
  <2> QED
    BY <1>5, <1>6, <2>1 DEF ServiceStep
<1>7. ASSUME NEW s \in Session, Follow(s)
      PROVE  EventTypes' /\ LastEventQuiet' /\ \A u \in Session : ComposeRight(u)'
  BY <1>3, <1>7 DEF Follow, EventInv, EventTypes, LastEventQuiet, ComposeRight, Captures
<1> QED
  BY <1>2, <1>4, <1>5, <1>6, <1>7 DEF EventNext, EventInv, allVars

(* The last event of a stream, after which its client hears nothing more,  *)
(* shows no capture under way.                                             *)
THEOREM LastEventsAreQuiet == EventSpec /\ []OneAtATime => []LastEventQuiet
<1>1. EventInit => EventInv
  BY SerialInit
     DEF EventInit, EventInv, EventTypes, LastEventQuiet, ComposeRight, Terminal
<1>2. EventInv => LastEventQuiet
  BY DEF EventInv
<1> QED
  BY <1>1, <1>2, EventNextQuiet, PTL DEF EventSpec

(***************************************************************************)
(* Whatever interleaves, a capture under way is watched.                   *)
(***************************************************************************)
(* What a start request launches has its rows, unless an edit overlapped.  *)
LaunchRight(r) == req[r] # NoRequest =>
  /\ up = "up" /\ req[r].as \subseteq Captures(req[r].s)
  /\ req[r].op = "start" /\ req[r].step = "act" =>
       /\ sess[req[r].s] # "draft"
       /\ req[r].s \notin edited => \A a \in req[r].as : row[a] # "absent"

(* So have the jobs there are, and what a turn of a sync loop has read.    *)
RowHeld(a) == job[a] # "absent" =>
  /\ up \in {"up", "closing"} /\ sess[SessOf[a]] # "draft"
  /\ SessOf[a] \notin edited => row[a] # "absent"

TurnHeld(s, r) == loop[s][r].step # "none" =>
  /\ sess[s] # "draft"
  /\ loop[s][r].step = "commit" => \A a \in DOMAIN loop[s][r].new :
       /\ a \in Captures(s) /\ loop[s][r].new[a] # "absent"
       /\ s \notin edited => row[a] # "absent"

WatchInv ==
  /\ AllTypes
  /\ \A r \in Request : LaunchRight(r)
  /\ \A a \in Assignment : RowHeld(a)
  /\ \A s \in Session, r \in Request : TurnHeld(s, r)
  /\ CapturesWatched

Watching(s, r) ==
  loop[s][r].step = "sleep" \/ (loop[s][r].step = "commit" /\ loop[s][r].outcome = "none")

LEMMA WatchInit == Init => WatchInv
<1> SUFFICES ASSUME Init PROVE WatchInv
  OBVIOUS
<1>1. AllTypes
  BY SerialInit DEF SerialInv
<1> QED
  BY <1>1, SessionsAssumption
     DEF Init, WatchInv, LaunchRight, RowHeld, TurnHeld, CapturesWatched, NoLoop, Active,
         Life!Active

(* A session that was started stays so, and keeps its rows until an edit   *)
(* is noted.                                                               *)
Stays ==
  /\ edited \subseteq edited'
  /\ \A s \in Session : sess[s] # "draft" => sess'[s] # "draft"
  /\ \A a \in Assignment :
       sess[SessOf[a]] # "draft" /\ SessOf[a] \notin edited' /\ row[a] # "absent" =>
         row'[a] # "absent"

LEMMA StaysUnchanged == UNCHANGED <<sess, row, edited>> => Stays
  BY DEF Stays

LEMMA RequestStays ==
  ASSUME WatchInv, NEW r \in Request, RequestStep(r)
  PROVE  Stays
<1>1. sess \in [Session -> SessStates] /\ SessOf \in [Assignment -> Session]
  BY SessionsAssumption DEF WatchInv, AllTypes, OtherTypes
<1>2. req[r] # NoRequest => req[r] \in Requests /\ req[r].as \subseteq Captures(req[r].s)
  BY RequestTyped DEF WatchInv, LaunchRight
<1>3. CASE StartCommit(r) \/ StopCommit(r)
  BY <1>1, <1>3 DEF StartCommit, StopCommit, Stays
<1>4. CASE AddCommit(r) \/ RemoveCommit(r)
  <2>1. req[r] # NoRequest /\ UNCHANGED sess /\ Edits(req[r].s)
    BY <1>4 DEF AddCommit, RemoveCommit, At
  <2>2. \A a \in Assignment : row[a] # "absent" /\ row'[a] = "absent" => a \in req[r].as
    BY <1>4 DEF AddCommit, RemoveCommit
  <2> QED
    BY <1>2, <2>1, <2>2 DEF Stays, Edits, Captures
<1>5. CASE StartAborts(r) \/ StartLaunch(r) \/ StopSignal(r)
  BY <1>5, StaysUnchanged DEF StartAborts, StartLaunch, StopSignal, dbVars, pastVars
<1> QED
  BY <1>3, <1>4, <1>5 DEF RequestStep

(* What a step that touches neither the engine nor the loops leaves right. *)
LEMMA WatchFrame ==
  ASSUME WatchInv, Stays, up' = up, UNCHANGED <<job, loop>>
  PROVE  /\ \A a \in Assignment : RowHeld(a)'
         /\ \A s \in Session, r \in Request : TurnHeld(s, r)'
         /\ CapturesWatched'
<1>1. ASSUME NEW a \in Assignment PROVE RowHeld(a)'
  BY SessionsAssumption DEF WatchInv, Stays, RowHeld
<1>2. ASSUME NEW s \in Session, NEW r \in Request PROVE TurnHeld(s, r)'
  BY DEF WatchInv, Stays, TurnHeld, Captures
<1>3. CapturesWatched'
  BY DEF WatchInv, Stays, CapturesWatched
<1> QED
  BY <1>1, <1>2, <1>3

LEMMA LaunchFrame ==
  ASSUME WatchInv, Stays, up' = up, NEW r \in Request, req'[r] \in {req[r], NoRequest}
  PROVE  LaunchRight(r)'
<1>1. CASE req'[r] = NoRequest
  BY <1>1 DEF LaunchRight
<1>2. CASE req'[r] = req[r] /\ req[r] # NoRequest
  <2>1. req[r].s \in Session /\ \A a \in req[r].as : a \in Assignment /\ SessOf[a] = req[r].s
    BY <1>2, RequestTyped DEF WatchInv, LaunchRight, Requests, Captures
  <2> QED
    BY <1>2, <2>1 DEF WatchInv, Stays, LaunchRight, Captures
<1> QED
  BY <1>1, <1>2

LEMMA ReadWatched ==
  ASSUME WatchInv, AllTypes', NEW r \in Request,
         \/ \E s \in Session : StartRead(r, s) \/ StopRead(r, s)
         \/ \E a \in Assignment : AddRead(r, a) \/ RemoveRead(r, a)
  PROVE  WatchInv'
<1> DEFINE Quietly(op, step, s, as) ==
             /\ Receive(r, op, step, s, as)
             /\ as \subseteq Captures(s) /\ ~(op = "start" /\ step = "act")
<1>1. PICK op, step, s, as : Quietly(op, step, s, as)
  <2>1. ASSUME NEW s \in Session, StartRead(r, s) \/ StopRead(r, s)
        PROVE  \E op, step, u, as : Quietly(op, step, u, as)
    <3>1. Rows(s) \subseteq Captures(s)
      BY DEF Rows, Captures
    <3>2. \/ Quietly("start", "commit", s, Rows(s))
          \/ \E step : Quietly("stop", step, s, Rows(s))
      BY <2>1, <3>1 DEF StartRead, StopRead
    <3> HIDE DEF Quietly
    <3> QED
      BY <3>2
  <2>2. ASSUME NEW a \in Assignment, AddRead(r, a) \/ RemoveRead(r, a)
        PROVE  \E op, step, u, as : Quietly(op, step, u, as)
    <3>1. {a} \subseteq Captures(SessOf[a])
      BY DEF Captures
    <3>2. \E op : Quietly(op, "commit", SessOf[a], {a})
      BY <2>2, <3>1 DEF AddRead, RemoveRead
    <3> HIDE DEF Quietly
    <3> QED
      BY <3>2
  <2> HIDE DEF Quietly
  <2> QED
    BY <2>1, <2>2
<1>2. /\ Stays /\ UNCHANGED <<up, job, loop>> /\ up = "up"
      /\ req' = [req EXCEPT ![r] = [op |-> op, step |-> step, s |-> s, as |-> as]]
  BY <1>1, StaysUnchanged DEF Receive, dbVars, jobVars, loopVars, pastVars, runVars
<1>3. ASSUME NEW q \in Request PROVE LaunchRight(q)'
  <2>1. CASE q = r
    BY <1>1, <1>2, <2>1 DEF LaunchRight, WatchInv, AllTypes, RunTypes, Captures
  <2>2. CASE q # r
    BY <1>2, <2>2, LaunchFrame DEF WatchInv, AllTypes, RunTypes
  <2> QED
    BY <2>1, <2>2
<1> QED
  BY <1>2, <1>3, WatchFrame DEF WatchInv

LEMMA RequestWatched ==
  ASSUME WatchInv, AllTypes', NEW r \in Request, RequestStep(r)
  PROVE  WatchInv'
<1>1. Stays
  BY RequestStays
<1>2. /\ req[r] # NoRequest /\ req[r] \in Requests /\ LaunchRight(r) /\ up' = up
      /\ \A q \in Request : q # r => req'[q] = req[q]
  BY RequestTyped
     DEF WatchInv, AllTypes, RunTypes, RequestStep, StartCommit, StartAborts, StartLaunch,
         StopCommit, StopSignal, AddCommit, RemoveCommit, At, Answer, NextStep, runVars
<1>3. \A q \in Request : q # r => LaunchRight(q)'
  BY <1>1, <1>2, LaunchFrame
<1>4. CASE StartCommit(r) \/ StopCommit(r)
  <2>1. LaunchRight(r)'
    <3>1. /\ req'[r] = [op |-> req[r].op, step |-> "act", s |-> req[r].s, as |-> req[r].as]
          /\ req[r].op = "start" => StartCommit(r)
      BY <1>2, <1>4, NextStepRight DEF WatchInv, StartCommit, StopCommit, At
    <3>2. /\ req'[r].op = req[r].op /\ req'[r].s = req[r].s /\ req'[r].as = req[r].as
          /\ req[r].s \in Session /\ req[r].as \subseteq Captures(req[r].s)
      BY <1>2, <3>1 DEF LaunchRight, Requests
    <3>3. ASSUME StartCommit(r)
          PROVE  /\ sess'[req[r].s] # "draft"
                 /\ req[r].s \notin edited' => \A a \in req[r].as : row'[a] # "absent"
      BY <1>2, <3>2, <3>3 DEF StartCommit, Rows, Captures, WatchInv, AllTypes, OtherTypes
    <3> QED
      BY <1>2, <3>1, <3>2, <3>3 DEF LaunchRight, Captures
  <2> QED
    BY <1>1, <1>2, <1>3, <1>4, <2>1, WatchFrame
       DEF WatchInv, StartCommit, StopCommit, jobVars, loopVars
<1>5. CASE StartAborts(r) \/ StopSignal(r) \/ AddCommit(r) \/ RemoveCommit(r)
  <2>1. LaunchRight(r)'
    BY <1>5, AnsweredRight
       DEF WatchInv, StartAborts, StopSignal, AddCommit, RemoveCommit, Answer, LaunchRight,
           AllTypes, RunTypes
  <2> QED
    BY <1>1, <1>2, <1>3, <1>5, <2>1, WatchFrame
       DEF WatchInv, StartAborts, StopSignal, AddCommit, RemoveCommit, jobVars, loopVars
<1>6. CASE StartLaunch(r)
  <2> DEFINE s  == req[r].s
             as == req[r].as
  <2>1. /\ s \in Session /\ as \subseteq Captures(s) /\ sess[s] # "draft" /\ up = "up"
        /\ s \notin edited => \A a \in as : row[a] # "absent"
    BY <1>2, <1>6 DEF StartLaunch, At, LaunchRight, Requests
  <2>2. /\ job' = [a \in Assignment |-> IF a \in as THEN "pending" ELSE job[a]]
        /\ loop' = [loop EXCEPT ![s][r] = [step |-> "sleep"]]
        /\ UNCHANGED <<sess, row, edited>> /\ req'[r] = NoRequest
    BY <1>6, Zenon
       DEF StartLaunch, dbVars, pastVars, Answer, WatchInv, AllTypes, RunTypes
  <2>3. loop \in [Session -> [Request -> Turns]]
    BY DEF WatchInv, AllTypes, BackedInv, BackedTypes
  <2> HIDE DEF s, as
  <2>4. /\ loop'[s][r] = [step |-> "sleep"]
        /\ \A u \in Session, q \in Request : u # s \/ q # r => loop'[u][q] = loop[u][q]
    BY <2>1, <2>2, <2>3
  <2>5. ASSUME NEW a \in Assignment PROVE RowHeld(a)'
    BY <1>2, <2>1, <2>2 DEF RowHeld, WatchInv, Captures
  <2>6. ASSUME NEW u \in Session, NEW q \in Request PROVE TurnHeld(u, q)'
    <3>1. CASE u = s /\ q = r
      BY <2>1, <2>2, <2>4, <3>1 DEF TurnHeld
    <3>2. CASE u # s \/ q # r
      BY <2>2, <2>4, <3>2 DEF TurnHeld, WatchInv, Captures
    <3> QED
      BY <3>1, <3>2
  <2>7. CapturesWatched'
    <3> SUFFICES ASSUME NEW a \in Assignment, job'[a] \in Active, SessOf[a] \notin edited
                 PROVE  \E q \in Request : Watching(SessOf[a], q)'
      BY <2>2 DEF CapturesWatched, Watching
    <3>1. CASE SessOf[a] = s
      BY <2>4, <3>1 DEF Watching
    <3>2. CASE SessOf[a] # s
      <4>1. job[a] \in Active
        BY <2>1, <2>2, <3>2 DEF Captures
      <4>2. PICK q \in Request : Watching(SessOf[a], q)
        BY <2>1, <4>1 DEF WatchInv, CapturesWatched, Watching
      <4> QED
        BY <2>4, <3>2, <4>2, SessionsAssumption DEF Watching
    <3> QED
      BY <3>1, <3>2
  <2>8. LaunchRight(r)'
    BY <2>2 DEF LaunchRight
  <2> QED
    BY <1>3, <2>5, <2>6, <2>7, <2>8 DEF WatchInv
<1> QED
  BY <1>4, <1>5, <1>6 DEF RequestStep

(* A turn that finds the outcome finds no capture of a row under way; and  *)
(* no row vanished under it, so that it does not die.                      *)
LEMMA SyncWatched ==
  ASSUME WatchInv, AllTypes', NEW s \in Session, SyncStep(s)
  PROVE  WatchInv'
<1>1. PICK r \in Request : SyncRead(s, r) \/ SyncCommit(s, r) \/ SyncDies(s, r)
  BY DEF SyncStep
<1>2. /\ UNCHANGED <<job, req, up, edited>> /\ loop[s][r].step # "none"
      /\ \A u \in Session, q \in Request : u # s \/ q # r => loop'[u][q] = loop[u][q]
  BY <1>1 DEF SyncRead, SyncCommit, SyncDies, jobVars, pastVars, runVars, WatchInv, AllTypes,
              BackedInv, BackedTypes
<1>3. TurnHeld(s, r) /\ sess[s] # "draft"
  BY <1>2 DEF WatchInv, TurnHeld
<1>4. /\ loop \in [Session -> [Request -> Turns]] /\ sess \in [Session -> SessStates]
      /\ SessOf \in [Assignment -> Session] /\ job \in [Assignment -> JobStates]
      /\ \A t \in Terminal : t # "none" /\ t # "draft" /\ t # "absent" /\ t \notin Active
  BY SessionsAssumption
     DEF WatchInv, AllTypes, OtherTypes, BackedInv, BackedTypes, Terminal, Active, Life!Active
<1>5. Stays
  <2>1. CASE SyncRead(s, r) \/ SyncDies(s, r)
    BY <2>1, StaysUnchanged DEF SyncRead, SyncDies, dbVars, pastVars
  <2>2. CASE SyncCommit(s, r)
    <3>1. \A a \in Assignment : row[a] # "absent" => row'[a] # "absent"
      BY <1>3, <2>2 DEF SyncCommit, TurnHeld
    <3>2. loop[s][r].outcome # "none" => loop[s][r].outcome # "draft"
      <4>1. loop[s][r] \in Turns /\ loop[s][r].step = "commit"
        BY <1>4, <2>2 DEF SyncCommit
      <4>2. PICK t \in [step : {"commit"}, outcome : {"none"} \cup Terminal,
                        new : UNION {[as -> JobStates] : as \in SUBSET Assignment}] :
              loop[s][r] = t
        BY <4>1 DEF Turns, NoLoop
      <4> QED
        BY <1>4, <4>2
    <3>3. \/ UNCHANGED sess
          \/ loop[s][r].outcome # "none" /\ sess' = [sess EXCEPT ![s] = loop[s][r].outcome]
      BY <2>2, Zenon DEF SyncCommit
    <3> QED
      BY <1>2, <1>4, <3>1, <3>2, <3>3 DEF Stays
  <2> QED
    BY <1>1, <2>1, <2>2
<1>6. \A q \in Request : LaunchRight(q)'
  BY <1>2, <1>5, LaunchFrame
<1>7. \A a \in Assignment : RowHeld(a)'
  BY <1>2, <1>4, <1>5 DEF Stays, RowHeld, WatchInv
<1>8. TurnHeld(s, r)' /\ (Watching(s, r) /\ s \notin edited =>
        Watching(s, r)' \/ \A a \in Captures(s) : job[a] \notin Active)
  <2>1. CASE SyncRead(s, r)
    <3> DEFINE new  == [a \in {b \in Rows(s) : job[b] # "absent"} |-> job[a]]
               turn == [step |-> "commit", outcome |-> Outcome(s), new |-> new]
    <3>1. loop'[s][r] = turn /\ UNCHANGED row
      BY <1>4, <2>1 DEF SyncRead, dbVars
    <3>2. turn.step = "commit" /\ turn.outcome = Outcome(s) /\ turn.new = new
      OBVIOUS
    <3>3. \A a \in DOMAIN new : a \in Captures(s) /\ new[a] # "absent" /\ row[a] # "absent"
      BY DEF Rows, Captures
    <3> HIDE DEF new, turn
    <3>4. TurnHeld(s, r)'
      BY <1>3, <1>5, <3>1, <3>2, <3>3 DEF TurnHeld, Stays, Captures
    <3>5. ASSUME Outcome(s) # "none", s \notin edited, NEW a \in Captures(s)
          PROVE  job[a] \notin Active
      <4>1. CASE job[a] = "absent"
        BY <4>1 DEF Active, Life!Active
      <4>2. CASE job[a] # "absent"
        <5>1. a \in Rows(s) /\ Status(a) = job[a]
          BY <3>5, <4>2 DEF WatchInv, RowHeld, Captures, Rows, Status
        <5>2. Status(a) \in Terminal
          BY <3>5, <5>1 DEF Outcome
        <5> QED
          BY <1>4, <5>1, <5>2
      <4> QED
        BY <4>1, <4>2
    <3> QED
      BY <3>1, <3>2, <3>4, <3>5 DEF Watching
  <2>2. CASE SyncCommit(s, r)
    <3>1. \/ loop[s][r].outcome = "none" /\ loop'[s][r] = [step |-> "sleep"]
          \/ loop[s][r].outcome # "none" /\ loop'[s][r] = NoLoop
      BY <1>4, <2>2 DEF SyncCommit
    <3> QED
      BY <1>3, <1>5, <2>2, <3>1 DEF SyncCommit, TurnHeld, Stays, Watching, NoLoop
  <2>3. CASE SyncDies(s, r)
    BY <1>3, <1>4, <2>3 DEF SyncDies, TurnHeld, NoLoop
  <2> QED
    BY <1>1, <2>1, <2>2, <2>3
<1>9. ASSUME NEW u \in Session, NEW q \in Request, u # s \/ q # r PROVE TurnHeld(u, q)'
  BY <1>2, <1>5, <1>9 DEF Stays, TurnHeld, WatchInv, Captures
<1>10. CapturesWatched'
  <2> SUFFICES ASSUME up = "up", NEW a \in Assignment, job[a] \in Active,
                      SessOf[a] \notin edited
               PROVE  \E q \in Request : Watching(SessOf[a], q)'
    BY <1>2 DEF CapturesWatched, Watching
  <2>1. PICK q \in Request : Watching(SessOf[a], q)
    BY DEF WatchInv, CapturesWatched, Watching
  <2>2. CASE SessOf[a] = s /\ q = r
    BY <1>8, <2>1, <2>2 DEF Captures
  <2>3. CASE SessOf[a] # s \/ q # r
    BY <1>2, <1>4, <2>1, <2>3 DEF Watching
  <2> QED
    BY <2>2, <2>3
<1> QED
  BY <1>6, <1>7, <1>8, <1>9, <1>10 DEF WatchInv

LEMMA JobWatched ==
  ASSUME WatchInv, AllTypes', NEW a \in Assignment, JobStep(a)
  PROVE  WatchInv'
<1>1. UNCHANGED <<sess, row, edited, loop, req, up>>
  BY DEF JobStep, JobProgresses, JobStreams, JobDone, JobFails, JobCleaned, ManagedFails,
         dbVars, loopVars, pastVars, runVars
<1>2. /\ \A b \in Assignment : job'[b] # "absent" => job[b] # "absent"
      /\ \A b \in Assignment : job'[b] \in Active => job[b] \in Active
  <2>1. job \in [Assignment -> JobStates]
    BY DEF WatchInv, AllTypes, BackedInv, BackedTypes
  <2>2. \A t \in Life!Succ(job[a]) : job[a] # "absent" => job[a] \in Active
    BY DEF Life!Succ, Active, Life!Active
  <2>3. \A t \in Life!Endings(job[a]) : job[a] # "absent" /\ t \notin Active
    BY DEF Life!Endings, Active, Life!Active
  <2>4. CASE JobProgresses(a)
    BY <2>1, <2>2, <2>4 DEF JobProgresses
  <2>5. CASE JobDone(a) \/ JobFails(a) \/ ManagedFails(a)
    <3>1. PICK t \in Life!Endings(job[a]) : job' = [job EXCEPT ![a] = t]
      BY <2>5 DEF JobDone, JobFails, ManagedFails
    <3> QED
      BY <2>1, <2>3, <3>1
  <2>6. CASE JobStreams(a) \/ JobCleaned(a)
    BY <2>6 DEF JobStreams, JobCleaned, jobVars
  <2> QED
    BY <2>4, <2>5, <2>6 DEF JobStep
<1>3. Stays
  BY <1>1, StaysUnchanged
<1>4. \A r \in Request : LaunchRight(r)'
  BY <1>1, <1>3, LaunchFrame
<1>5. \A b \in Assignment : RowHeld(b)'
  BY <1>1, <1>2 DEF RowHeld, WatchInv
<1>6. \A s \in Session, r \in Request : TurnHeld(s, r)'
  BY <1>1 DEF TurnHeld, WatchInv, Captures
<1>7. CapturesWatched'
  BY <1>1, <1>2 DEF CapturesWatched, WatchInv
<1> QED
  BY <1>4, <1>5, <1>6, <1>7 DEF WatchInv

(* Nothing runs while the process is down or reconciles.                   *)
LEMMA ExitWatched ==
  ASSUME WatchInv, AllTypes', Crash \/ Shutdown \/ BootStep
  PROVE  WatchInv'
<1>1. UNCHANGED edited
  BY DEF Crash, Shutdown, BootStep, Exit, Reconcile, Serve, IdleOrphan, pastVars
<1>2. CASE Crash \/ Exit
  BY <1>2 DEF Crash, Exit, Forget, NoLoop, WatchInv, LaunchRight, RowHeld, TurnHeld,
              CapturesWatched
<1>3. CASE Shutdown
  <2>1. /\ UNCHANGED <<sess, row, edited, job, req>> /\ up = "up" /\ up' = "closing"
        /\ \A r \in Request : req[r] = NoRequest
        /\ \A s \in Session, r \in Request : loop'[s][r] \in {NoLoop, loop[s][r]}
    BY <1>1, <1>3 DEF Shutdown, dbVars
  <2>2. \A s \in Session, r \in Request : TurnHeld(s, r)'
    BY <2>1 DEF WatchInv, TurnHeld, NoLoop, Captures
  <2> QED
    BY <2>1, <2>2 DEF WatchInv, LaunchRight, RowHeld, CapturesWatched
<1>4. CASE Reconcile \/ Serve \/ \E a \in Assignment : IdleOrphan(a)
  <2>1. /\ up \in {"down", "idling"} /\ up' \in {"up", "idling"}
        /\ UNCHANGED <<job, loop, req>>
    BY <1>4 DEF Reconcile, Serve, IdleOrphan, jobVars, loopVars
  <2>2. /\ \A s \in Session : sess[s] # "draft" => sess'[s] # "draft"
        /\ \A a \in Assignment : row[a] # "absent" => row'[a] # "absent"
    BY <1>4 DEF Reconcile, Serve, IdleOrphan, dbVars
  <2>3. Stays
    BY <1>1, <2>2 DEF Stays
  <2>4. \A a \in Assignment : job[a] = "absent"
    BY <2>1 DEF WatchInv, RowHeld
  <2>5. \A r \in Request : req[r] = NoRequest
    BY <2>1 DEF WatchInv, LaunchRight
  <2>6. \A s \in Session, r \in Request : TurnHeld(s, r)'
    BY <2>1, <2>3 DEF WatchInv, TurnHeld, Stays, Captures
  <2> QED
    BY <2>1, <2>4, <2>5, <2>6
       DEF WatchInv, LaunchRight, RowHeld, CapturesWatched, Active, Life!Active
<1> QED
  BY <1>2, <1>3, <1>4 DEF BootStep

LEMMA WatchStep == WatchInv /\ [Next]_vars => WatchInv'
<1> SUFFICES ASSUME WatchInv, [Next]_vars PROVE WatchInv'
  OBVIOUS
<1>1. AllTypes'
  BY AllTyped DEF WatchInv
<1>2. CASE UNCHANGED vars
  BY <1>1, <1>2, StaysUnchanged, WatchFrame, LaunchFrame
     DEF WatchInv, vars, dbVars, jobVars, loopVars, pastVars, runVars
<1>3. CASE Next
  BY <1>1, <1>3, ReadWatched, RequestWatched, SyncWatched, JobWatched, ExitWatched DEF Next
<1> QED
  BY <1>2, <1>3

(* Whatever requests overlap, two starts included, and however often the   *)
(* process ends, a capture under way has a sync loop that will see its     *)
(* end, unless an edit overlapped the start.                               *)
THEOREM CapturesAreWatched == Spec => []CapturesWatched
<1>1. WatchInv => CapturesWatched
  BY DEF WatchInv
<1> QED
  BY <1>1, WatchInit, WatchStep, PTL DEF Spec
=============================================================================
