----------------------------- MODULE CaptureFiles -----------------------------
(***************************************************************************)
(* The capture directory and what the database says of it: the files jobs  *)
(* leave, the paths the sync loop records, merge_session, delete_session   *)
(* and purge_completed with its sweep of orphaned files.                   *)
(*                                                                         *)
(* Sessions are those already started. Requests are split at their awaits; *)
(* merge_pcaps runs in a worker thread. A turn of the sync loop is one     *)
(* step: what it reads of a job no longer changes once it is worth a path. *)
(* A merge writes one path per session, whichever of pcap and pcapng its   *)
(* inputs call for.                                                        *)
(***************************************************************************)
EXTENDS Naturals, FiniteSets

CONSTANTS Session, Assignment,
          SessOf,         \* Assignment.session_id
          Request,        \* HTTP requests that can be in progress at a time
          Ops,            \* requests made: merge, delete, purge
          MaxCrashes,     \* bound on crashes of the process
          CanFail,        \* captures and merges may fail
          ForeignKeys     \* the database enforces ON DELETE CASCADE

ASSUME FilesAssumption ==
  /\ SessOf \in [Assignment -> Session]
  /\ Ops \subseteq {"merge", "delete", "purge"}
  /\ MaxCrashes \in Nat
  /\ CanFail \in BOOLEAN /\ ForeignKeys \in BOOLEAN

VARIABLES
  sess,      \* "running", "ended" (done or failed), "gone"
  filed,     \* Assignment.file_path is set
  arts,      \* the Artifact rows: session, and what sha256 was taken of
  disk,      \* the files of the capture directory
  content,   \* the captures that each merged file holds
  job,       \* "starting", "capturing", "cleaning" (to be failed), "ended",
             \* "failed", "lost" (in a crash)
  req,       \* the requests in progress
  lapped,    \* history: two requests have been in progress at once
  crashes,   \* history: crashes so far
  doomed,    \* history: the sessions whose deletion has begun
  strays     \* history: the files a crash left that no row names

dbVars   == <<sess, filed, arts>>
diskVars == <<disk, content>>
pastVars == <<lapped, crashes, doomed, strays>>
vars     == <<dbVars, diskVars, job, req, pastVars>>

Pcap(a) == <<"pcap", a>>
Json(a) == <<"json", a>>
Out(s)  == <<"merged", s>>

Of(s)       == {a \in Assignment : SessOf[a] = s}
Both(as)    == {Pcap(a) : a \in as} \cup {Json(a) : a \in as}
FilesOf(s)  == Both(Of(s)) \cup {Out(s)}
InFlight(a) == job[a] \in {"starting", "capturing"}
Over        == {"ended", "failed", "lost"}
NoRequest   == [op |-> "none"]

Init ==
  /\ sess    = [s \in Session |-> "running"]
  /\ filed   = [a \in Assignment |-> FALSE]
  /\ arts    = {}
  /\ disk    = {}
  /\ content = [s \in Session |-> {}]
  /\ job     = [a \in Assignment |-> "starting"]
  /\ req     = [r \in Request |-> NoRequest]
  /\ lapped  = FALSE /\ crashes = 0 /\ doomed = {} /\ strays = {}

-----------------------------------------------------------------------------
(* The captures and the sync loop. *)

FileOpened(a) ==
  /\ job[a] = "starting"
  /\ job'  = [job EXCEPT ![a] = "capturing"]
  /\ disk' = disk \cup {Pcap(a)}
  /\ UNCHANGED <<dbVars, content, req, pastVars>>

(* The final state and the sidecar come in one step of the event loop.     *)
JobEnds(a) ==
  /\ job[a] = "capturing"
  /\ job'  = [job EXCEPT ![a] = "ended"]
  /\ disk' = disk \cup {Json(a)}
  /\ UNCHANGED <<dbVars, content, req, pastVars>>

(* ... unless the capture failed: the access point is idled in between.    *)
JobFails(a) ==
  /\ CanFail /\ InFlight(a)
  /\ job' = [job EXCEPT ![a] = "cleaning"]
  /\ UNCHANGED <<dbVars, diskVars, req, pastVars>>

SidecarWritten(a) ==
  /\ job[a] = "cleaning"
  /\ job'  = [job EXCEPT ![a] = "failed"]
  /\ disk' = disk \cup {Json(a)}
  /\ UNCHANGED <<dbVars, content, req, pastVars>>

SyncTurn(s) ==
  /\ sess[s] = "running"
  /\ filed' = [a \in Assignment |-> filed[a] \/ (a \in Of(s) /\ ~InFlight(a))]
  /\ sess'  = IF \A a \in Of(s) : ~InFlight(a)
                THEN [sess EXCEPT ![s] = "ended"] ELSE sess
  /\ UNCHANGED <<arts, diskVars, job, req, pastVars>>

-----------------------------------------------------------------------------
(* Requests. *)

Receive(r, op) ==
  /\ op \in Ops /\ req[r] = NoRequest
  /\ lapped' = (lapped \/ \E q \in Request : req[q] # NoRequest)
  /\ UNCHANGED <<crashes, strays>>
At(r, op, step) == req[r] # NoRequest /\ req[r].op = op /\ req[r].step = step
Answer(r) == req' = [req EXCEPT ![r] = NoRequest]

(* merge_session: all recorded captures, or those asked for, of a session  *)
(* in whatever state.                                                      *)
MergeRead(r, s) ==
  /\ Receive(r, "merge") /\ sess[s] # "gone"
  /\ \E wanted \in SUBSET Of(s) :
       LET inputs == {a \in wanted : filed[a] /\ Pcap(a) \in disk} IN
       /\ Cardinality(inputs) >= 2
       /\ req' = [req EXCEPT ![r] =
                    [op |-> "merge", step |-> "write", s |-> s, as |-> inputs]]
  /\ UNCHANGED <<dbVars, diskVars, job, doomed>>

(* merge_pcaps: inputs gone meanwhile are left out; the output is opened.  *)
MergeOpens(r) ==
  /\ At(r, "merge", "write")
  /\ LET inputs == {a \in req[r].as : Pcap(a) \in disk}
         s      == req[r].s
     IN  /\ inputs # {}
         /\ disk'    = disk \cup {Out(s)}
         /\ content' = [content EXCEPT ![s] = {}]
         /\ req'     = [req EXCEPT ![r].step = "fill", ![r].as = inputs]
  /\ UNCHANGED <<dbVars, job, pastVars>>

MergeFills(r) ==
  /\ At(r, "merge", "fill") /\ Out(req[r].s) \in disk
  /\ content' = [content EXCEPT ![req[r].s] = req[r].as]
  /\ req'     = [req EXCEPT ![r].step = "commit"]
  /\ UNCHANGED <<dbVars, disk, job, pastVars>>

(* No input or no output left, or mergecap failed, which leaves what it    *)
(* had written.                                                            *)
MergeFails(r) ==
  /\ \/ /\ At(r, "merge", "write")
        /\ \A a \in req[r].as : Pcap(a) \notin disk
     \/ /\ At(r, "merge", "fill")
        /\ CanFail \/ Out(req[r].s) \notin disk
  /\ Answer(r)
  /\ UNCHANGED <<dbVars, diskVars, job, pastVars>>

(* The row; a database that checks the reference refuses it when the       *)
(* session is gone.                                                        *)
MergeCommit(r) ==
  /\ At(r, "merge", "commit")
  /\ arts' = IF ForeignKeys /\ sess[req[r].s] = "gone" THEN arts
             ELSE arts \cup {[s |-> req[r].s, sum |-> req[r].as]}
  /\ Answer(r)
  /\ UNCHANGED <<sess, filed, diskVars, job, pastVars>>

(* _session_files: sidecars come with their pcap's path.                   *)
(* Mutant: only the files the rows name.                                   *)
SessionPaths(s) ==
  {Pcap(a) : a \in {b \in Of(s) : filed[b]}} \cup {Out(x.s) : x \in {y \in arts : y.s = s}}

SessionFiles(s) ==
  Both({a \in Of(s) : filed[a]}) \cup {Out(x.s) : x \in {y \in arts : y.s = s}}

OnRecord == UNION {SessionFiles(s) : s \in Session}

(* Rows of a deleted session; its artifacts go by the foreign key.         *)
DropRows(gone) ==
  /\ sess'  = [s \in Session |-> IF s \in gone THEN "gone" ELSE sess[s]]
  /\ filed' = [a \in Assignment |-> filed[a] /\ SessOf[a] \notin gone]
  /\ arts'  = {x \in arts : ForeignKeys => x.s \notin gone}

(* delete_session: files first, then the commit.                           *)
DeleteUnlink(r, s) ==
  /\ Receive(r, "delete") /\ sess[s] = "ended"
  /\ disk' = disk \ SessionFiles(s)
  /\ req'  = [req EXCEPT ![r] = [op |-> "delete", step |-> "commit", s |-> s]]
  /\ doomed' = doomed \cup {s}
  /\ UNCHANGED <<dbVars, content, job>>

DeleteCommit(r) ==
  /\ At(r, "delete", "commit")
  /\ DropRows({req[r].s})
  /\ Answer(r)
  /\ UNCHANGED <<diskVars, job, pastVars>>

(* purge_completed: every ended session's files, one commit, the sweep.    *)
PurgeRead(r) ==
  /\ Receive(r, "purge")
  /\ LET ended == {s \in Session : sess[s] = "ended"} IN
     /\ req' = [req EXCEPT ![r] = [op |-> "purge", step |-> "unlink",
                                   all |-> ended, todo |-> ended, keep |-> {}]]
        /\ doomed' = doomed \cup ended
  /\ UNCHANGED <<dbVars, diskVars, job>>

PurgeUnlink(r) ==
  /\ At(r, "purge", "unlink")
  /\ \E s \in req[r].todo :
       /\ disk' = disk \ SessionFiles(s)
       /\ req'  = [req EXCEPT ![r].todo = @ \ {s}]
  /\ UNCHANGED <<dbVars, content, job, pastVars>>

PurgeCommit(r) ==
  /\ At(r, "purge", "unlink") /\ req[r].todo = {}
  /\ DropRows(req[r].all)
  /\ req' = [req EXCEPT ![r].step = "rows"]
  /\ UNCHANGED <<diskVars, job, pastVars>>

(* _referenced_files: the rows, then the artifacts, then, in the step that *)
(* also deletes, the jobs.                                                 *)
SweepRows(r) ==
  /\ At(r, "purge", "rows")
  /\ req' = [req EXCEPT ![r].step = "arts",
                        ![r].keep = Both({a \in Assignment : filed[a]})]
  /\ UNCHANGED <<dbVars, diskVars, job, pastVars>>

(* Mutant of SweepArts: artifacts do not count as references.              *)
SweepNoArts(r) ==
  /\ At(r, "purge", "arts")
  /\ req' = [req EXCEPT ![r].step = "sweep"]
  /\ UNCHANGED <<dbVars, diskVars, job, pastVars>>

SweepArts(r) ==
  /\ At(r, "purge", "arts")
  /\ req' = [req EXCEPT ![r].step = "sweep",
                        ![r].keep = @ \cup {Out(x.s) : x \in arts}]
  /\ UNCHANGED <<dbVars, diskVars, job, pastVars>>

(* Mutants of SweepUnlink: only what the purged sessions left is swept;    *)
(* captures in flight are not protected.                                   *)
SweepPurged(r) ==
  /\ At(r, "purge", "sweep")
  /\ disk' = disk \ (UNION {FilesOf(s) : s \in req[r].all} \ req[r].keep)
  /\ Answer(r)
  /\ UNCHANGED <<dbVars, content, job, pastVars>>

SweepUnreferenced(r) ==
  /\ At(r, "purge", "sweep")
  /\ disk' = disk \cap req[r].keep
  /\ Answer(r)
  /\ UNCHANGED <<dbVars, content, job, pastVars>>

SweepUnlink(r) ==
  /\ At(r, "purge", "sweep")
  /\ disk' = disk \cap (req[r].keep \cup Both({a \in Assignment : InFlight(a)}))
  /\ Answer(r)
  /\ UNCHANGED <<dbVars, content, job, pastVars>>

-----------------------------------------------------------------------------
(* A crash ends captures and requests where they are. Before the next      *)
(* request is served, reconcile_startup has failed the sessions that were  *)
(* running; the files of captures in flight stay off the record.           *)
Crash ==
  /\ crashes < MaxCrashes
  /\ crashes' = crashes + 1
  /\ job'  = [a \in Assignment |-> IF job[a] \in Over THEN job[a] ELSE "lost"]
  /\ req'  = [r \in Request |-> NoRequest]
  /\ sess' = [s \in Session |-> IF sess[s] = "running" THEN "ended" ELSE sess[s]]
  /\ strays' = strays \cup (disk \ OnRecord)
  /\ UNCHANGED <<filed, arts, diskVars, lapped, doomed>>

MergeStep(r) == MergeOpens(r) \/ MergeFills(r) \/ MergeFails(r) \/ MergeCommit(r)
PurgeStep(r) ==
  PurgeUnlink(r) \/ PurgeCommit(r) \/ SweepRows(r) \/ SweepArts(r) \/ SweepUnlink(r)

Next ==
  \/ \E a \in Assignment : \/ FileOpened(a) \/ JobEnds(a)
                           \/ JobFails(a) \/ SidecarWritten(a)
  \/ \E s \in Session : \/ SyncTurn(s)
                        \/ \E r \in Request : MergeRead(r, s) \/ DeleteUnlink(r, s)
  \/ \E r \in Request : \/ MergeStep(r) \/ DeleteCommit(r)
                        \/ PurgeRead(r) \/ PurgeStep(r)
  \/ Crash

Spec == Init /\ [][Next]_vars

-----------------------------------------------------------------------------
AllFiles == UNION {FilesOf(s) : s \in Session}

Merging  == [op : {"merge"}, step : {"write", "fill", "commit"}, s : Session,
             as : (SUBSET Assignment) \ {{}}]
Deleting == [op : {"delete"}, step : {"commit"}, s : Session]
Purging  == [op : {"purge"}, step : {"unlink", "rows", "arts", "sweep"},
             all : SUBSET Session, todo : SUBSET Session, keep : SUBSET AllFiles]

(* Every variable ranges over what the code can store in it; no artifact   *)
(* is the merge of nothing.                                                *)
TypeOK ==
  /\ req \in [Request -> {NoRequest} \cup Merging \cup Deleting \cup Purging]
  /\ sess \in [Session -> {"running", "ended", "gone"}]
  /\ filed \in [Assignment -> BOOLEAN]
  /\ arts \subseteq [s : Session, sum : (SUBSET Assignment) \ {{}}]
  /\ disk \subseteq AllFiles
  /\ content \in [Session -> SUBSET Assignment]
  /\ job \in [Assignment -> {"starting", "capturing", "cleaning"} \cup Over]
  /\ lapped \in BOOLEAN /\ crashes \in 0..MaxCrashes
  /\ doomed \subseteq Session /\ strays \subseteq AllFiles

Quiet == \A r \in Request : req[r] = NoRequest

(* What deletion may miss: the sidecar of a failed capture, which may be   *)
(* still to come, the output of a merge that failed, and what a crash left *)
(* off the record.                                                         *)
Late(s) ==
  {Json(a) : a \in {b \in Of(s) : job[b] = "failed"}}
    \cup {x \in {Out(s)} : content[s] = {}} \cup strays

(* Deleting or purging a session leaves no other file of it behind, from   *)
(* the commit on and as long as requests are served one at a time; also    *)
(* when a crash cut the deletion short and it was asked for again.         *)
DeletedLeavesNothing ==
  ~lapped => \A s \in Session : sess[s] = "gone" => disk \cap FilesOf(s) \subseteq Late(s)

(* A merged file that is on record exists, whatever was deleted, purged    *)
(* and swept since, until its own session's deletion is begun, which a     *)
(* crash may keep from ending; one request at a time. It is the merge some *)
(* artifact of its session states, although all of them share one path:    *)
(* unless a later merge failed, or a crash kept it from being recorded.    *)
ArtifactHasFile ==
  Quiet /\ ~lapped =>
    \A x \in arts : x.s \notin doomed =>
      /\ Out(x.s) \in disk
      /\ \/ \E y \in arts : y.s = x.s /\ y.sum = content[x.s]
         \/ content[x.s] = {} \/ crashes > 0

(* A purge that is served alone takes every file nobody can reach any more *)
(* (what a crash left, what an earlier deletion or a failed merge left):   *)
(* the files that remain are on record or of a capture in flight.          *)
PurgeLeavesNoOrphan ==
  [][\A r \in Request :
       At(r, "purge", "sweep") /\ ~lapped /\ req'[r] = NoRequest /\ crashes' = crashes =>
         disk' \subseteq OnRecord \cup Both({a \in Assignment : InFlight(a)})]_vars

(* A purge never takes the file of a capture in flight, although rows,     *)
(* artifacts and jobs are looked up at three different moments.            *)
FlightSpared ==
  \A a \in Assignment : InFlight(a) /\ Pcap(a) \in disk => Pcap(a) \in disk'
ActiveSpared == [][FlightSpared]_vars

(* Only files of deleted sessions and ad-hoc runs are orphans: the sweep   *)
(* spares the captures of a session that is there.                         *)
SweepsOrphansOnly ==
  Quiet => \A a \in Assignment :
             job[a] = "ended" /\ sess[SessOf[a]] # "gone" => Pcap(a) \in disk
=============================================================================
