-------------------------- MODULE CaptureFilesProofs --------------------------
(***************************************************************************)
(* That a capture in flight keeps its file, whatever is deleted, purged    *)
(* and swept meanwhile, for any sessions, captures and requests; and that  *)
(* deletions and purges are complete and recorded merges kept, in every    *)
(* behaviour in which requests are served one at a time.                   *)
(***************************************************************************)
EXTENDS CaptureFiles, FiniteSetTheorems, TLAPS

(* What is on record is not in flight: the sync loop stores a path only    *)
(* once it has seen the capture's end.                                     *)
FiledInv ==
  /\ filed \in [Assignment -> BOOLEAN]
  /\ job \in [Assignment -> {"starting", "capturing", "cleaning"} \cup Over]
  /\ \A a \in Assignment : filed[a] => ~InFlight(a)

LEMMA FiledInit == Init => FiledInv
  BY DEF Init, FiledInv, Over

(* Only the sync loop adds to what is on record; deletions take from it.   *)
LEMMA FiledStep == FiledInv /\ [Next]_vars => FiledInv'
<1> SUFFICES ASSUME FiledInv, [Next]_vars PROVE FiledInv'
  OBVIOUS
<1> USE DEF FiledInv, InFlight, Over
<1>1. CASE UNCHANGED <<filed, job>>
  BY <1>1
<1>2. ASSUME NEW a \in Assignment,
             FileOpened(a) \/ JobEnds(a) \/ JobFails(a) \/ SidecarWritten(a)
      PROVE  FiledInv'
  BY <1>2 DEF FileOpened, JobEnds, JobFails, SidecarWritten, dbVars
<1>3. ASSUME NEW s \in Session, SyncTurn(s)
      PROVE  FiledInv'
  BY <1>3 DEF SyncTurn, Of
<1>4. ASSUME NEW gone, DropRows(gone), UNCHANGED job
      PROVE  FiledInv'
  BY <1>4 DEF DropRows
<1>5. ASSUME NEW r \in Request, DeleteCommit(r) \/ PurgeCommit(r)
      PROVE  FiledInv'
  BY <1>4, <1>5 DEF DeleteCommit, PurgeCommit
<1>6. ASSUME NEW r \in Request, NEW s \in Session, MergeRead(r, s) \/ DeleteUnlink(r, s)
      PROVE  UNCHANGED <<filed, job>>
  BY <1>6 DEF MergeRead, DeleteUnlink, dbVars
<1>7. ASSUME NEW r \in Request, MergeStep(r)
      PROVE  UNCHANGED <<filed, job>>
  BY <1>7 DEF MergeStep, MergeOpens, MergeFills, MergeFails, MergeCommit, dbVars
<1>8. ASSUME NEW r \in Request, PurgeRead(r) \/ PurgeUnlink(r) \/ SweepRows(r)
                                  \/ SweepArts(r) \/ SweepUnlink(r)
      PROVE  UNCHANGED <<filed, job>>
  BY <1>8 DEF PurgeRead, PurgeUnlink, SweepRows, SweepArts, SweepUnlink, dbVars
<1>9. UNCHANGED vars => UNCHANGED <<filed, job>>
  BY DEF vars, dbVars
<1>10. CASE Crash
  BY <1>10 DEF Crash
<1> QED
  BY <1>1, <1>2, <1>3, <1>5, <1>6, <1>7, <1>8, <1>9, <1>10 DEF Next, PurgeStep

(* The files of captures, of sidecars and of merges have different names.  *)
LEMMA FilesApart ==
  ASSUME NEW a \in Assignment, NEW s \in Session, NEW as
  PROVE  Pcap(a) # Out(s) /\ (Pcap(a) \in Both(as) => a \in as)
  BY DEF Pcap, Json, Out, Both

(* The files of a session on record are not those of captures in flight.   *)
LEMMA SessionFilesLanded ==
  ASSUME FiledInv, NEW a \in Assignment, InFlight(a), NEW s
  PROVE  Pcap(a) \notin SessionFiles(s)
  BY FilesApart DEF FiledInv, SessionFiles, Pcap, Json, Out, Both

(* No step unlinks the file of a capture in flight.                        *)
LEMMA SparedStep == FiledInv /\ [Next]_vars => FlightSpared
<1> SUFFICES ASSUME FiledInv, [Next]_vars,
                    NEW a \in Assignment, InFlight(a), Pcap(a) \in disk
             PROVE  Pcap(a) \in disk'
  BY DEF FlightSpared
<1>1. CASE disk \subseteq disk'
  BY <1>1
<1>2. ASSUME NEW b \in Assignment,
             FileOpened(b) \/ JobEnds(b) \/ JobFails(b) \/ SidecarWritten(b)
      PROVE  disk \subseteq disk'
  BY <1>2 DEF FileOpened, JobEnds, JobFails, SidecarWritten, diskVars
<1>3. ASSUME NEW s \in Session, SyncTurn(s)
      PROVE  disk \subseteq disk'
  BY <1>3 DEF SyncTurn, diskVars
<1>4. ASSUME NEW r \in Request, NEW s \in Session, MergeRead(r, s)
      PROVE  disk \subseteq disk'
  BY <1>4 DEF MergeRead, diskVars
<1>5. ASSUME NEW r \in Request, MergeStep(r)
      PROVE  disk \subseteq disk'
  BY <1>5 DEF MergeStep, MergeOpens, MergeFills, MergeFails, MergeCommit, diskVars
<1>6. ASSUME NEW r \in Request, DeleteCommit(r) \/ PurgeRead(r) \/ PurgeCommit(r)
                                  \/ SweepRows(r) \/ SweepArts(r)
      PROVE  disk \subseteq disk'
  BY <1>6 DEF DeleteCommit, PurgeRead, PurgeCommit, SweepRows, SweepArts, diskVars
<1>7. ASSUME NEW r \in Request, NEW s \in Session, DeleteUnlink(r, s)
      PROVE  Pcap(a) \in disk'
  BY <1>7, SessionFilesLanded DEF DeleteUnlink
<1>8. ASSUME NEW r \in Request, PurgeUnlink(r)
      PROVE  Pcap(a) \in disk'
  BY <1>8, SessionFilesLanded DEF PurgeUnlink
<1>9. ASSUME NEW r \in Request, SweepUnlink(r)
      PROVE  Pcap(a) \in disk'
  BY <1>9 DEF SweepUnlink, Both
<1>10. UNCHANGED vars => disk \subseteq disk'
  BY DEF vars, diskVars
<1>11. CASE Crash
  BY <1>11 DEF Crash, diskVars
<1> QED
  BY <1>1, <1>2, <1>3, <1>4, <1>5, <1>6, <1>7, <1>8, <1>9, <1>10, <1>11
     DEF Next, PurgeStep

(* A purge never takes the file of a capture in flight, although rows,     *)
(* artifacts and jobs are looked up at three different moments.            *)
THEOREM FlightKept == Spec => ActiveSpared
<1>1. Spec => []FiledInv
  BY FiledInit, FiledStep, PTL DEF Spec
<1> QED
  BY <1>1, SparedStep, PTL DEF Spec, ActiveSpared

-----------------------------------------------------------------------------
(* Types. A request is known by its operation. *)

LEMMA AtTyped ==
  ASSUME TypeOK, NEW r \in Request, NEW step
  PROVE  /\ At(r, "merge", step) => req[r] \in Merging
         /\ At(r, "delete", step) => req[r] \in Deleting
         /\ At(r, "purge", step) => req[r] \in Purging
  BY DEF TypeOK, At, NoRequest, Merging, Deleting, Purging

LEMMA FilesTyped ==
  /\ \A a \in Assignment : Pcap(a) \in AllFiles /\ Json(a) \in AllFiles
  /\ \A s \in Session : Out(s) \in AllFiles
  BY FilesAssumption DEF AllFiles, FilesOf, Both, Of

LEMMA BothTyped == ASSUME NEW as \in SUBSET Assignment PROVE Both(as) \subseteq AllFiles
  BY FilesTyped DEF Both

LEMMA ReqTyped ==
  ASSUME TypeOK, NEW r \in Request,
         NEW x \in {NoRequest} \cup Merging \cup Deleting \cup Purging,
         req' = [req EXCEPT ![r] = x]
  PROVE  req' \in [Request -> {NoRequest} \cup Merging \cup Deleting \cup Purging]
  BY DEF TypeOK

LEMMA CaptureTyped ==
  ASSUME TypeOK, NEW a \in Assignment,
         FileOpened(a) \/ JobEnds(a) \/ JobFails(a) \/ SidecarWritten(a)
  PROVE  TypeOK'
<1>1. UNCHANGED <<dbVars, content, req, pastVars>> /\ disk' \subseteq disk \cup {Pcap(a), Json(a)}
  BY DEF FileOpened, JobEnds, JobFails, SidecarWritten, diskVars
<1>2. job' \in [Assignment -> {"starting", "capturing", "cleaning"} \cup Over]
  BY DEF FileOpened, JobEnds, JobFails, SidecarWritten, TypeOK, Over
<1> QED
  BY <1>1, <1>2, FilesTyped DEF TypeOK, dbVars, pastVars

LEMMA SyncTyped ==
  ASSUME TypeOK, NEW s \in Session, SyncTurn(s) PROVE TypeOK'
<1>1. UNCHANGED <<arts, disk, content, job, req, lapped, crashes, doomed, strays>>
  BY DEF SyncTurn, diskVars, pastVars
<1>2. filed' \in [Assignment -> BOOLEAN]
  BY DEF SyncTurn, TypeOK
<1>3. sess' \in [Session -> {"running", "ended", "gone"}]
  BY DEF SyncTurn, TypeOK
<1> QED
  BY <1>1, <1>2, <1>3 DEF TypeOK

(* A request is received: only req, lapped and doomed may change.          *)
LEMMA ReceiveTyped ==
  ASSUME TypeOK, NEW r \in Request, NEW op, Receive(r, op)
  PROVE  /\ lapped' \in BOOLEAN
         /\ UNCHANGED <<crashes, strays>>
  BY DEF Receive, TypeOK

LEMMA MergeReadTyped ==
  ASSUME TypeOK, NEW r \in Request, NEW s \in Session, MergeRead(r, s)
  PROVE  TypeOK'
<1>1. PICK wanted \in SUBSET Of(s) :
        LET inputs == {a \in wanted : filed[a] /\ Pcap(a) \in disk} IN
        /\ Cardinality(inputs) >= 2
        /\ req' = [req EXCEPT ![r] =
                     [op |-> "merge", step |-> "write", s |-> s, as |-> inputs]]
  BY DEF MergeRead
<1> DEFINE inputs == {a \in wanted : filed[a] /\ Pcap(a) \in disk}
<1>2. inputs \in (SUBSET Assignment) \ {{}}
  <2>1. inputs # {}
    BY <1>1, FS_EmptySet
  <2> QED
    BY <2>1 DEF Of
<1>3. [op |-> "merge", step |-> "write", s |-> s, as |-> inputs] \in Merging
  BY <1>2 DEF Merging
<1>4. req' \in [Request -> {NoRequest} \cup Merging \cup Deleting \cup Purging]
  BY <1>1, <1>3, ReqTyped
<1>5. UNCHANGED <<dbVars, diskVars, job, doomed>> /\ Receive(r, "merge")
  BY DEF MergeRead
<1> QED
  BY <1>4, <1>5, ReceiveTyped DEF TypeOK, dbVars, diskVars

LEMMA MergeTyped ==
  ASSUME TypeOK, NEW r \in Request, MergeStep(r) PROVE TypeOK'
<1> DEFINE Reqs == {NoRequest} \cup Merging \cup Deleting \cup Purging
<1>1. ASSUME MergeOpens(r) PROVE TypeOK'
  <2>1. req[r] \in Merging
    BY <1>1, AtTyped DEF MergeOpens
  <2> DEFINE inputs == {a \in req[r].as : Pcap(a) \in disk}
  <2>2. inputs \in (SUBSET Assignment) \ {{}} /\ Out(req[r].s) \in AllFiles /\ req[r].s \in Session
    BY <1>1, <2>1, FilesTyped DEF MergeOpens, Merging
  <2>3. req' \in [Request -> Reqs]
    BY <1>1, <2>1, <2>2 DEF MergeOpens, Merging, TypeOK
  <2>4. disk' \subseteq AllFiles /\ content' \in [Session -> SUBSET Assignment]
    BY <1>1, <2>2 DEF MergeOpens, TypeOK
  <2> QED
    BY <1>1, <2>3, <2>4 DEF MergeOpens, TypeOK, dbVars, pastVars
<1>2. ASSUME MergeFills(r) PROVE TypeOK'
  <2>1. req[r] \in Merging
    BY <1>2, AtTyped DEF MergeFills
  <2>2. req' \in [Request -> Reqs]
    BY <1>2, <2>1 DEF MergeFills, Merging, TypeOK
  <2>3. content' \in [Session -> SUBSET Assignment]
    BY <1>2, <2>1 DEF MergeFills, Merging, TypeOK
  <2> QED
    BY <1>2, <2>2, <2>3 DEF MergeFills, TypeOK, dbVars, pastVars
<1>3. ASSUME MergeFails(r) PROVE TypeOK'
  <2>1. req' \in [Request -> Reqs]
    BY <1>3 DEF MergeFails, Answer, TypeOK
  <2> QED
    BY <1>3, <2>1 DEF MergeFails, TypeOK, dbVars, diskVars, pastVars
<1>4. ASSUME MergeCommit(r) PROVE TypeOK'
  <2>1. req[r] \in Merging
    BY <1>4, AtTyped DEF MergeCommit
  <2>2. arts' \subseteq [s : Session, sum : (SUBSET Assignment) \ {{}}]
    BY <1>4, <2>1 DEF MergeCommit, Merging, TypeOK
  <2>3. req' \in [Request -> Reqs]
    BY <1>4 DEF MergeCommit, Answer, TypeOK
  <2> QED
    BY <1>4, <2>2, <2>3 DEF MergeCommit, TypeOK, diskVars, pastVars
<1> QED
  BY <1>1, <1>2, <1>3, <1>4 DEF MergeStep

LEMMA DropTyped ==
  ASSUME TypeOK, NEW gone, DropRows(gone)
  PROVE  /\ sess' \in [Session -> {"running", "ended", "gone"}]
         /\ filed' \in [Assignment -> BOOLEAN]
         /\ arts' \subseteq [s : Session, sum : (SUBSET Assignment) \ {{}}]
  BY DEF DropRows, TypeOK

LEMMA DeleteTyped ==
  ASSUME TypeOK, NEW r \in Request,
         DeleteCommit(r) \/ \E s \in Session : DeleteUnlink(r, s)
  PROVE  TypeOK'
<1> DEFINE Reqs == {NoRequest} \cup Merging \cup Deleting \cup Purging
<1>1. ASSUME NEW s \in Session, DeleteUnlink(r, s) PROVE TypeOK'
  <2>1. [op |-> "delete", step |-> "commit", s |-> s] \in Deleting
    BY DEF Deleting
  <2>2. req' \in [Request -> Reqs]
    BY <1>1, <2>1, ReqTyped DEF DeleteUnlink
  <2>3. /\ disk' \subseteq AllFiles /\ doomed' \subseteq Session
        /\ UNCHANGED <<sess, filed, arts, content, job>>
    BY <1>1 DEF DeleteUnlink, TypeOK, dbVars
  <2>4. Receive(r, "delete")
    BY <1>1 DEF DeleteUnlink
  <2> QED
    BY <2>2, <2>3, <2>4, ReceiveTyped DEF TypeOK
<1>2. ASSUME DeleteCommit(r) PROVE TypeOK'
  <2>1. req' \in [Request -> Reqs]
    BY <1>2 DEF DeleteCommit, Answer, TypeOK
  <2>2. DropRows({req[r].s}) /\ UNCHANGED <<diskVars, job, pastVars>>
    BY <1>2 DEF DeleteCommit
  <2> QED
    BY <2>1, <2>2, DropTyped DEF TypeOK, diskVars, pastVars
<1> QED
  BY <1>1, <1>2

LEMMA PurgeTyped ==
  ASSUME TypeOK, NEW r \in Request, PurgeRead(r) \/ PurgeStep(r) PROVE TypeOK'
<1> DEFINE Reqs == {NoRequest} \cup Merging \cup Deleting \cup Purging
<1>1. ASSUME PurgeRead(r) PROVE TypeOK'
  <2> DEFINE ended == {s \in Session : sess[s] = "ended"}
  <2>1. [op |-> "purge", step |-> "unlink", all |-> ended, todo |-> ended,
         keep |-> {}] \in Purging
    BY DEF Purging
  <2>2. req' \in [Request -> Reqs]
    BY <1>1, <2>1, ReqTyped DEF PurgeRead
  <2>3. doomed' \subseteq Session /\ Receive(r, "purge")
        /\ UNCHANGED <<dbVars, diskVars, job>>
    BY <1>1 DEF PurgeRead, TypeOK
  <2> QED
    BY <2>2, <2>3, ReceiveTyped DEF TypeOK, dbVars, diskVars
<1>2. ASSUME PurgeUnlink(r) PROVE TypeOK'
  <2>1. req[r] \in Purging
    BY <1>2, AtTyped DEF PurgeUnlink
  <2>2. req' \in [Request -> Reqs] /\ disk' \subseteq AllFiles
    BY <1>2, <2>1 DEF PurgeUnlink, Purging, TypeOK
  <2> QED
    BY <1>2, <2>2 DEF PurgeUnlink, TypeOK, dbVars, pastVars
<1>3. ASSUME PurgeCommit(r) PROVE TypeOK'
  <2>1. req[r] \in Purging
    BY <1>3, AtTyped DEF PurgeCommit
  <2>2. req' \in [Request -> Reqs]
    BY <1>3, <2>1 DEF PurgeCommit, Purging, TypeOK
  <2>3. DropRows(req[r].all) /\ UNCHANGED <<diskVars, job, pastVars>>
    BY <1>3 DEF PurgeCommit
  <2> QED
    BY <2>2, <2>3, DropTyped DEF TypeOK, diskVars, pastVars
<1>4. ASSUME SweepRows(r) \/ SweepArts(r) PROVE TypeOK'
  <2>1. req[r] \in Purging
    BY <1>4, AtTyped DEF SweepRows, SweepArts
  <2>2. Both({a \in Assignment : filed[a]}) \subseteq AllFiles
    BY BothTyped
  <2>3. {Out(x.s) : x \in arts} \subseteq AllFiles
    BY FilesTyped DEF TypeOK
  <2>4. req' \in [Request -> Reqs]
    BY <1>4, <2>1, <2>2, <2>3 DEF SweepRows, SweepArts, Purging, TypeOK
  <2> QED
    BY <1>4, <2>4 DEF SweepRows, SweepArts, TypeOK, dbVars, diskVars, pastVars
<1>5. ASSUME SweepUnlink(r) PROVE TypeOK'
  <2>1. req' \in [Request -> Reqs] /\ disk' \subseteq AllFiles
    BY <1>5 DEF SweepUnlink, Answer, TypeOK
  <2> QED
    BY <1>5, <2>1 DEF SweepUnlink, TypeOK, dbVars, pastVars
<1> QED
  BY <1>1, <1>2, <1>3, <1>4, <1>5 DEF PurgeStep

LEMMA CrashTyped == ASSUME TypeOK, Crash PROVE TypeOK'
<1>1. crashes' \in 0..MaxCrashes
  BY FilesAssumption DEF Crash, TypeOK
<1>2. /\ job' \in [Assignment -> {"starting", "capturing", "cleaning"} \cup Over]
      /\ req' \in [Request -> {NoRequest} \cup Merging \cup Deleting \cup Purging]
      /\ sess' \in [Session -> {"running", "ended", "gone"}]
      /\ strays' \subseteq AllFiles
  BY DEF Crash, TypeOK, Over
<1> QED
  BY <1>1, <1>2 DEF Crash, TypeOK, diskVars

LEMMA TypeStep == TypeOK /\ [Next]_vars => TypeOK'
<1>1. TypeOK /\ UNCHANGED vars => TypeOK'
  BY DEF TypeOK, vars, dbVars, diskVars, pastVars
<1> QED
  BY <1>1, CaptureTyped, SyncTyped, MergeReadTyped, MergeTyped, DeleteTyped,
     PurgeTyped, CrashTyped DEF Next

LEMMA TypeInit == Init => TypeOK
<1> SUFFICES ASSUME Init PROVE TypeOK
  OBVIOUS
<1>1. crashes \in 0..MaxCrashes
  BY FilesAssumption DEF Init
<1>2. arts = {} /\ disk = {} /\ doomed = {} /\ strays = {} /\ lapped = FALSE
  BY DEF Init
<1>3. /\ job \in [Assignment -> {"starting", "capturing", "cleaning"} \cup Over]
      /\ req \in [Request -> {NoRequest} \cup Merging \cup Deleting \cup Purging]
      /\ sess \in [Session -> {"running", "ended", "gone"}]
      /\ filed \in [Assignment -> BOOLEAN]
      /\ content \in [Session -> SUBSET Assignment]
  BY DEF Init
<1> QED
  BY <1>1, <1>2, <1>3 DEF TypeOK

(* Every variable ranges over what the code can store in it; in particular *)
(* merge_session never records the merge of nothing.                       *)
THEOREM TypeCorrect == Spec => []TypeOK
  BY TypeInit, TypeStep, PTL DEF Spec

-----------------------------------------------------------------------------
(***************************************************************************)
(* Deletion, merge and purge, where requests are served one at a time.     *)
(***************************************************************************)

(* A session that is over has no capture in flight. What its row no longer *)
(* names of a capture was left by a crash, or is a late sidecar.           *)
SessionsOver ==
  \A s \in Session : sess[s] # "running" => \A a \in Of(s) : ~InFlight(a)

CapturesRecorded ==
  \A s \in Session : sess[s] = "ended" =>
    \A a \in Of(s) : filed[a] \/ disk \cap Both({a}) \subseteq Late(s)

(* Only a session whose deletion has begun is gone or has files unlinked.  *)
DeletionsBegun ==
  /\ \A s \in Session : sess[s] = "gone" => s \in doomed
  /\ \A s \in doomed : sess[s] # "running"
  /\ \A r \in Request :
       /\ At(r, "delete", "commit") => req[r].s \in doomed
       /\ At(r, "purge", "unlink") => req[r].all \cup req[r].todo \subseteq doomed

Alone == \A q, r \in Request : req[q] # NoRequest /\ req[r] # NoRequest => q = r

(* What a merge that is served alone knows of its session and its output.  *)
MergeAlone ==
  \A r \in Request :
    /\ req[r] \in Merging => sess[req[r].s] # "gone"
    /\ At(r, "merge", "fill") => Out(req[r].s) \in disk /\ content[req[r].s] = {}
    /\ At(r, "merge", "commit") => Out(req[r].s) \in disk /\ content[req[r].s] = req[r].as

(* A merged file nobody recorded is one of a merge under way, that failed, *)
(* or that a crash kept from being recorded.                               *)
Recording(s) == \E r \in Request : At(r, "merge", "commit") /\ req[r].s = s
MergesRecorded ==
  \A s \in Session : sess[s] # "gone" /\ Out(s) \in disk =>
    (\E x \in arts : x.s = s) \/ Out(s) \in Late(s) \/ Recording(s)

MergesFiled ==
  \A x \in arts : x.s \notin doomed =>
    /\ Out(x.s) \in disk
    /\ \/ \E y \in arts : y.s = x.s /\ y.sum = content[x.s]
       \/ content[x.s] = {} \/ crashes > 0 \/ Recording(x.s)

Cleared(s) == disk \cap FilesOf(s) \subseteq Late(s)
DeletionsClear ==
  /\ \A s \in Session : sess[s] = "gone" => Cleared(s)
  /\ \A r \in Request :
       /\ At(r, "delete", "commit") => Cleared(req[r].s)
       /\ At(r, "purge", "unlink") =>
            \A s \in req[r].all \ req[r].todo : Cleared(s)

(* What the sweep of a purge that is served alone will keep.               *)
SweepKeeps ==
  \A r \in Request :
    /\ At(r, "purge", "arts") => req[r].keep \subseteq OnRecord
    /\ At(r, "purge", "sweep") =>
         /\ req[r].keep \subseteq OnRecord
         /\ \A x \in arts : Out(x.s) \in req[r].keep

Serial == Alone /\ MergeAlone /\ MergesRecorded /\ MergesFiled /\ DeletionsClear /\ SweepKeeps

FilesInv ==
  /\ TypeOK /\ SessionsOver /\ CapturesRecorded /\ DeletionsBegun
  /\ ~lapped => Serial

LEMMA NamesApart ==
  ASSUME NEW as, NEW s, NEW t, NEW a
  PROVE  /\ Pcap(a) \in Both(as) <=> a \in as
         /\ Json(a) \in Both(as) <=> a \in as
         /\ Out(s) \notin Both(as)
         /\ Pcap(a) \in FilesOf(s) <=> a \in Of(s)
         /\ Json(a) \in FilesOf(s) <=> a \in Of(s)
         /\ Out(t) \in FilesOf(s) <=> t = s
  BY DEF Pcap, Json, Out, Both, FilesOf

LEMMA FilesNamed ==
  ASSUME NEW s, NEW f \in FilesOf(s)
  PROVE  f = Out(s) \/ \E a \in Of(s) : f \in Both({a})
  BY DEF FilesOf, Both

LEMMA RecordNamed ==
  ASSUME TypeOK
  PROVE  /\ OnRecord = Both({a \in Assignment : filed[a]}) \cup {Out(x.s) : x \in arts}
         /\ \A a \in Assignment : /\ Pcap(a) \in OnRecord <=> filed[a]
                                  /\ Json(a) \in OnRecord <=> filed[a]
         /\ \A s \in Session : Out(s) \in OnRecord <=> \E x \in arts : x.s = s
<1>1. \A s \in Session : SessionFiles(s) =
        Both({a \in Of(s) : filed[a]}) \cup {Out(x.s) : x \in {y \in arts : y.s = s}}
  BY DEF SessionFiles
<1>2. \A x \in arts : x.s \in Session
  BY DEF TypeOK
<1>3. \A a \in Assignment : SessOf[a] \in Session /\ a \in Of(SessOf[a])
  BY FilesAssumption DEF Of
<1>4. OnRecord \subseteq Both({a \in Assignment : filed[a]}) \cup {Out(x.s) : x \in arts}
  BY <1>1 DEF OnRecord, Both, Of
<1>5. {Out(x.s) : x \in arts} \subseteq OnRecord
  BY <1>1, <1>2 DEF OnRecord
<1>6. Both({a \in Assignment : filed[a]}) \subseteq OnRecord
  BY <1>1, <1>3 DEF OnRecord, Both
<1>7. OnRecord = Both({a \in Assignment : filed[a]}) \cup {Out(x.s) : x \in arts}
  BY <1>4, <1>5, <1>6
<1>8. \A a \in Assignment : Pcap(a) \notin {Out(x.s) : x \in arts}
                           /\ Json(a) \notin {Out(x.s) : x \in arts}
  BY DEF Pcap, Json, Out
<1>9. \A s \in Session : Out(s) \in {Out(x.s) : x \in arts} <=> \E x \in arts : x.s = s
  BY DEF Out
<1>10. \A a \in Assignment :
         /\ Pcap(a) \in Both({b \in Assignment : filed[b]}) <=> filed[a]
         /\ Json(a) \in Both({b \in Assignment : filed[b]}) <=> filed[a]
  BY NamesApart
<1>11. \A s \in Session : Out(s) \notin Both({b \in Assignment : filed[b]})
  BY NamesApart
<1> QED
  BY <1>7, <1>8, <1>9, <1>10, <1>11

(* What only grows: a file that is late or left by a crash stays that, a   *)
(* capture that is over stays over.                                        *)
LEMMA StaysLate ==
  ASSUME TypeOK, [Next]_vars
  PROVE  /\ strays \subseteq strays' /\ doomed \subseteq doomed'
         /\ lapped => lapped'
         /\ crashes > 0 => crashes' > 0
         /\ \A a \in Assignment : /\ InFlight(a)' => InFlight(a)
                                  /\ job[a] = "failed" => job'[a] = "failed"
<1> DEFINE Grows ==
             /\ strays \subseteq strays' /\ doomed \subseteq doomed'
             /\ lapped => lapped'
             /\ crashes > 0 => crashes' > 0
           JobsStay ==
             \A a \in Assignment : /\ InFlight(a)' => InFlight(a)
                                   /\ job[a] = "failed" => job'[a] = "failed"
<1>1. ASSUME Crash PROVE Grows /\ JobsStay
  BY <1>1 DEF Crash, TypeOK, InFlight, Over
<1>2. ASSUME UNCHANGED job PROVE JobsStay
  BY <1>2 DEF InFlight
<1>3. ASSUME UNCHANGED <<strays, crashes, lapped, doomed>> PROVE Grows
  BY <1>3
<1>4. ASSUME NEW r \in Request, NEW s \in Session, MergeRead(r, s) \/ DeleteUnlink(r, s)
      PROVE  Grows /\ JobsStay
  BY <1>2, <1>4 DEF MergeRead, DeleteUnlink, Receive
<1>5. ASSUME NEW r \in Request, PurgeRead(r) PROVE Grows /\ JobsStay
  BY <1>2, <1>5 DEF PurgeRead, Receive
<1>6. ASSUME NEW r \in Request, MergeStep(r) \/ DeleteCommit(r) \/ PurgeStep(r)
      PROVE  Grows /\ JobsStay
  BY <1>2, <1>3, <1>6 DEF MergeStep, MergeOpens, MergeFills, MergeFails, MergeCommit,
     DeleteCommit, PurgeStep, PurgeUnlink, PurgeCommit, SweepRows, SweepArts, SweepUnlink,
     pastVars
<1>7. ASSUME NEW a \in Assignment,
             FileOpened(a) \/ JobEnds(a) \/ JobFails(a) \/ SidecarWritten(a)
      PROVE  Grows /\ JobsStay
  BY <1>3, <1>7 DEF FileOpened, JobEnds, JobFails, SidecarWritten, pastVars, TypeOK, InFlight
<1>8. ASSUME NEW s \in Session, SyncTurn(s) PROVE Grows /\ JobsStay
  BY <1>2, <1>3, <1>8 DEF SyncTurn, pastVars
<1>9. ASSUME UNCHANGED vars PROVE Grows /\ JobsStay
  BY <1>2, <1>3, <1>9 DEF vars, pastVars
<1>10. Grows /\ JobsStay
  BY <1>1, <1>4, <1>5, <1>6, <1>7, <1>8, <1>9 DEF Next
<1> QED
  BY <1>10

LEMMA LateGrows ==
  ASSUME TypeOK, [Next]_vars, NEW s \in Session,
         content[s] = {} => content'[s] = {}
  PROVE  Late(s) \subseteq Late(s)'
<1>1. \A a \in Of(s) : job[a] = "failed" => job'[a] = "failed"
  BY StaysLate DEF Of
<1> QED
  BY <1>1, StaysLate DEF Late

LEMMA SessionsOverKeeps ==
  ASSUME TypeOK, SessionsOver, DeletionsBegun, [Next]_vars
  PROVE  SessionsOver'
<1> SUFFICES ASSUME NEW s \in Session, sess'[s] # "running", NEW a \in Of(s), InFlight(a)'
             PROVE  FALSE
  BY DEF SessionsOver
<1>1. a \in Assignment /\ InFlight(a)
  BY StaysLate DEF Of
<1>2. sess[s] = "running"
  BY <1>1 DEF SessionsOver
<1>3. ASSUME UNCHANGED sess PROVE FALSE
  BY <1>2, <1>3
<1>4. ASSUME NEW gone, DropRows(gone), gone \subseteq doomed PROVE FALSE
  BY <1>2, <1>4 DEF DropRows, DeletionsBegun
<1>5. ASSUME NEW r \in Request, DeleteCommit(r) \/ PurgeCommit(r) PROVE FALSE
  BY <1>4, <1>5 DEF DeleteCommit, PurgeCommit, DeletionsBegun
<1>6. ASSUME NEW t \in Session, SyncTurn(t) PROVE FALSE
  BY <1>1, <1>2, <1>6 DEF SyncTurn, TypeOK
<1>7. ASSUME Crash PROVE FALSE
  BY <1>1, <1>7 DEF Crash, InFlight, Over, TypeOK
<1> QED
  BY <1>3, <1>5, <1>6, <1>7 DEF Next, FileOpened, JobEnds, JobFails, SidecarWritten, vars, dbVars,
     MergeRead, DeleteUnlink, MergeStep, MergeOpens, MergeFills, MergeFails, MergeCommit,
     PurgeStep, PurgeRead, PurgeUnlink, SweepRows, SweepArts, SweepUnlink

LEMMA CaptureStaysLate ==
  ASSUME TypeOK, [Next]_vars, NEW s \in Session, NEW f, f \in Late(s), f # Out(s)
  PROVE  f \in Late(s)'
<1>1. \A a \in Of(s) : job[a] = "failed" => job'[a] = "failed"
  BY StaysLate DEF Of
<1> QED
  BY <1>1, StaysLate DEF Late

(* What a step can add to the files of a capture that is over.             *)
LEMMA WritesOfCaptures ==
  ASSUME TypeOK, [Next]_vars, NEW s \in Session, NEW a \in Of(s), ~InFlight(a)
  PROVE  disk' \cap Both({a}) \subseteq disk \cup Late(s)'
<1>1. a \in Assignment
  BY DEF Of
<1>2. ASSUME disk' \subseteq disk PROVE disk' \cap Both({a}) \subseteq disk \cup Late(s)'
  BY <1>2
<1>3. ASSUME NEW b \in Assignment, FileOpened(b) \/ JobEnds(b)
      PROVE  disk' \cap Both({a}) \subseteq disk
  <2>1. b # a /\ disk' \subseteq disk \cup Both({b})
    BY <1>3 DEF FileOpened, JobEnds, InFlight, Both
  <2>2. Both({a}) \cap Both({b}) = {}
    BY <2>1 DEF Both, Pcap, Json
  <2> QED
    BY <2>1, <2>2
<1>4. ASSUME NEW b \in Assignment, SidecarWritten(b)
      PROVE  disk' \cap Both({a}) \subseteq disk \cup Late(s)'
  <2>1. disk' = disk \cup {Json(b)} /\ job'[b] = "failed"
    BY <1>4 DEF SidecarWritten, TypeOK
  <2>2. Json(b) \in Both({a}) => b = a
    BY NamesApart
  <2> QED
    BY <2>1, <2>2 DEF Late
<1>5. ASSUME NEW r \in Request, MergeOpens(r)
      PROVE  disk' \cap Both({a}) \subseteq disk
  BY <1>5, NamesApart DEF MergeOpens
<1>6. ASSUME NEW r \in Request, MergeFills(r) \/ MergeFails(r) \/ MergeCommit(r)
        \/ DeleteCommit(r) \/ PurgeRead(r) \/ PurgeStep(r)
      PROVE  disk' \subseteq disk
  BY <1>6 DEF MergeFills, MergeFails, MergeCommit, DeleteCommit, PurgeRead, PurgeStep,
     PurgeUnlink, PurgeCommit, SweepRows, SweepArts, SweepUnlink, diskVars
<1>7. ASSUME NEW r \in Request, NEW t \in Session, MergeRead(r, t) \/ DeleteUnlink(r, t)
      PROVE  disk' \subseteq disk
  BY <1>7 DEF MergeRead, DeleteUnlink, diskVars
<1>8. ASSUME Crash \/ (\E t \in Session : SyncTurn(t)) \/ UNCHANGED vars
             \/ (\E b \in Assignment : JobFails(b))
      PROVE  disk' \subseteq disk
  BY <1>8 DEF Crash, SyncTurn, JobFails, vars, diskVars
<1> QED
  BY <1>2, <1>3, <1>4, <1>5, <1>6, <1>7, <1>8 DEF Next, MergeStep

(* What a step does to the row of a session, and to its captures' paths.   *)
LEMMA RowSteps ==
  ASSUME TypeOK, DeletionsBegun, [Next]_vars, NEW s \in Session, sess'[s] = "ended"
  PROVE  \/ sess[s] = "ended" /\ \A a \in Of(s) : filed[a] => filed'[a]
         \/ sess[s] = "running" /\ \A a \in Of(s) : filed'[a]
         \/ sess[s] = "running" /\ Crash
<1>1. Of(s) \subseteq Assignment /\ \A a \in Of(s) : SessOf[a] = s
  BY DEF Of
<1>2. ASSUME UNCHANGED <<sess, filed>>
      PROVE  sess[s] = "ended" /\ \A a \in Of(s) : filed[a] => filed'[a]
  BY <1>2
<1>3. ASSUME NEW gone, DropRows(gone)
      PROVE  sess[s] = "ended" /\ \A a \in Of(s) : filed[a] => filed'[a]
  BY <1>1, <1>3 DEF DropRows
<1>4. ASSUME NEW r \in Request, DeleteCommit(r) \/ PurgeCommit(r)
      PROVE  sess[s] = "ended" /\ \A a \in Of(s) : filed[a] => filed'[a]
  BY <1>3, <1>4 DEF DeleteCommit, PurgeCommit
<1>5. ASSUME NEW t \in Session, SyncTurn(t)
      PROVE  \/ sess[s] = "ended" /\ \A a \in Of(s) : filed[a] => filed'[a]
             \/ sess[s] = "running" /\ \A a \in Of(s) : filed'[a]
  <2>1. \A a \in Of(s) : filed[a] => filed'[a]
    BY <1>1, <1>5 DEF SyncTurn
  <2>2. CASE sess[s] = "ended"
    BY <2>1, <2>2
  <2>3. CASE sess[s] # "ended"
    <3>1. t = s /\ sess[s] = "running" /\ \A a \in Of(s) : ~InFlight(a)
      BY <1>5, <2>3 DEF SyncTurn, TypeOK
    <3> QED
      BY <1>1, <1>5, <3>1 DEF SyncTurn
  <2> QED
    BY <2>2, <2>3
<1>6. ASSUME Crash PROVE (sess[s] = "ended" /\ UNCHANGED filed) \/ sess[s] = "running"
  BY <1>6 DEF Crash, TypeOK
<1> QED
  BY <1>2, <1>4, <1>5, <1>6 DEF Next, FileOpened, JobEnds, JobFails, SidecarWritten, vars, dbVars,
     MergeRead, DeleteUnlink, MergeStep, MergeOpens, MergeFills, MergeFails, MergeCommit,
     PurgeStep, PurgeRead, PurgeUnlink, SweepRows, SweepArts, SweepUnlink

LEMMA CapturesRecordedKeeps ==
  ASSUME TypeOK, SessionsOver, CapturesRecorded, DeletionsBegun, [Next]_vars
  PROVE  CapturesRecorded'
<1> SUFFICES ASSUME NEW s \in Session, sess'[s] = "ended", NEW a \in Of(s), ~filed'[a]
             PROVE  disk' \cap Both({a}) \subseteq Late(s)'
  BY DEF CapturesRecorded
<1>1. a \in Assignment
  BY DEF Of
<1>2. CASE sess[s] = "ended" /\ \A b \in Of(s) : filed[b] => filed'[b]
  <2>1. ~InFlight(a) /\ disk \cap Both({a}) \subseteq Late(s)
    BY <1>2 DEF SessionsOver, CapturesRecorded
  <2>2. Out(s) \notin Both({a})
    BY NamesApart
  <2> QED
    BY <2>1, <2>2, WritesOfCaptures, CaptureStaysLate
<1>3. CASE Crash /\ sess[s] = "running"
  <2>1. ~filed[a] /\ disk' = disk /\ strays' = strays \cup (disk \ OnRecord)
    BY <1>3 DEF Crash, diskVars
  <2>2. Pcap(a) \notin OnRecord /\ Json(a) \notin OnRecord
    BY <1>1, <2>1, RecordNamed
  <2> QED
    BY <2>1, <2>2 DEF Both, Late
<1> QED
  BY <1>2, <1>3, RowSteps

LEMMA DeletionsBegunKeeps ==
  ASSUME TypeOK, DeletionsBegun, [Next]_vars
  PROVE  DeletionsBegun'
<1> DEFINE Begun(q) ==
      /\ At(q, "delete", "commit") => req[q].s \in doomed
      /\ At(q, "purge", "unlink") => req[q].all \cup req[q].todo \subseteq doomed
    Rows == \A s \in Session : (sess[s] = "gone" => s \in doomed)
                               /\ (s \in doomed => sess[s] # "running")
<1> USE DEF DeletionsBegun
<1>1. DeletionsBegun' <=> Rows' /\ \A q \in Request : Begun(q)'
  BY TypeStep DEF TypeOK
<1>2. \A q \in Request : req'[q] = req[q] \/ req'[q] = NoRequest => Begun(q)'
  BY StaysLate DEF At
<1>3. ASSUME UNCHANGED sess, doomed' \subseteq doomed \cup {s \in Session : sess[s] = "ended"}
      PROVE  Rows'
  BY <1>3, StaysLate
<1>4. ASSUME NEW gone, DropRows(gone), gone \subseteq doomed, UNCHANGED doomed
      PROVE  Rows'
  BY <1>4 DEF DropRows
<1>5. ASSUME NEW a \in Assignment,
             FileOpened(a) \/ JobEnds(a) \/ JobFails(a) \/ SidecarWritten(a)
      PROVE  DeletionsBegun'
  BY <1>1, <1>2, <1>3, <1>5 DEF FileOpened, JobEnds, JobFails, SidecarWritten, dbVars, pastVars
<1>6. ASSUME NEW s \in Session, SyncTurn(s) PROVE DeletionsBegun'
  <2>1. Rows'
    BY <1>6 DEF SyncTurn, pastVars, TypeOK
  <2> QED
    BY <1>1, <1>2, <1>6, <2>1 DEF SyncTurn
<1>7. ASSUME NEW r \in Request, NEW s \in Session, MergeRead(r, s) PROVE DeletionsBegun'
  <2>1. /\ UNCHANGED <<sess, doomed>>
        /\ \E as : req' = [req EXCEPT ![r] =
                             [op |-> "merge", step |-> "write", s |-> s, as |-> as]]
    BY <1>7 DEF MergeRead, dbVars
  <2>2. \A q \in Request : Begun(q)'
    BY <1>2, <2>1 DEF At, TypeOK
  <2> QED
    BY <1>1, <1>3, <2>1, <2>2
<1>8. ASSUME NEW r \in Request, MergeStep(r) PROVE DeletionsBegun'
  <2>1. UNCHANGED <<sess, doomed>>
    BY <1>8 DEF MergeStep, MergeOpens, MergeFills, MergeFails, MergeCommit, dbVars, pastVars
  <2>2. \A q \in Request : req'[q] = req[q] \/ req'[q] = NoRequest \/ req'[q].op = "merge"
    BY <1>8 DEF MergeStep, MergeOpens, MergeFills, MergeFails, MergeCommit, Answer, At, TypeOK,
       Merging, Deleting, Purging, NoRequest
  <2>3. \A q \in Request : Begun(q)'
    BY <1>2, <2>2 DEF At
  <2> QED
    BY <1>1, <1>3, <2>1, <2>3
<1>9. ASSUME NEW r \in Request, NEW s \in Session, DeleteUnlink(r, s) PROVE DeletionsBegun'
  <2>1. Rows' /\ s \in doomed'
    BY <1>9 DEF DeleteUnlink, dbVars
  <2>2. \A q \in Request : Begun(q)'
    BY <1>2, <1>9, <2>1 DEF At, TypeOK, DeleteUnlink
  <2> QED
    BY <1>1, <2>1, <2>2
<1>10. ASSUME NEW r \in Request, DeleteCommit(r) PROVE DeletionsBegun'
  <2>1. Rows'
    BY <1>4, <1>10 DEF DeleteCommit, pastVars
  <2>2. \A q \in Request : req'[q] = req[q] \/ req'[q] = NoRequest
    BY <1>10 DEF DeleteCommit, Answer, TypeOK
  <2> QED
    BY <1>1, <1>2, <2>1, <2>2
<1>11. ASSUME NEW r \in Request, PurgeRead(r) PROVE DeletionsBegun'
  <2>1. Rows'
    BY <1>11 DEF PurgeRead, dbVars
  <2>2. req'[r].all = {s \in Session : sess[s] = "ended"} /\ req'[r].todo \subseteq req'[r].all
    BY <1>11 DEF PurgeRead, TypeOK
  <2>3. {s \in Session : sess[s] = "ended"} \subseteq doomed'
    BY <1>11 DEF PurgeRead
  <2>4. req'[r].op = "purge" /\ \A q \in Request : q # r => req'[q] = req[q]
    BY <1>11 DEF PurgeRead, TypeOK
  <2>5. \A q \in Request : Begun(q)'
    BY <1>2, <2>2, <2>3, <2>4 DEF At
  <2> QED
    BY <1>1, <2>1, <2>5
<1>12. ASSUME NEW r \in Request, PurgeStep(r) PROVE DeletionsBegun'
  <2>1. Rows'
    BY <1>3, <1>4, <1>12 DEF PurgeStep, PurgeUnlink, PurgeCommit, SweepRows, SweepArts,
       SweepUnlink, pastVars, dbVars
  <2>2. \/ req'[r] = NoRequest
        \/ req'[r].step \in {"rows", "arts", "sweep"} /\ req'[r].op = "purge"
        \/ At(r, "purge", "unlink") /\ req'[r].all = req[r].all
           /\ req'[r].todo \subseteq req[r].todo /\ req'[r].op = "purge"
    <3>1. req[r] \in Purging
      BY <1>12, AtTyped DEF PurgeStep, PurgeUnlink, PurgeCommit, SweepRows, SweepArts, SweepUnlink
    <3> QED
      BY <1>12, <3>1 DEF PurgeStep, PurgeUnlink, PurgeCommit, SweepRows, SweepArts,
         SweepUnlink, Answer, TypeOK, Purging
  <2>3. \A q \in Request : q # r => req'[q] = req[q]
    BY <1>12 DEF PurgeStep, PurgeUnlink, PurgeCommit, SweepRows, SweepArts,
       SweepUnlink, Answer, TypeOK
  <2>4. doomed \subseteq doomed'
    BY StaysLate
  <2>5. \A q \in Request : Begun(q)'
    BY <1>2, <2>2, <2>3, <2>4 DEF At
  <2> QED
    BY <1>1, <2>1, <2>5
<1>13. ASSUME Crash PROVE DeletionsBegun'
  <2>1. Rows'
    BY <1>13 DEF Crash
  <2> QED
    BY <1>1, <1>2, <1>13, <2>1 DEF Crash
<1>14. ASSUME UNCHANGED vars PROVE DeletionsBegun'
  BY <1>1, <1>2, <1>3, <1>14 DEF vars, dbVars, pastVars
<1> QED
  BY <1>5, <1>6, <1>7, <1>8, <1>9, <1>10, <1>11, <1>12, <1>13, <1>14 DEF Next

(* A deleted session stays without files.                                  *)
LEMMA ClearedKeeps ==
  ASSUME TypeOK, SessionsOver, [Next]_vars, NEW s \in Session, sess[s] # "running", Cleared(s),
         content[s] = {} => content'[s] = {}, Out(s) \in disk' => Out(s) \in disk
  PROVE  Cleared(s)'
<1> SUFFICES ASSUME NEW f \in FilesOf(s), f \in disk' PROVE f \in Late(s)'
  BY DEF Cleared, FilesOf, Of
<1>1. Late(s) \subseteq Late(s)'
  BY LateGrows
<1>2. CASE f \in disk
  BY <1>1, <1>2 DEF Cleared
<1>3. CASE f \notin disk
  <2>1. PICK a \in Of(s) : f \in Both({a})
    BY <1>3, FilesNamed
  <2> QED
    BY <1>3, <2>1, WritesOfCaptures DEF SessionsOver
<1> QED
  BY <1>2, <1>3

(* Steps that move no request, no artifact and no merged file.             *)
LEMMA SerialFrame ==
  ASSUME TypeOK, SessionsOver, DeletionsBegun, Serial, [Next]_vars,
         UNCHANGED <<req, arts, content, crashes, doomed>>,
         \A s \in Session : Out(s) \in disk' <=> Out(s) \in disk,
         \A s \in Session : sess'[s] = "gone" <=> sess[s] = "gone",
         \A a \in Assignment : filed[a] => filed'[a]
  PROVE  Serial'
<1> USE DEF Serial
<1>1. \A q \in Request : \A op, step : At(q, op, step)' <=> At(q, op, step)
  BY DEF At
<1>2. Alone'
  BY DEF Alone
<1>3. MergeAlone'
  <2>1. \A q \in Request : req[q] \in Merging => req[q].s \in Session
    BY DEF Merging
  <2>2. \A q \in Request : \A step : At(q, "merge", step) => req[q] \in Merging
    BY AtTyped
  <2> QED
    BY <1>1, <2>1, <2>2 DEF MergeAlone
<1>4. \A s \in Session : Recording(s)' <=> Recording(s)
  BY <1>1 DEF Recording
<1>5. MergesRecorded'
  BY <1>4, LateGrows DEF MergesRecorded
<1>6. MergesFiled'
  BY <1>4 DEF MergesFiled, TypeOK
<1>7. \A s \in doomed : Cleared(s) => Cleared(s)'
  BY ClearedKeeps DEF DeletionsBegun, TypeOK
<1>8. DeletionsClear'
  <2>1. \A s \in Session : sess'[s] = "gone" => Cleared(s)'
    BY <1>7 DEF DeletionsClear, DeletionsBegun
  <2>2. \A q \in Request : At(q, "delete", "commit") => Cleared(req[q].s)'
    BY <1>7 DEF DeletionsClear, DeletionsBegun
  <2>3. \A q \in Request : At(q, "purge", "unlink") =>
          \A s \in req[q].all \ req[q].todo : Cleared(s)'
    BY <1>7 DEF DeletionsClear, DeletionsBegun
  <2> QED
    BY <1>1, <2>1, <2>2, <2>3 DEF DeletionsClear
<1>9. OnRecord \subseteq OnRecord'
  <2>1. \A s \in Session : SessionFiles(s) \subseteq SessionFiles(s)'
    BY DEF SessionFiles, Both, Of
  <2> QED
    BY <2>1 DEF OnRecord
<1>10. SweepKeeps'
  BY <1>1, <1>9 DEF SweepKeeps
<1> QED
  BY <1>2, <1>3, <1>5, <1>6, <1>8, <1>10

LEMMA CaptureSerial ==
  ASSUME TypeOK, SessionsOver, DeletionsBegun, Serial, [Next]_vars, UNCHANGED vars
         \/ \E a \in Assignment : FileOpened(a) \/ JobEnds(a) \/ JobFails(a) \/ SidecarWritten(a)
  PROVE  Serial'
<1>1. UNCHANGED <<req, arts, content, crashes, doomed, sess, filed>>
  BY DEF FileOpened, JobEnds, JobFails, SidecarWritten, vars, diskVars, dbVars, pastVars
<1>2. \A s \in Session : Out(s) \in disk' <=> Out(s) \in disk
  BY DEF FileOpened, JobEnds, JobFails, SidecarWritten, vars, diskVars, Out, Pcap, Json
<1> QED
  BY <1>1, <1>2, SerialFrame

LEMMA SyncSerial ==
  ASSUME TypeOK, SessionsOver, DeletionsBegun, Serial, [Next]_vars,
         NEW s \in Session, SyncTurn(s)
  PROVE  Serial'
<1>1. UNCHANGED <<req, arts, content, crashes, doomed, disk>>
  BY DEF SyncTurn, diskVars, pastVars
<1>2. \A t \in Session : sess'[t] = "gone" <=> sess[t] = "gone"
  BY DEF SyncTurn, TypeOK
<1>3. \A a \in Assignment : filed[a] => filed'[a]
  BY DEF SyncTurn
<1> QED
  BY <1>1, <1>2, <1>3, SerialFrame

LEMMA CrashSerial ==
  ASSUME TypeOK, SessionsOver, DeletionsBegun, Serial, [Next]_vars, Crash
  PROVE  Serial'
<1> USE DEF Serial
<1>1. /\ UNCHANGED <<arts, filed, disk, content, doomed>>
      /\ \A q \in Request : req'[q] = NoRequest
      /\ strays' = strays \cup (disk \ OnRecord)
      /\ \A s \in Session : sess'[s] = "gone" <=> sess[s] = "gone"
      /\ crashes' > 0
  BY DEF Crash, diskVars, TypeOK
<1>2. \A q \in Request : \A op, step : ~At(q, op, step)'
  BY <1>1 DEF At
<1>3. Alone' /\ MergeAlone'
  BY <1>1, <1>2 DEF Alone, MergeAlone, NoRequest, Merging
<1>4. MergesRecorded'
  <2> SUFFICES ASSUME NEW s \in Session, sess[s] # "gone", Out(s) \in disk, \A x \in arts : x.s # s
               PROVE  Out(s) \in Late(s)'
    BY <1>1 DEF MergesRecorded
  <2>1. Out(s) \notin OnRecord
    BY RecordNamed
  <2> QED
    BY <1>1, <2>1 DEF Late
<1>5. MergesFiled'
  BY <1>1 DEF MergesFiled
<1>6. DeletionsClear'
  <2>1. \A s \in Session : sess[s] = "gone" => Cleared(s)'
    BY <1>1, ClearedKeeps DEF DeletionsClear
  <2> QED
    BY <1>1, <1>2, <2>1 DEF DeletionsClear
<1>7. SweepKeeps'
  BY <1>2 DEF SweepKeeps
<1> QED
  BY <1>3, <1>4, <1>5, <1>6, <1>7

(* While a request is served alone, the others are not even made.          *)
LEMMA OthersWait ==
  ASSUME TypeOK, Alone, NEW r \in Request, NEW x, req' = [req EXCEPT ![r] = x],
         req[r] # NoRequest \/ \A q \in Request : req[q] = NoRequest
  PROVE  /\ Alone' /\ req'[r] = x
         /\ \A q \in Request \ {r} : req[q] = NoRequest /\ req'[q] = NoRequest
         /\ \A q \in Request : \A op, step : At(q, op, step)' => q = r
         /\ \A s \in Session :
              /\ Recording(s) => At(r, "merge", "commit") /\ req[r].s = s
              /\ At(r, "merge", "commit")' /\ req'[r].s = s => Recording(s)'
<1>1. req'[r] = x /\ \A q \in Request \ {r} : req[q] = NoRequest /\ req'[q] = NoRequest
  BY DEF TypeOK, Alone
<1> QED
  BY <1>1 DEF Alone, At, Recording

LEMMA FirstServed ==
  ASSUME NEW r \in Request, NEW op, Receive(r, op), ~lapped'
  PROVE  ~lapped /\ \A q \in Request : req[q] = NoRequest
  BY DEF Receive

LEMMA MergeReadSerial ==
  ASSUME FilesInv, Serial, [Next]_vars, ~lapped',
         NEW r \in Request, NEW s \in Session, MergeRead(r, s)
  PROVE  Serial'
<1> USE DEF Serial, FilesInv
<1>1. ~lapped /\ \A q \in Request : req[q] = NoRequest
  BY FirstServed DEF MergeRead
<1>2. PICK as : req' = [req EXCEPT ![r] =
                         [op |-> "merge", step |-> "write", s |-> s, as |-> as]]
  BY DEF MergeRead
<1>3. /\ UNCHANGED <<sess, filed, arts, disk, content, job, doomed, crashes, strays>>
      /\ sess[s] # "gone"
  BY DEF MergeRead, Receive, dbVars, diskVars
<1>4. /\ Alone' /\ req'[r] = [op |-> "merge", step |-> "write", s |-> s, as |-> as]
      /\ \A q \in Request \ {r} : req'[q] = NoRequest
      /\ \A t \in Session : ~Recording(t)
  <2>1. \A t \in Session : ~Recording(t)
    BY <1>1 DEF Recording, At
  <2> QED
    BY <1>1, <1>2, <2>1, OthersWait
<1>5. \A q \in Request : \A op, step : At(q, op, step)' => op = "merge" /\ step = "write"
  BY <1>4 DEF At
<1>6. MergeAlone'
  <2>1. \A q \in Request : req'[q] \in Merging => q = r
    BY <1>4 DEF NoRequest, Merging
  <2> QED
    BY <1>3, <1>4, <1>5, <2>1 DEF MergeAlone
<1>7. MergesRecorded' /\ MergesFiled'
  <2>1. MergesRecorded'
    BY <1>3, <1>4 DEF MergesRecorded, Late
  <2>2. MergesFiled'
    BY <1>3, <1>4 DEF MergesFiled, TypeOK
  <2> QED
    BY <2>1, <2>2
<1>8. DeletionsClear'
  <2>1. \A t \in Session : Cleared(t) => Cleared(t)'
    BY <1>3 DEF Cleared, Late
  <2> QED
    BY <1>3, <1>5, <2>1 DEF DeletionsClear
<1>9. SweepKeeps'
  BY <1>5 DEF SweepKeeps
<1> QED
  BY <1>4, <1>6, <1>7, <1>8, <1>9

LEMMA MergeWritesSerial ==
  ASSUME FilesInv, Serial, [Next]_vars, ~lapped', NEW r \in Request, MergeOpens(r) \/ MergeFills(r)
  PROVE  Serial'
<1> USE DEF Serial, FilesInv
<1> DEFINE s == req[r].s
<1>1. req[r] \in Merging /\ req[r] # NoRequest /\ ~lapped
  BY AtTyped, StaysLate DEF MergeOpens, MergeFills, At
<1>2. PICK x : req' = [req EXCEPT ![r] = x] /\ x.s = s /\ x.op = "merge"
               /\ x \in Merging
               /\ \/ x.step = "fill" /\ content'[s] = {}
                  \/ x.step = "commit" /\ content'[s] = x.as
  BY <1>1 DEF MergeOpens, MergeFills, Merging, TypeOK
<1>3. /\ UNCHANGED <<sess, filed, arts, job, doomed, crashes, strays>>
      /\ s \in Session /\ sess[s] # "gone" /\ Out(s) \in disk'
      /\ disk' \in {disk, disk \cup {Out(s)}}
      /\ \A t \in Session : t # s => content'[t] = content[t]
  <2>1. s \in Session
    BY <1>1 DEF Merging
  <2> QED
    BY <1>1, <2>1 DEF MergeAlone, MergeOpens, MergeFills, dbVars, pastVars, TypeOK
<1>4. /\ Alone' /\ req'[r] = x
      /\ \A q \in Request : \A op, step : At(q, op, step)' => q = r
      /\ \A q \in Request \ {r} : req'[q] = NoRequest
      /\ \A t \in Session : t # s => ~Recording(t)
      /\ x.step = "commit" => Recording(s)'
  <2>1. /\ Alone' /\ req'[r] = x
        /\ \A q \in Request \ {r} : req'[q] = NoRequest
        /\ \A q \in Request : \A op, step : At(q, op, step)' => q = r
    BY <1>1, <1>2, OthersWait
  <2>2. \A t \in Session : t # s => ~Recording(t)
    BY <1>1, <1>2, OthersWait
  <2>3. x # NoRequest
    BY <1>2 DEF NoRequest, Merging
  <2>4. x.step = "commit" => At(r, "merge", "commit")' /\ req'[r].s = s
    BY <1>2, <2>1, <2>3 DEF At
  <2> QED
    BY <2>1, <2>2, <2>4 DEF Recording
<1>5. MergeAlone'
  BY <1>2, <1>3, <1>4 DEF MergeAlone, At, NoRequest, Merging
<1>6. \A t \in Session : Out(t) = Out(s) => t = s
  BY DEF Out
<1>7. MergesRecorded'
  <2> SUFFICES ASSUME NEW t \in Session, sess[t] # "gone", Out(t) \in disk'
               PROVE  (\E y \in arts : y.s = t) \/ Out(t) \in Late(t)' \/ Recording(t)'
    BY <1>3 DEF MergesRecorded
  <2>1. CASE t = s
    BY <1>2, <1>4, <2>1 DEF Late
  <2>2. CASE t # s
    BY <1>3, <1>4, <1>6, <2>2, LateGrows DEF MergesRecorded
  <2> QED
    BY <2>1, <2>2
<1>8. MergesFiled'
  BY <1>2, <1>3, <1>4 DEF MergesFiled, TypeOK
<1>9. DeletionsClear'
  <2>1. \A t \in Session : sess[t] = "gone" => Cleared(t)'
    BY <1>3, <1>6, ClearedKeeps DEF DeletionsClear
  <2>2. \A q \in Request : ~At(q, "delete", "commit")' /\ ~At(q, "purge", "unlink")'
    BY <1>2, <1>4 DEF At
  <2> QED
    BY <1>3, <2>1, <2>2 DEF DeletionsClear
<1>10. SweepKeeps'
  BY <1>2, <1>4 DEF SweepKeeps, At
<1> QED
  BY <1>4, <1>5, <1>7, <1>8, <1>9, <1>10

LEMMA MergeEndsSerial ==
  ASSUME FilesInv, Serial, [Next]_vars, ~lapped', NEW r \in Request, MergeFails(r) \/ MergeCommit(r)
  PROVE  Serial'
<1> USE DEF Serial, FilesInv
<1> DEFINE s == req[r].s
<1>1. req[r] \in Merging /\ req[r] # NoRequest /\ ~lapped /\ s \in Session /\ sess[s] # "gone"
  <2>1. req[r] \in Merging /\ ~lapped
    BY AtTyped, StaysLate DEF MergeFails, MergeCommit
  <2> QED
    BY <2>1 DEF Merging, NoRequest, MergeAlone
<1>2. /\ UNCHANGED <<sess, filed, disk, content, job, doomed, crashes, strays>>
      /\ req' = [req EXCEPT ![r] = NoRequest]
      /\ \/ ~At(r, "merge", "commit") /\ UNCHANGED arts
         \/ /\ At(r, "merge", "commit")
            /\ arts' = arts \cup {[s |-> s, sum |-> req[r].as]}
            /\ Out(s) \in disk /\ content[s] = req[r].as
  BY <1>1 DEF MergeFails, MergeCommit, Answer, MergeAlone, dbVars, diskVars, pastVars, At
<1>3. /\ Alone' /\ req'[r] = NoRequest
      /\ \A q \in Request : \A op, step : At(q, op, step)' => q = r
      /\ \A q \in Request \ {r} : req'[q] = NoRequest
      /\ \A t \in Session : Recording(t) => t = s /\ At(r, "merge", "commit")
  BY <1>1, <1>2, OthersWait
<1>4. \A q \in Request : \A op, step : ~At(q, op, step)'
  BY <1>3 DEF At
<1>5. MergeAlone' /\ SweepKeeps'
  BY <1>3, <1>4 DEF MergeAlone, SweepKeeps, NoRequest, Merging
<1>6. \A t \in Session : Late(t)' = Late(t)
  BY <1>2 DEF Late
<1>7. MergesRecorded'
  <2> SUFFICES ASSUME NEW t \in Session, sess[t] # "gone", Out(t) \in disk
               PROVE  (\E y \in arts' : y.s = t) \/ Out(t) \in Late(t)
    BY <1>2, <1>6 DEF MergesRecorded
  <2>1. (\E y \in arts : y.s = t) \/ Out(t) \in Late(t) \/ (t = s /\ At(r, "merge", "commit"))
    BY <1>3 DEF MergesRecorded
  <2>2. ASSUME At(r, "merge", "commit") PROVE \E y \in arts' : y.s = s
    <3>1. [s |-> s, sum |-> req[r].as] \in arts'
      BY <1>2, <2>2
    <3>2. [s |-> s, sum |-> req[r].as].s = s
      OBVIOUS
    <3> QED
      BY <3>1, <3>2
  <2>3. arts \subseteq arts'
    BY <1>2
  <2> QED
    BY <2>1, <2>2, <2>3
<1>8. MergesFiled'
  <2> SUFFICES ASSUME NEW x \in arts', x.s \notin doomed
               PROVE  /\ Out(x.s) \in disk
                      /\ \/ \E y \in arts' : y.s = x.s /\ y.sum = content[x.s]
                         \/ content[x.s] = {} \/ crashes > 0
    BY <1>2 DEF MergesFiled
  <2>1. CASE At(r, "merge", "commit") /\ x.s = s
    <3>1. [s |-> s, sum |-> req[r].as] \in arts'
      BY <1>2, <2>1
    <3> QED
      BY <1>2, <2>1, <3>1
  <2>2. CASE ~(At(r, "merge", "commit") /\ x.s = s)
    <3>1. x \in arts /\ arts \subseteq arts'
      BY <1>2, <2>2
    <3>2. ~Recording(x.s)
      BY <1>3, <2>2, <3>1 DEF TypeOK
    <3> QED
      BY <3>1, <3>2 DEF MergesFiled
  <2> QED
    BY <2>1, <2>2
<1>9. DeletionsClear'
  BY <1>2, <1>4, <1>6 DEF DeletionsClear, Cleared
<1> QED
  BY <1>3, <1>5, <1>7, <1>8, <1>9

(* Unlinking what is on record of a session that is over clears it.        *)
LEMMA UnlinkClears ==
  ASSUME TypeOK, CapturesRecorded, MergesRecorded, NEW s \in Session,
         sess[s] = "ended", ~Recording(s)
  PROVE  (disk \ SessionFiles(s)) \cap FilesOf(s) \subseteq Late(s)
<1> SUFFICES ASSUME NEW f \in FilesOf(s), f \in disk, f \notin SessionFiles(s)
             PROVE  f \in Late(s)
  OBVIOUS
<1>1. CASE f = Out(s)
  <2>1. ~ \E x \in arts : x.s = s
    BY <1>1 DEF SessionFiles
  <2> QED
    BY <1>1, <2>1 DEF MergesRecorded
<1>2. CASE f # Out(s)
  <2>1. PICK a \in Of(s) : f \in Both({a})
    BY <1>2, FilesNamed
  <2>2. ~filed[a]
    BY <2>1 DEF SessionFiles, Both
  <2> QED
    BY <2>1, <2>2 DEF CapturesRecorded
<1> QED
  BY <1>1, <1>2

(* Files of one session are not on record for another.                     *)
LEMMA OthersOut ==
  ASSUME NEW s, NEW t, t # s
  PROVE  Out(t) \notin SessionFiles(s)
  BY DEF SessionFiles, Both, Out, Pcap, Json

(* A step that unlinks some files: what it takes of merged files belongs   *)
(* to sessions whose deletion has begun.                                   *)
LEMMA UnlinkSerial ==
  ASSUME FilesInv, Serial, [Next]_vars,
         UNCHANGED <<sess, filed, arts, content, job, crashes, strays>>,
         disk' \subseteq disk, \A s \in Session : ~Recording(s),
         \A x \in arts : x.s \notin doomed' /\ Out(x.s) \in disk => Out(x.s) \in disk'
  PROVE  /\ MergesRecorded' /\ MergesFiled'
         /\ \A s \in Session : Late(s)' = Late(s)
         /\ \A s \in Session : sess'[s] = "gone" => Cleared(s)'
         /\ \A s \in Session : Cleared(s) => Cleared(s)'
<1> USE DEF Serial, FilesInv
<1>1. \A s \in Session : Late(s)' = Late(s)
  BY DEF Late
<1>2. MergesRecorded'
  BY <1>1 DEF MergesRecorded
<1>3. MergesFiled'
  BY StaysLate DEF MergesFiled, TypeOK
<1>4. \A s \in Session : Cleared(s) => Cleared(s)'
  BY <1>1 DEF Cleared
<1>5. \A s \in Session : sess'[s] = "gone" => Cleared(s)'
  BY <1>4 DEF DeletionsClear
<1> QED
  BY <1>1, <1>2, <1>3, <1>4, <1>5

LEMMA DeleteUnlinkSerial ==
  ASSUME FilesInv, Serial, [Next]_vars, ~lapped',
         NEW r \in Request, NEW s \in Session, DeleteUnlink(r, s)
  PROVE  Serial'
<1> USE DEF Serial, FilesInv
<1>1. \A q \in Request : req[q] = NoRequest
  BY FirstServed DEF DeleteUnlink
<1>2. /\ UNCHANGED <<sess, filed, arts, content, job, crashes, strays>>
      /\ disk' = disk \ SessionFiles(s) /\ sess[s] = "ended" /\ s \in doomed'
      /\ req' = [req EXCEPT ![r] = [op |-> "delete", step |-> "commit", s |-> s]]
  BY DEF DeleteUnlink, Receive, dbVars
<1>3. \A t \in Session : ~Recording(t)
  BY <1>1 DEF Recording, At
<1>4. /\ Alone' /\ req'[r] = [op |-> "delete", step |-> "commit", s |-> s]
      /\ \A q \in Request \ {r} : req'[q] = NoRequest
      /\ \A q \in Request : \A op, step : At(q, op, step)' => q = r
  BY <1>1, <1>2, OthersWait
<1>5. \A q \in Request : \A op, step :
        At(q, op, step)' => op = "delete" /\ step = "commit" /\ req'[q].s = s
  BY <1>4 DEF At
<1>6. \A x \in arts : x.s \notin doomed' /\ Out(x.s) \in disk => Out(x.s) \in disk'
  BY <1>2, OthersOut
<1>7. /\ MergesRecorded' /\ MergesFiled'
      /\ \A t \in Session : Late(t)' = Late(t)
      /\ \A t \in Session : sess'[t] = "gone" => Cleared(t)'
  BY <1>2, <1>3, <1>6, UnlinkSerial
<1>8. Cleared(s)'
  BY <1>2, <1>3, <1>7, UnlinkClears DEF Cleared
<1>9. DeletionsClear'
  BY <1>5, <1>7, <1>8 DEF DeletionsClear
<1>10. MergeAlone'
  <2>1. \A q \in Request : req'[q] \notin Merging
    BY <1>4 DEF NoRequest, Merging
  <2> QED
    BY <1>5, <2>1 DEF MergeAlone
<1>11. SweepKeeps'
  BY <1>5 DEF SweepKeeps
<1> QED
  BY <1>4, <1>7, <1>9, <1>10, <1>11

(* A commit that drops the rows of sessions that are cleared.              *)
LEMMA DropSerial ==
  ASSUME FilesInv, Serial, [Next]_vars, NEW gone, DropRows(gone), gone \subseteq doomed,
         \A s \in gone : Cleared(s), \A s \in Session : ~Recording(s),
         UNCHANGED <<disk, content, job, crashes, strays, doomed>>
  PROVE  /\ MergesRecorded' /\ MergesFiled'
         /\ \A s \in Session : sess'[s] = "gone" => Cleared(s)'
<1> USE DEF Serial, FilesInv
<1>1. \A s \in Session : Late(s)' = Late(s)
  BY DEF Late
<1>2. \A s \in Session : Cleared(s) <=> Cleared(s)'
  BY <1>1 DEF Cleared
<1>3. \A x \in arts : x.s \notin gone => x \in arts'
  BY DEF DropRows
<1>4. \A s \in Session : sess'[s] # "gone" => s \notin gone /\ sess[s] # "gone"
  BY DEF DropRows
<1>5. arts' \subseteq arts
  BY DEF DropRows
<1>6. MergesRecorded'
  BY <1>1, <1>3, <1>4 DEF MergesRecorded
<1>7. MergesFiled'
  <2> SUFFICES ASSUME NEW x \in arts', x.s \notin doomed
               PROVE  /\ Out(x.s) \in disk
                      /\ \/ \E y \in arts' : y.s = x.s /\ y.sum = content[x.s]
                         \/ content[x.s] = {} \/ crashes > 0
    BY DEF MergesFiled
  <2>1. x \in arts /\ x.s \in Session
    BY <1>5 DEF TypeOK
  <2> QED
    BY <1>3, <2>1 DEF MergesFiled
<1>8. \A s \in Session : sess'[s] = "gone" => s \in gone \/ sess[s] = "gone"
  BY DEF DropRows
<1>9. \A s \in Session : sess'[s] = "gone" => Cleared(s)'
  BY <1>2, <1>8 DEF DeletionsClear
<1> QED
  BY <1>6, <1>7, <1>9

LEMMA DeleteCommitSerial ==
  ASSUME FilesInv, Serial, [Next]_vars, NEW r \in Request, DeleteCommit(r)
  PROVE  Serial'
<1> USE DEF Serial, FilesInv
<1>1. /\ req[r] \in Deleting /\ req[r] # NoRequest /\ At(r, "delete", "commit")
      /\ ~At(r, "merge", "commit")
  BY AtTyped DEF DeleteCommit, NoRequest, Deleting, At
<1>2. /\ DropRows({req[r].s}) /\ req' = [req EXCEPT ![r] = NoRequest]
      /\ UNCHANGED <<disk, content, job, crashes, strays, doomed>>
  BY DEF DeleteCommit, Answer, diskVars, pastVars
<1>3. /\ Alone' /\ req'[r] = NoRequest
      /\ \A q \in Request \ {r} : req'[q] = NoRequest
      /\ \A q \in Request : \A op, step : At(q, op, step)' => q = r
      /\ \A t \in Session : ~Recording(t)
  BY <1>1, <1>2, OthersWait
<1>4. req[r].s \in doomed /\ Cleared(req[r].s)
  BY <1>1 DEF DeletionsBegun, DeletionsClear
<1>5. /\ MergesRecorded' /\ MergesFiled'
      /\ \A s \in Session : sess'[s] = "gone" => Cleared(s)'
  BY <1>2, <1>3, <1>4, DropSerial
<1>6. \A q \in Request : \A op, step : ~At(q, op, step)'
  BY <1>3 DEF At
<1>7. MergeAlone' /\ SweepKeeps'
  BY <1>3, <1>6 DEF MergeAlone, SweepKeeps, NoRequest, Merging
<1>8. DeletionsClear'
  BY <1>5, <1>6 DEF DeletionsClear
<1> QED
  BY <1>3, <1>5, <1>7, <1>8

LEMMA PurgeReadSerial ==
  ASSUME FilesInv, Serial, [Next]_vars, ~lapped', NEW r \in Request, PurgeRead(r)
  PROVE  Serial'
<1> USE DEF Serial, FilesInv
<1>1. \A q \in Request : req[q] = NoRequest
  BY FirstServed DEF PurgeRead
<1>2. PICK ended : req' = [req EXCEPT ![r] = [op |-> "purge", step |-> "unlink",
                                              all |-> ended, todo |-> ended, keep |-> {}]]
  BY DEF PurgeRead
<1>3. UNCHANGED <<sess, filed, arts, disk, content, job, crashes, strays>>
  BY DEF PurgeRead, Receive, dbVars, diskVars
<1>4. /\ Alone'
      /\ req'[r] = [op |-> "purge", step |-> "unlink", all |-> ended, todo |-> ended, keep |-> {}]
      /\ \A q \in Request \ {r} : req'[q] = NoRequest
      /\ \A q \in Request : \A op, step : At(q, op, step)' => q = r
  BY <1>1, <1>2, OthersWait
<1>5. \A q \in Request : \A op, step :
        At(q, op, step)' => op = "purge" /\ step = "unlink" /\ req'[q].all = req'[q].todo
  BY <1>4 DEF At
<1>6. \A t \in Session : ~Recording(t)
  BY <1>1 DEF Recording, At
<1>7. /\ MergesRecorded' /\ MergesFiled'
      /\ \A t \in Session : sess'[t] = "gone" => Cleared(t)'
  BY <1>3, <1>6, UnlinkSerial
<1>8. DeletionsClear'
  BY <1>5, <1>7 DEF DeletionsClear
<1>9. MergeAlone'
  <2>1. \A q \in Request : req'[q] \notin Merging
    BY <1>4 DEF NoRequest, Merging
  <2> QED
    BY <1>5, <2>1 DEF MergeAlone
<1>10. SweepKeeps'
  BY <1>5 DEF SweepKeeps
<1> QED
  BY <1>4, <1>7, <1>8, <1>9, <1>10

LEMMA PurgeStepSerial ==
  ASSUME FilesInv, Serial, [Next]_vars, NEW r \in Request, PurgeStep(r)
  PROVE  Serial'
<1> USE DEF Serial, FilesInv
<1>1. req[r] \in Purging /\ req[r] # NoRequest /\ \A step : ~At(r, "merge", step)
  <2>1. req[r] \in Purging
    BY AtTyped DEF PurgeStep, PurgeUnlink, PurgeCommit, SweepRows, SweepArts, SweepUnlink
  <2> QED
    BY <2>1 DEF NoRequest, Purging, At
<1>2. PICK x : req' = [req EXCEPT ![r] = x] /\ (x = NoRequest \/ x.op = "purge")
  BY <1>1 DEF PurgeStep, PurgeUnlink, PurgeCommit, SweepRows, SweepArts, SweepUnlink, Answer,
     Purging
<1>3. /\ Alone' /\ req'[r] = x
      /\ \A q \in Request \ {r} : req'[q] = NoRequest
      /\ \A q \in Request : \A op, step : At(q, op, step)' => q = r
      /\ \A t \in Session : ~Recording(t)
  BY <1>1, <1>2, OthersWait
<1>4. MergeAlone'
  <2>1. \A q \in Request : req'[q] \notin Merging
    BY <1>2, <1>3 DEF NoRequest, Merging
  <2>2. \A q \in Request : \A op, step : At(q, op, step)' => op = "purge"
    BY <1>2, <1>3 DEF At
  <2> QED
    BY <2>1, <2>2 DEF MergeAlone
<1>5. \A q \in Request : ~At(q, "delete", "commit")'
  BY <1>2, <1>3 DEF At
<1>6. CASE PurgeUnlink(r)
  <2>1. PICK s \in req[r].todo : /\ disk' = disk \ SessionFiles(s)
                                 /\ req' = [req EXCEPT ![r].todo = @ \ {s}]
    BY <1>6 DEF PurgeUnlink
  <2>2. /\ UNCHANGED <<sess, filed, arts, content, job, crashes, strays, doomed>>
        /\ At(r, "purge", "unlink")
    BY <1>6 DEF PurgeUnlink, dbVars, pastVars
  <2>3. s \in Session /\ s \in doomed
    BY <1>1, <2>1, <2>2 DEF Purging, DeletionsBegun
  <2>4. \A y \in arts : y.s \notin doomed' /\ Out(y.s) \in disk => Out(y.s) \in disk'
    BY <2>1, <2>2, <2>3, OthersOut
  <2>5. /\ MergesRecorded' /\ MergesFiled'
        /\ \A t \in Session : Late(t)' = Late(t)
        /\ \A t \in Session : sess'[t] = "gone" => Cleared(t)'
        /\ \A t \in Session : Cleared(t) => Cleared(t)'
    BY <1>3, <2>1, <2>2, <2>4, UnlinkSerial
  <2>6. Cleared(s)'
    <3>1. CASE sess[s] = "gone"
      BY <2>2, <2>3, <2>5, <3>1
    <3>2. CASE sess[s] # "gone"
      <4>1. sess[s] = "ended"
        BY <2>3, <3>2 DEF DeletionsBegun, TypeOK
      <4> QED
        BY <1>3, <2>1, <2>3, <2>5, <4>1, UnlinkClears DEF Cleared
    <3> QED
      BY <3>1, <3>2
  <2>7. /\ req'[r].all = req[r].all /\ req'[r].todo = req[r].todo \ {s}
        /\ req'[r].step = "unlink"
    BY <1>1, <2>1, <2>2 DEF TypeOK, Purging, At
  <2>8. DeletionsClear'
    <3>1. ASSUME NEW t \in req'[r].all \ req'[r].todo PROVE Cleared(t)'
      <4>1. t = s \/ t \in req[r].all \ req[r].todo
        BY <2>7
      <4>2. t \in req[r].all \ req[r].todo => t \in Session /\ Cleared(t)
        BY <1>1, <2>2 DEF DeletionsClear, Purging
      <4> QED
        BY <2>5, <2>6, <4>1, <4>2
    <3> QED
      BY <1>3, <1>5, <2>5, <3>1 DEF DeletionsClear
  <2>9. SweepKeeps'
    BY <1>3, <2>7 DEF SweepKeeps, At
  <2> QED
    BY <1>3, <1>4, <2>5, <2>8, <2>9
<1>7. CASE PurgeCommit(r)
  <2>1. /\ DropRows(req[r].all) /\ At(r, "purge", "unlink") /\ req[r].todo = {}
        /\ UNCHANGED <<disk, content, job, crashes, strays, doomed>>
        /\ req' = [req EXCEPT ![r].step = "rows"]
    BY <1>7 DEF PurgeCommit, diskVars, pastVars
  <2>2. req[r].all \subseteq doomed /\ \A s \in req[r].all : Cleared(s)
    BY <2>1 DEF DeletionsBegun, DeletionsClear
  <2>3. /\ MergesRecorded' /\ MergesFiled'
        /\ \A s \in Session : sess'[s] = "gone" => Cleared(s)'
    BY <1>3, <2>1, <2>2, DropSerial
  <2>4. req'[r].step = "rows"
    BY <1>1, <2>1 DEF TypeOK, Purging
  <2>5. DeletionsClear'
    BY <1>3, <1>5, <2>3, <2>4 DEF DeletionsClear, At
  <2>6. SweepKeeps'
    BY <1>3, <2>4 DEF SweepKeeps, At
  <2> QED
    BY <1>3, <1>4, <2>3, <2>5, <2>6
<1>8. CASE SweepRows(r) \/ SweepArts(r)
  <2>1. UNCHANGED <<sess, filed, arts, disk, content, job, crashes, strays, doomed>>
    BY <1>8 DEF SweepRows, SweepArts, dbVars, diskVars, pastVars
  <2>2. /\ MergesRecorded' /\ MergesFiled'
        /\ \A t \in Session : sess'[t] = "gone" => Cleared(t)'
    BY <1>3, <2>1, UnlinkSerial
  <2>3. \/ req'[r].step = "arts" /\ req'[r].keep = Both({a \in Assignment : filed[a]})
        \/ /\ At(r, "purge", "arts") /\ req'[r].step = "sweep"
           /\ req'[r].keep = req[r].keep \cup {Out(y.s) : y \in arts}
    BY <1>1, <1>8 DEF SweepRows, SweepArts, TypeOK, Purging
  <2>4. DeletionsClear'
    BY <1>3, <1>5, <2>2, <2>3 DEF DeletionsClear, At
  <2>5. OnRecord' = OnRecord
    BY <2>1 DEF OnRecord, SessionFiles
  <2>6. req'[r].keep \subseteq OnRecord
    BY <2>3, RecordNamed DEF SweepKeeps
  <2>7. req'[r].step = "sweep" => \A y \in arts' : Out(y.s) \in req'[r].keep
    BY <2>1, <2>3
  <2>8. SweepKeeps'
    BY <1>3, <2>5, <2>6, <2>7 DEF SweepKeeps, At
  <2> QED
    BY <1>3, <1>4, <2>2, <2>4, <2>8
<1>9. CASE SweepUnlink(r)
  <2>1. /\ UNCHANGED <<sess, filed, arts, content, job, crashes, strays, doomed>>
        /\ At(r, "purge", "sweep") /\ req'[r] = NoRequest
        /\ disk' = disk \cap (req[r].keep \cup Both({a \in Assignment : InFlight(a)}))
    BY <1>9 DEF SweepUnlink, Answer, TypeOK, dbVars, pastVars
  <2>2. \A y \in arts : Out(y.s) \in req[r].keep
    BY <2>1 DEF SweepKeeps
  <2>3. /\ MergesRecorded' /\ MergesFiled'
        /\ \A t \in Session : sess'[t] = "gone" => Cleared(t)'
    BY <1>3, <2>1, <2>2, UnlinkSerial
  <2>4. \A q \in Request : \A op, step : ~At(q, op, step)'
    BY <1>3, <2>1 DEF At
  <2>5. DeletionsClear' /\ SweepKeeps'
    BY <2>3, <2>4 DEF DeletionsClear, SweepKeeps
  <2> QED
    BY <1>3, <1>4, <2>3, <2>5
<1> QED
  BY <1>6, <1>7, <1>8, <1>9 DEF PurgeStep

LEMMA FilesInit == Init => FilesInv
<1> SUFFICES ASSUME Init PROVE FilesInv
  OBVIOUS
<1>1. /\ \A q \in Request : req[q] = NoRequest
      /\ \A s \in Session : sess[s] = "running"
      /\ arts = {} /\ disk = {} /\ doomed = {}
  BY DEF Init
<1>2. \A q \in Request : \A op, step : ~At(q, op, step)
  BY <1>1 DEF At
<1>3. SessionsOver /\ CapturesRecorded /\ DeletionsBegun
  BY <1>1, <1>2 DEF SessionsOver, CapturesRecorded, DeletionsBegun
<1>4. Serial
  BY <1>1, <1>2 DEF Serial, Alone, MergeAlone, MergesRecorded, MergesFiled, DeletionsClear,
     SweepKeeps, NoRequest, Merging
<1> QED
  BY <1>3, <1>4, TypeInit DEF FilesInv

LEMMA FilesStep == FilesInv /\ [Next]_vars => FilesInv'
<1> SUFFICES ASSUME FilesInv, [Next]_vars PROVE FilesInv'
  OBVIOUS
<1>1. TypeOK' /\ SessionsOver' /\ CapturesRecorded' /\ DeletionsBegun'
  BY TypeStep, SessionsOverKeeps, CapturesRecordedKeeps, DeletionsBegunKeeps DEF FilesInv
<1>2. ASSUME ~lapped' PROVE Serial'
  <2>1. TypeOK /\ SessionsOver /\ DeletionsBegun /\ Serial
    BY <1>2, StaysLate DEF FilesInv
  <2> QED
    BY <1>2, <2>1, CaptureSerial, SyncSerial, CrashSerial, MergeReadSerial, MergeWritesSerial,
       MergeEndsSerial, DeleteUnlinkSerial, DeleteCommitSerial, PurgeReadSerial,
       PurgeStepSerial DEF Next, MergeStep
<1> QED
  BY <1>1, <1>2 DEF FilesInv

LEMMA FilesInvariant == Spec => []FilesInv
  BY FilesInit, FilesStep, PTL DEF Spec

(* Deleting or purging a session leaves no other file of it behind, from   *)
(* the commit on and as long as requests are served one at a time; also    *)
(* when a crash cut the deletion short and it was asked for again.         *)
THEOREM DeletionsAreComplete == Spec => []DeletedLeavesNothing
<1>1. FilesInv => DeletedLeavesNothing
  BY DEF FilesInv, Serial, DeletionsClear, Cleared, DeletedLeavesNothing
<1> QED
  BY <1>1, FilesInvariant, PTL

(* A merged file that is on record exists, and is the merge that some      *)
(* artifact of its session states, until its session's deletion is begun;  *)
(* one request at a time.                                                  *)
THEOREM MergesAreKept == Spec => []ArtifactHasFile
<1>1. FilesInv => ArtifactHasFile
  <2> SUFFICES ASSUME FilesInv, Quiet, ~lapped, NEW x \in arts, x.s \notin doomed
               PROVE  /\ Out(x.s) \in disk
                      /\ \/ \E y \in arts : y.s = x.s /\ y.sum = content[x.s]
                         \/ content[x.s] = {} \/ crashes > 0
    BY DEF ArtifactHasFile
  <2>1. ~Recording(x.s)
    BY DEF Recording, At, Quiet
  <2> QED
    BY <2>1 DEF FilesInv, Serial, MergesFiled
<1> QED
  BY <1>1, FilesInvariant, PTL

(* A purge that is served alone leaves only files that are on record or    *)
(* belong to a capture in flight, for any sessions and captures.           *)
THEOREM PurgesAreComplete == Spec => PurgeLeavesNoOrphan
<1> DEFINE Leaves(r) ==
      At(r, "purge", "sweep") /\ ~lapped /\ req'[r] = NoRequest /\ crashes' = crashes =>
        disk' \subseteq OnRecord \cup Both({a \in Assignment : InFlight(a)})
<1>1. FilesInv /\ [Next]_vars => [\A r \in Request : Leaves(r)]_vars
  <2> SUFFICES ASSUME FilesInv, Next, NEW r \in Request, At(r, "purge", "sweep"), ~lapped,
                      req'[r] = NoRequest, crashes' = crashes
               PROVE  disk' \subseteq OnRecord \cup Both({a \in Assignment : InFlight(a)})
    OBVIOUS
  <2>1. req[r] \in Purging /\ req[r] # NoRequest
    BY AtTyped DEF FilesInv, At
  <2>2. ASSUME SweepUnlink(r)
        PROVE  disk' \subseteq OnRecord \cup Both({a \in Assignment : InFlight(a)})
    BY <2>2 DEF SweepUnlink, FilesInv, Serial, SweepKeeps
  <2>3. ASSUME NEW q \in Request, q # r,
               \/ MergeStep(q) \/ DeleteCommit(q) \/ PurgeRead(q) \/ PurgeStep(q)
               \/ \E s \in Session : MergeRead(q, s) \/ DeleteUnlink(q, s)
        PROVE  req'[r] = req[r]
    BY <2>3 DEF MergeStep, MergeOpens, MergeFills, MergeFails, MergeCommit, DeleteCommit, PurgeRead,
       PurgeStep, PurgeUnlink, PurgeCommit, SweepRows, SweepArts, SweepUnlink, MergeRead,
       DeleteUnlink, Answer, FilesInv, TypeOK
  <2>4. ~MergeStep(r) /\ ~DeleteCommit(r) /\ ~PurgeRead(r) /\ ~PurgeUnlink(r) /\ ~PurgeCommit(r)
        /\ ~SweepRows(r) /\ ~SweepArts(r)
        /\ \A s \in Session : ~MergeRead(r, s) /\ ~DeleteUnlink(r, s)
    BY <2>1 DEF MergeStep, MergeOpens, MergeFills, MergeFails, MergeCommit, DeleteCommit, PurgeRead,
       PurgeUnlink, PurgeCommit, SweepRows, SweepArts, MergeRead, DeleteUnlink, Receive, At
  <2>5. ASSUME UNCHANGED req PROVE FALSE
    BY <2>1, <2>5
  <2>6. ASSUME Crash PROVE FALSE
    BY <2>6 DEF Crash, FilesInv, TypeOK
  <2> QED
    BY <2>1, <2>2, <2>3, <2>4, <2>5, <2>6 DEF Next, PurgeStep, FileOpened, JobEnds, JobFails,
       SidecarWritten, SyncTurn
<1> QED
  BY <1>1, FilesInvariant, PTL DEF Spec, PurgeLeavesNoOrphan
=============================================================================
